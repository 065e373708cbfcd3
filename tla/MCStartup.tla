----------------------------- MODULE MCStartup -----------------------------
(* Up to two profiles and two sites, with every conflict between two of    *)
(* them, and an entry for every other thing that validate refuses.         *)
EXTENDS Startup

MCPath == {"one.wasm", "two.wasm"}

ProfileEntry(id, path, prm) == [id |-> id, path |-> path, params |-> prm]
SiteEntry(id, listen, url, p) == [id |-> id, listen |-> listen, url |-> url, profile |-> p]

Profiles == {
    ProfileEntry("p", "one.wasm", None),
    ProfileEntry("p", "two.wasm", "x"),
    ProfileEntry("q", "two.wasm", "x"),
    ProfileEntry(Blank, "one.wasm", None),
    ProfileEntry("p", Blank, None) }

Sites == {
    SiteEntry("s", ":80", "http", "p"),
    SiteEntry("s", ":81", "http", "q"),
    SiteEntry("t", ":81", "http", "p"),
    SiteEntry("t", ":80", "http", "q"),
    SiteEntry("t", ":81", "broken http", "q"),
    SiteEntry(Blank, ":80", "http", "p"),
    SiteEntry("s", Blank, "http", "p"),
    SiteEntry("s", ":80", "other", "p"),
    SiteEntry("s", ":80", "blank", "p") }

UpTo(n, S) == UNION {[1 .. k -> S] : k \in 0 .. n}

MCConfigs == {[profiles |-> ps, sites |-> ss] : ps \in UpTo(2, Profiles), ss \in UpTo(2, Sites)}
============================================================================
