----------------------------- MODULE WafEngine -----------------------------
(***************************************************************************)
(* The policy layer of fywaf (src/engine.rs): what WafEngine::decide shows *)
(* the WASM module of a profile, and what it makes of the module's answer. *)
(*                                                                         *)
(* A request is its head (method, path, query and headers, one opaque      *)
(* value) and its body.  Loaded modules are immutable and every call runs  *)
(* in an instance of its own (src/wasm/vm.rs), so the answer is a function *)
(* of what the module is shown: the constant Verdict.                      *)
(***************************************************************************)
EXTENDS Naturals

CONSTANTS
    Profile,    \* ids of the profiles with a loaded module
    ReqHead,    \* request heads: method, path, query, headers
    ReqBody,    \* request bodies, as bytes
    TextBody,   \* the bodies that are valid UTF-8
    None,       \* the absent value of every Option
    Verdict     \* what each module answers to each request it is shown

Request == [head : ReqHead, body : ReqBody]

(* A request and the profile it is decided under *)
Question == [profile : Profile, request : Request]

(* What is made of it for the module: RequestMeta *)
Meta == [profile : Profile, head : ReqHead, body : TextBody \cup {None}]

(* A status is a u16; those HTTP knows are 100 to 599. *)
U16 == {n \in Nat : n <= 65535}
LegalStatus == {n \in Nat : 100 <= n /\ n <= 599}

(* The Result<WasmDecision> of the vm.  An omitted status is a 0: the match *)
(* of decide treats the two alike.  allow and status count only if ok.     *)
WasmAnswer == [ok : BOOLEAN, allow : BOOLEAN, status : U16]

Decision == [ok : BOOLEAN, allow : BOOLEAN, status : LegalStatus]

ASSUME EngineAssumption ==
    /\ TextBody \subseteq ReqBody
    /\ None \notin ReqBody \cup Request \cup Question \cup Decision
    /\ Verdict \in [Meta -> WasmAnswer]

----------------------------------------------------------------------------
(* A body that is not UTF-8 is not shown to the module: from_utf8().ok() *)
MetaOf(p, r) ==
    [profile |-> p,
     head    |-> r.head,
     body    |-> IF r.body \in TextBody THEN r.body ELSE None]

(* Mutant of StatusCode: the module's status is passed on unchecked. *)
StatusCodeUnchecked(a) == a.status

(* The module's status if it is an HTTP status, else 200 or 403 *)
StatusCode(a) ==
    IF a.status \in LegalStatus THEN a.status
    ELSE IF a.allow THEN 200 ELSE 403

(* WafEngine::decide; a failed call of the vm is returned as it is *)
EngineDecide(p, r) ==
    LET answer == Verdict[MetaOf(p, r)]
    IN  [ok |-> answer.ok, allow |-> answer.allow, status |-> StatusCode(answer)]

Allows(d) == d.ok /\ d.allow
Blocks(d) == d.ok /\ ~d.allow
============================================================================
