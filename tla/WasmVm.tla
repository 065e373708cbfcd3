------------------------------ MODULE WasmVm ------------------------------
(***************************************************************************)
(* One call of WasmVm::decide (src/wasm/vm.rs): a fresh instance of the    *)
(* profile's module is asked where its request buffer is, given the        *)
(* request, run, and asked where its answer is.                            *)
(*                                                                         *)
(* The module is whatever the operator configured.  While one of its       *)
(* functions runs it burns fuel, may grow its memory, may trap and may     *)
(* return any i32; nothing makes it return.  The host's code between two   *)
(* such calls is one action.                                               *)
(***************************************************************************)
EXTENDS Integers

CONSTANTS
    RequestLens,    \* lengths a serialized request may have
    InitialPages,   \* the module's memory when it is instantiated
    MaxPages,       \* and the most it allows
    Returns,        \* what its functions may return
    Fuel            \* WASM_FUEL_PER_CALL

Page == 65536                   \* WASM_PAGE_SIZE
MaxRequestLen == Page           \* MAX_REQUEST_JSON_LEN
MaxResultLen == Page            \* MAX_RESULT_LEN

ASSUME VmAssumption ==
    /\ RequestLens \subseteq Nat \ {0}
    /\ InitialPages \in Nat
    /\ MaxPages \in Nat
    /\ InitialPages <= MaxPages
    /\ Returns \subseteq Int
    /\ Fuel \in Nat

VARIABLES
    pc,         \* the call of the guest or the host's code that is next
    pages,      \* size of the instance's memory, in pages
    memSize,    \* the local `mem_size`, at its last assignment
    fuel,       \* fuel left in the store
    spent,      \* fuel each call of the guest has burnt
    reqLen,     \* req_bytes.len()
    reqPtr,     \* get_req_ptr's answer
    resLen,     \* decide's answer
    resPtr      \* get_result_ptr's answer

vars == <<pc, pages, memSize, fuel, spent, reqLen, reqPtr, resLen, resPtr>>

(* Calls of the guest: the module's start function and its three exports *)
GuestCall == {"start", "get_req_ptr", "decide", "get_result_ptr"}
HostCode == {"check size", "place request", "check length", "read result"}
Errors == {"trap", "out of fuel", "request too long", "bad request pointer",
           "cannot grow", "write failed", "bad result length",
           "bad result pointer", "result out of bounds", "read failed",
           "not a decision"}
Ended == {"decision"} \cup Errors

TypeOK ==
    /\ pc \in GuestCall \cup HostCode \cup Ended
    /\ pages \in 0 .. MaxPages
    /\ memSize \in Nat
    /\ fuel \in Nat
    /\ spent \in [GuestCall -> Nat]
    /\ reqLen \in RequestLens
    /\ reqPtr \in Int
    /\ resLen \in Int
    /\ resPtr \in Int

Init ==
    /\ pc = "start"
    /\ pages = InitialPages
    /\ memSize = 0
    /\ fuel = Fuel
    /\ spent = [g \in GuestCall |-> 0]
    /\ reqLen \in RequestLens
    /\ reqPtr = 0
    /\ resLen = 0
    /\ resPtr = 0

(* memory.data_size() *)
mem == pages * Page

----------------------------------------------------------------------------
(* The guest *)

(* Mutant of Burnt: the engine is built without consume_fuel. *)
BurntNever(f) == f

Burnt(f) == f - 1

(* Mutant of GuestRuns: the engine is built without a meter. *)
GuestRunsUnmetered ==
    /\ pc \in GuestCall
    /\ pages' \in {pages} \cup ({pages + 1} \cap 0 .. MaxPages)
    /\ UNCHANGED <<pc, memSize, fuel, spent, reqLen, reqPtr, resLen, resPtr>>

GuestRuns ==
    /\ pc \in GuestCall
    /\ fuel > 0
    /\ fuel' = Burnt(fuel)
    /\ spent' = [spent EXCEPT ![pc] = @ + 1]
    /\ pages' \in {pages} \cup ({pages + 1} \cap 0 .. MaxPages)
    /\ UNCHANGED <<pc, memSize, reqLen, reqPtr, resLen, resPtr>>

GuestTraps ==
    /\ pc \in GuestCall
    /\ pc' = IF fuel = 0 THEN "out of fuel" ELSE "trap"
    /\ UNCHANGED <<pages, memSize, fuel, spent, reqLen, reqPtr, resLen, resPtr>>

Started ==
    /\ pc = "start"
    /\ pc' = "check size"
    /\ UNCHANGED <<pages, memSize, fuel, spent, reqLen, reqPtr, resLen, resPtr>>

GivesRequestPtr(v) ==
    /\ pc = "get_req_ptr"
    /\ reqPtr' = v
    /\ pc' = "place request"
    /\ UNCHANGED <<pages, memSize, fuel, spent, reqLen, resLen, resPtr>>

Decides(v) ==
    /\ pc = "decide"
    /\ resLen' = v
    /\ pc' = "check length"
    /\ UNCHANGED <<pages, memSize, fuel, spent, reqLen, reqPtr, resPtr>>

GivesResultPtr(v) ==
    /\ pc = "get_result_ptr"
    /\ resPtr' = v
    /\ pc' = "read result"
    /\ UNCHANGED <<pages, memSize, fuel, spent, reqLen, reqPtr, resLen>>

Guest ==
    \/ GuestRuns
    \/ GuestTraps
    \/ Started
    \/ \E v \in Returns : GivesRequestPtr(v) \/ Decides(v) \/ GivesResultPtr(v)

----------------------------------------------------------------------------
(* The host *)

CheckSize ==
    /\ pc = "check size"
    /\ pc' = IF reqLen > MaxRequestLen THEN "request too long" ELSE "get_req_ptr"
    /\ UNCHANGED <<pages, memSize, fuel, spent, reqLen, reqPtr, resLen, resPtr>>

RequestEnd == reqPtr + reqLen

(* Mutant of PagesToGrow: the division rounds down. *)
PagesToGrowFloor(extra) == extra \div Page

(* extra.div_ceil(page) *)
PagesToGrow(extra) == (extra + Page - 1) \div Page

(* Mutant of Grown: room is made for all of the buffer, not for what lacks. *)
GrownByAll == IF RequestEnd > mem THEN pages + PagesToGrow(RequestEnd) ELSE pages

(* The pages the host leaves the guest with *)
Grown == IF RequestEnd > mem THEN pages + PagesToGrow(RequestEnd - mem) ELSE pages

PlaceRequest ==
    /\ pc = "place request"
    /\ memSize' = IF reqPtr < 0 THEN memSize ELSE mem
    /\ \/ /\ reqPtr < 0 \/ reqPtr >= mem
          /\ pc' = "bad request pointer"
          /\ UNCHANGED pages
       \/ /\ 0 <= reqPtr /\ reqPtr < mem
          /\ Grown > MaxPages
          /\ pc' = "cannot grow"
          /\ UNCHANGED pages
       \/ /\ 0 <= reqPtr /\ reqPtr < mem
          /\ Grown <= MaxPages
          /\ pages' = Grown
          /\ pc' = IF RequestEnd <= mem' THEN "decide" ELSE "write failed"
    /\ UNCHANGED <<fuel, spent, reqLen, reqPtr, resLen, resPtr>>

(* Mutant of Replenished: the last call runs on what the others left. *)
ReplenishedNever == fuel

Replenished == Fuel

CheckLength ==
    /\ pc = "check length"
    /\ \/ /\ resLen <= 0 \/ resLen > MaxResultLen
          /\ pc' = "bad result length"
          /\ UNCHANGED fuel
       \/ /\ 0 < resLen /\ resLen <= MaxResultLen
          /\ pc' = "get_result_ptr"
          /\ fuel' = Replenished
    /\ UNCHANGED <<pages, memSize, spent, reqLen, reqPtr, resLen, resPtr>>

ResultEnd == resPtr + resLen

(* Mutant of SizeForResult: the size seen when the request was placed. *)
SizeForResultStale == memSize

SizeForResult == mem

(* The bytes are then checked to be UTF-8 and the JSON of a decision *)
ReadResult ==
    /\ pc = "read result"
    /\ memSize' = IF resPtr < 0 THEN memSize ELSE SizeForResult
    /\ \/ /\ resPtr < 0
          /\ pc' = "bad result pointer"
       \/ /\ resPtr >= 0 /\ ResultEnd > memSize'
          /\ pc' = "result out of bounds"
       \/ /\ resPtr >= 0 /\ ResultEnd <= memSize'
          /\ pc' \in IF ResultEnd <= mem THEN {"decision", "not a decision"}
                     ELSE {"read failed"}
    /\ UNCHANGED <<pages, fuel, spent, reqLen, reqPtr, resLen, resPtr>>

Host == CheckSize \/ PlaceRequest \/ CheckLength \/ ReadResult

Next == Guest \/ Host

Spec == Init /\ [][Next]_vars

(* The worker thread runs on; whether the guest's function ever returns by *)
(* itself is the guest's own affair, so returning is given no fairness.    *)
FairSpec ==
    /\ Spec
    /\ WF_vars(Host)
    /\ WF_vars(GuestRuns)
    /\ WF_vars(GuestTraps /\ fuel = 0)

----------------------------------------------------------------------------
(* Properties *)

(* The host never touches memory the instance does not have: the request   *)
(* is written, and the answer read, inside it, after any growth by host or *)
(* guest, so neither Memory::write nor Memory::read fails.                 *)
HostAccessInBounds ==
    /\ pc \notin {"write failed", "read failed"}
    /\ pc \in {"decide", "check length", "get_result_ptr", "read result", "decision"} =>
        0 <= reqPtr /\ RequestEnd <= mem
    /\ pc = "decision" => 0 <= resPtr /\ ResultEnd <= mem

(* The host grows the memory for a request that does not fit, by no page   *)
(* more than it takes, and never beyond what the module allows.            *)
GrowthIsMinimal ==
    [][pc = "place request" /\ pages' # pages =>
        /\ RequestEnd > mem
        /\ (pages' - 1) * Page < RequestEnd
        /\ pages' <= MaxPages]_vars

(* No answer is refused for lying outside the memory when it lies inside   *)
(* the memory the guest had when it returned, nor a request for not        *)
(* fitting when the module's limit has room for it.                        *)
RefusalDeserved ==
    /\ pc = "result out of bounds" => ResultEnd > mem
    /\ pc = "bad request pointer" => reqPtr < 0 \/ reqPtr >= mem
    /\ pc = "cannot grow" => RequestEnd > MaxPages * Page
    /\ pc = "request too long" => spent["get_req_ptr"] = 0 /\ spent["decide"] = 0

(* A call burns two allowances at most: the guest's functions up to and    *)
(* with decide share one, and get_result_ptr has one to itself, whatever   *)
(* the others left of theirs.                                              *)
FuelBound ==
    /\ spent["start"] + spent["get_req_ptr"] + spent["decide"] <= Fuel
    /\ spent["get_result_ptr"] <= Fuel

(* "Fuel limit per request", says the comment on the constant that sets    *)
(* the allowance: what one request burns in all.                           *)
FuelPerRequest ==
    spent["start"] + spent["get_req_ptr"] + spent["decide"] + spent["get_result_ptr"] <= Fuel

(* A module that burnt all its fuel in decide can still be asked where its *)
(* answer is ("cannot cause this retrieval to fail").                      *)
ResultRetrievable ==
    pc = "out of fuel" /\ resLen > 0 => spent["get_result_ptr"] = Fuel

(* decide() returns though the module loops for ever: it cannot hold its   *)
(* worker thread for good.                                                 *)
CallEnds == <>(pc \in Ended)

(* The inductive invariant: where the fuel is, and what is known of the    *)
(* guest's answers, at each point of the call.                             *)
FirstCalls == {"start", "check size", "get_req_ptr", "place request", "decide", "check length"}
LastCall == {"get_result_ptr", "read result", "decision", "not a decision"}

FuelAccounted ==
    /\ pc \in FirstCalls =>
        /\ fuel + spent["start"] + spent["get_req_ptr"] + spent["decide"] = Fuel
        /\ spent["get_result_ptr"] = 0
    /\ pc \in LastCall => fuel + spent["get_result_ptr"] = Fuel

AnswersKnown ==
    /\ pc \in {"start", "check size"} => spent["get_req_ptr"] = 0 /\ spent["decide"] = 0
    /\ pc \in {"start", "check size", "get_req_ptr", "place request", "decide"} => resLen = 0
    /\ pc \in LastCall => 0 < resLen

IInv ==
    /\ TypeOK
    /\ FuelAccounted
    /\ AnswersKnown
    /\ HostAccessInBounds
    /\ RefusalDeserved
    /\ FuelBound
    /\ ResultRetrievable
============================================================================
