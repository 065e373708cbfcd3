--------------------------- MODULE WasmVmProofs ---------------------------
(* The safety of WasmVm.tla, for every guest, every request and every      *)
(* allowance of fuel.                                                      *)
EXTENDS WasmVm, TLAPS

(* div_ceil gives the least number of pages that hold the extra bytes. *)
LEMMA DivCeil ==
    ASSUME NEW extra \in Nat \ {0}
    PROVE  /\ PagesToGrow(extra) \in Nat \ {0}
           /\ extra <= PagesToGrow(extra) * Page
           /\ (PagesToGrow(extra) - 1) * Page < extra
BY DEF PagesToGrow, Page

(* After the host has grown it, the memory holds the whole request. *)
LEMMA GrownHolds ==
    ASSUME pages \in Nat, reqPtr \in Nat, reqLen \in Nat
    PROVE  /\ Grown \in Nat
           /\ Grown >= pages
           /\ RequestEnd <= Grown * Page
           /\ Grown # pages => RequestEnd > mem /\ (Grown - 1) * Page < RequestEnd
<1>1. CASE RequestEnd > mem
  <2>1. RequestEnd - mem \in Nat \ {0}
    BY <1>1 DEF RequestEnd, mem, Page
  <2>2. Grown = pages + PagesToGrow(RequestEnd - mem)
    BY <1>1 DEF Grown
  <2> QED
    BY <1>1, <2>1, <2>2, DivCeil DEF mem, RequestEnd, Page
<1>2. CASE ~(RequestEnd > mem)
    BY <1>2 DEF Grown, RequestEnd, mem, Page
<1> QED
    BY <1>1, <1>2

(* Every first state satisfies the invariant. *)
LEMMA InvInit == Init => IInv
<1> SUFFICES ASSUME Init PROVE IInv
    OBVIOUS
<1> USE VmAssumption DEF Init, GuestCall, Ended, Errors, FirstCalls, LastCall
<1>1. TypeOK
    BY DEF TypeOK
<1>2. FuelAccounted /\ AnswersKnown
    BY DEF FuelAccounted, AnswersKnown
<1>3. HostAccessInBounds /\ RefusalDeserved
    BY DEF HostAccessInBounds, RefusalDeserved
<1>4. FuelBound /\ ResultRetrievable
    BY DEF FuelBound, ResultRetrievable
<1> QED
    BY <1>1, <1>2, <1>3, <1>4 DEF IInv

(* A memory of more pages has more bytes. *)
LEMMA Bytes == ASSUME NEW p \in Nat PROVE p * Page \in Nat
BY DEF Page

(* A memory of more pages has at least as many bytes. *)
LEMMA BytesMonotonic ==
    ASSUME NEW p \in Nat, NEW q \in Nat, p <= q
    PROVE  p * Page <= q * Page
BY DEF Page

(* The types, one by one *)
LEMMA FuelTypes ==
    ASSUME TypeOK
    PROVE  /\ fuel \in Nat /\ Fuel \in Nat
           /\ spent["start"] \in Nat /\ spent["get_req_ptr"] \in Nat
           /\ spent["decide"] \in Nat /\ spent["get_result_ptr"] \in Nat
BY VmAssumption DEF TypeOK, GuestCall

(* The types of the numbers the host computes with *)
LEMMA Types ==
    ASSUME TypeOK
    PROVE  /\ pages \in Nat /\ pages <= MaxPages /\ MaxPages \in Nat
           /\ mem \in Nat /\ memSize \in Nat
           /\ reqLen \in Nat \ {0} /\ reqPtr \in Int /\ resLen \in Int /\ resPtr \in Int
           /\ RequestEnd \in Int /\ ResultEnd \in Int
<1>1. pages \in Nat /\ pages <= MaxPages /\ MaxPages \in Nat
    BY VmAssumption DEF TypeOK
<1>2. mem \in Nat
    BY <1>1, Bytes DEF mem
<1>3. reqLen \in Nat \ {0} /\ reqPtr \in Int /\ resLen \in Int /\ resPtr \in Int
    BY VmAssumption DEF TypeOK
<1>4. RequestEnd \in Int /\ ResultEnd \in Int
    BY <1>3 DEF RequestEnd, ResultEnd
<1>5. memSize \in Nat
    BY DEF TypeOK
<1> QED
    BY <1>1, <1>2, <1>3, <1>4, <1>5

(* A unit of fuel burnt is a unit spent. *)
LEMMA BurntIsSpent ==
    ASSUME NEW f \in Nat, NEW a \in Nat, NEW b \in Nat, NEW c \in Nat, f > 0, f + a + b + c = Fuel
    PROVE  /\ (f - 1) + (a + 1) + b + c = Fuel
           /\ (f - 1) + a + (b + 1) + c = Fuel
           /\ (f - 1) + a + b + (c + 1) = Fuel
           /\ (a + 1) + b + c <= Fuel
           /\ a + (b + 1) + c <= Fuel
           /\ a + b + (c + 1) <= Fuel
OBVIOUS

(* A step that leaves the memory and the request alone leaves the host's   *)
(* view of them.                                                           *)
LEMMA SameMemory ==
    ASSUME UNCHANGED <<pages, reqPtr, reqLen>>
    PROVE  mem' = mem /\ RequestEnd' = RequestEnd
BY DEF mem, RequestEnd

(* The end of a call by a trap *)
LEMMA InvTraps == ASSUME IInv, GuestTraps PROVE IInv'
<1>1. TypeOK /\ FuelAccounted /\ AnswersKnown /\ FuelBound
    BY DEF IInv
<1>2. pc \in GuestCall /\ pc' = IF fuel = 0 THEN "out of fuel" ELSE "trap"
    BY DEF GuestTraps
<1>3. UNCHANGED <<pages, memSize, fuel, spent, reqLen, reqPtr, resLen, resPtr>>
    BY DEF GuestTraps
<1>4. TypeOK'
    BY <1>1, <1>2, <1>3 DEF TypeOK, Ended, Errors
<1>5. FuelAccounted' /\ AnswersKnown'
    BY <1>2 DEF FuelAccounted, AnswersKnown, FirstCalls, LastCall
<1>6. HostAccessInBounds' /\ RefusalDeserved'
    BY <1>2 DEF HostAccessInBounds, RefusalDeserved
<1>7. FuelBound'
    BY <1>1, <1>3 DEF FuelBound
<1>8. ResultRetrievable'
  <2>1. CASE pc = "get_result_ptr"
    <3>1. fuel + spent["get_result_ptr"] = Fuel
        BY <1>1, <2>1 DEF FuelAccounted, LastCall
    <3>2. pc' = "out of fuel" => fuel = 0
        BY <1>2
    <3>3. spent["get_result_ptr"] \in Nat
        BY <1>1, FuelTypes
    <3>4. fuel = 0 => spent["get_result_ptr"] = Fuel
        BY <3>1, <3>3
    <3> QED
        BY <1>3, <3>2, <3>4 DEF ResultRetrievable
  <2>2. CASE pc # "get_result_ptr"
    <3>1. resLen' = 0
        BY <1>1, <1>2, <1>3, <2>2 DEF AnswersKnown, GuestCall
    <3>2. ~(resLen' > 0)
        BY <3>1
    <3> QED
        BY <3>2 DEF ResultRetrievable
  <2> QED
    BY <2>1, <2>2
<1> QED
    BY <1>4, <1>5, <1>6, <1>7, <1>8 DEF IInv

(* The end of a call by a return: the next thing is the host's code *)
LEMMA InvReturns ==
    ASSUME IInv,
           \/ Started
           \/ \E v \in Returns : GivesRequestPtr(v) \/ Decides(v) \/ GivesResultPtr(v)
    PROVE  IInv'
<1>1. TypeOK /\ FuelAccounted /\ AnswersKnown /\ FuelBound /\ HostAccessInBounds
    BY DEF IInv
<1>2. UNCHANGED <<pages, memSize, fuel, spent, reqLen>>
    BY DEF Started, GivesRequestPtr, Decides, GivesResultPtr
<1>3. \/ /\ pc = "start" /\ pc' = "check size"
         /\ reqPtr' = reqPtr /\ resLen' = resLen /\ resPtr' = resPtr
      \/ /\ pc = "get_req_ptr" /\ pc' = "place request"
         /\ reqPtr' \in Int /\ resLen' = resLen /\ resPtr' = resPtr
      \/ /\ pc = "decide" /\ pc' = "check length"
         /\ reqPtr' = reqPtr /\ resLen' \in Int /\ resPtr' = resPtr
      \/ /\ pc = "get_result_ptr" /\ pc' = "read result"
         /\ reqPtr' = reqPtr /\ resLen' = resLen /\ resPtr' \in Int
    BY VmAssumption DEF Started, GivesRequestPtr, Decides, GivesResultPtr
<1>4. TypeOK'
    BY <1>1, <1>2, <1>3 DEF TypeOK, HostCode
<1>5. FuelAccounted' /\ AnswersKnown'
    BY <1>1, <1>2, <1>3 DEF FuelAccounted, AnswersKnown, FirstCalls, LastCall
<1>6. HostAccessInBounds'
    BY <1>1, <1>2, <1>3, SameMemory DEF HostAccessInBounds
<1>7. RefusalDeserved' /\ ResultRetrievable'
    BY <1>3 DEF RefusalDeserved, ResultRetrievable
<1>8. FuelBound'
    BY <1>1, <1>2 DEF FuelBound
<1> QED
    BY <1>4, <1>5, <1>6, <1>7, <1>8 DEF IInv

(* A guest that runs burns fuel and may grow its memory. *)
LEMMA InvGuestRuns == ASSUME IInv, GuestRuns PROVE IInv'
<1>1. TypeOK /\ FuelAccounted /\ AnswersKnown /\ FuelBound /\ HostAccessInBounds
    BY DEF IInv
<1>2. /\ pc \in GuestCall /\ pc' = pc /\ fuel > 0 /\ fuel' = fuel - 1
      /\ UNCHANGED <<memSize, reqLen, reqPtr, resLen, resPtr>>
    BY DEF GuestRuns, Burnt
<1>3. pages' \in 0 .. MaxPages /\ pages <= pages'
    BY <1>1, Types DEF GuestRuns
<1>4. spent' = [spent EXCEPT ![pc] = @ + 1]
    BY DEF GuestRuns
<1>5. TypeOK'
    BY <1>1, <1>2, <1>3, <1>4 DEF TypeOK
<1>6. \A g \in GuestCall : spent'[g] = IF g = pc THEN spent[g] + 1 ELSE spent[g]
    BY <1>1, <1>4 DEF TypeOK
<1>7. FuelAccounted' /\ FuelBound'
  <2>1. /\ fuel \in Nat /\ Fuel \in Nat
        /\ spent["start"] \in Nat /\ spent["get_req_ptr"] \in Nat
        /\ spent["decide"] \in Nat /\ spent["get_result_ptr"] \in Nat
    BY <1>1, FuelTypes
  <2>2. CASE pc = "get_result_ptr"
    <3>1. fuel + spent["get_result_ptr"] = Fuel
        BY <1>1, <2>2 DEF FuelAccounted, LastCall
    <3>2. /\ (fuel - 1) + (spent["get_result_ptr"] + 1) = Fuel
          /\ spent["get_result_ptr"] + 1 <= Fuel
        BY <1>2, <2>1, <3>1
    <3>3. /\ spent'["start"] = spent["start"]
          /\ spent'["get_req_ptr"] = spent["get_req_ptr"]
          /\ spent'["decide"] = spent["decide"]
          /\ spent'["get_result_ptr"] = spent["get_result_ptr"] + 1
        BY <1>6, <2>2 DEF GuestCall
    <3>4. FuelBound'
        BY <1>1, <3>2, <3>3 DEF FuelBound
    <3>5. FuelAccounted'
        BY <1>2, <2>2, <3>2, <3>3 DEF FuelAccounted, FirstCalls
    <3> QED
        BY <3>4, <3>5
  <2>3. CASE pc \in {"start", "get_req_ptr", "decide"}
    <3>1. /\ fuel + spent["start"] + spent["get_req_ptr"] + spent["decide"] = Fuel
          /\ spent["get_result_ptr"] = 0
        BY <1>1, <2>3 DEF FuelAccounted, FirstCalls
    <3>2. spent'["get_result_ptr"] = 0
        BY <1>6, <2>3, <3>1 DEF GuestCall
    <3>3. /\ (fuel - 1) + spent'["start"] + spent'["get_req_ptr"] + spent'["decide"] = Fuel
          /\ spent'["start"] + spent'["get_req_ptr"] + spent'["decide"] <= Fuel
        BY <1>2, <1>6, <2>1, <2>3, <3>1, BurntIsSpent DEF GuestCall
    <3>4. FuelBound'
        BY <1>1, <3>1, <3>2, <3>3 DEF FuelBound
    <3>5. FuelAccounted'
        BY <1>2, <2>3, <3>2, <3>3 DEF FuelAccounted, LastCall
    <3> QED
        BY <3>4, <3>5
  <2> QED
    BY <1>2, <2>2, <2>3 DEF GuestCall
<1>8. AnswersKnown'
    BY <1>1, <1>2, <1>6 DEF AnswersKnown, GuestCall, LastCall
<1>9. HostAccessInBounds'
  <2>1. pages \in Nat /\ pages' \in Nat
    BY <1>1, <1>3, Types
  <2>2. mem <= mem' /\ mem' \in Nat
    BY <1>3, <2>1, Bytes, BytesMonotonic DEF mem
  <2>3. RequestEnd' = RequestEnd
    BY <1>2 DEF RequestEnd
  <2>4. mem \in Nat /\ RequestEnd \in Int
    BY <1>1, Types
  <2> QED
    <3>1. pc \in {"decide", "get_result_ptr"} => 0 <= reqPtr /\ RequestEnd <= mem
        BY <1>1 DEF HostAccessInBounds
    <3>2. RequestEnd <= mem => RequestEnd <= mem'
        BY <2>2, <2>4
    <3> QED
        BY <1>2, <2>3, <3>1, <3>2 DEF HostAccessInBounds, GuestCall
<1>10. RefusalDeserved' /\ ResultRetrievable'
    BY <1>2 DEF RefusalDeserved, ResultRetrievable, GuestCall
<1> QED
    BY <1>5, <1>7, <1>8, <1>9, <1>10 DEF IInv

(* CheckSize keeps the invariant. *)
LEMMA InvCheckSize == ASSUME IInv, CheckSize PROVE IInv'
<1>1. TypeOK /\ FuelAccounted /\ AnswersKnown /\ FuelBound
    BY DEF IInv
<1>2. /\ pc = "check size" /\ pc' \in {"request too long", "get_req_ptr"}
      /\ UNCHANGED <<pages, memSize, fuel, spent, reqLen, reqPtr, resLen, resPtr>>
    BY DEF CheckSize
<1>3. TypeOK'
    BY <1>1, <1>2 DEF TypeOK, GuestCall, Ended, Errors
<1>4. FuelAccounted' /\ AnswersKnown'
    BY <1>1, <1>2 DEF FuelAccounted, AnswersKnown, FirstCalls, LastCall
<1>5. HostAccessInBounds' /\ RefusalDeserved' /\ ResultRetrievable'
    BY <1>1, <1>2 DEF HostAccessInBounds, RefusalDeserved, ResultRetrievable, AnswersKnown
<1>6. FuelBound'
    BY <1>1, <1>2 DEF FuelBound
<1> QED
    BY <1>3, <1>4, <1>5, <1>6 DEF IInv

(* PlaceRequest keeps the invariant. *)
LEMMA InvPlaceRequest == ASSUME IInv, PlaceRequest PROVE IInv'
<1>1. TypeOK /\ FuelAccounted /\ AnswersKnown /\ FuelBound
    BY DEF IInv
<1>2. /\ pc = "place request"
      /\ pc' \in {"bad request pointer", "cannot grow", "decide", "write failed"}
      /\ UNCHANGED <<fuel, spent, reqLen, reqPtr, resLen, resPtr>>
    BY DEF PlaceRequest
<1>3. 0 <= reqPtr =>
        /\ Grown \in Nat /\ Grown >= pages /\ RequestEnd <= Grown * Page
        /\ Grown # pages => (Grown - 1) * Page < RequestEnd
    BY <1>1, Types, GrownHolds
<1>4. RequestEnd' = RequestEnd
    BY <1>2 DEF RequestEnd
<1>5. pc' \in {"decide", "write failed"} =>
        0 <= reqPtr /\ pages' = Grown /\ Grown <= MaxPages /\ mem' = Grown * Page
    BY <1>2 DEF PlaceRequest, mem
<1>6. pc' # "write failed"
  <2>1. pc' = "write failed" => ~(RequestEnd <= mem')
    BY DEF PlaceRequest
  <2> QED
    BY <1>3, <1>5, <2>1
<1>7. pages' \in 0 .. MaxPages
  <2>1. pages' = pages \/ (0 <= reqPtr /\ pages' = Grown /\ Grown <= MaxPages)
    BY DEF PlaceRequest
  <2> QED
    BY <1>1, <1>3, <2>1, Types
<1>8. memSize' \in Nat
    BY <1>1, Types DEF PlaceRequest
<1>9. TypeOK'
    BY <1>1, <1>2, <1>7, <1>8 DEF TypeOK, GuestCall, Ended, Errors
<1>10. FuelAccounted' /\ AnswersKnown'
    BY <1>1, <1>2 DEF FuelAccounted, AnswersKnown, FirstCalls, LastCall
<1>11. HostAccessInBounds'
    BY <1>2, <1>3, <1>4, <1>5, <1>6 DEF HostAccessInBounds
<1>12. RefusalDeserved'
  <2>1. pc' = "bad request pointer" =>
            mem' = mem /\ (reqPtr < 0 \/ reqPtr >= mem)
    BY DEF PlaceRequest, mem
  <2>2. pc' = "cannot grow" => RequestEnd > MaxPages * Page
    <3>1. pc' = "cannot grow" => 0 <= reqPtr /\ Grown > MaxPages
        BY DEF PlaceRequest
    <3>2. ASSUME 0 <= reqPtr, Grown > MaxPages PROVE RequestEnd > MaxPages * Page
      <4>1. /\ Grown \in Nat /\ pages <= MaxPages /\ pages \in Nat
            /\ MaxPages \in Nat /\ RequestEnd \in Int
        BY <1>1, <1>3, <3>2, Types
      <4>2. Grown - 1 \in Nat /\ MaxPages <= Grown - 1
        BY <3>2, <4>1
      <4>3. MaxPages * Page <= (Grown - 1) * Page
        BY <4>1, <4>2, BytesMonotonic
      <4>4. (Grown - 1) * Page < RequestEnd
        BY <1>3, <3>2, <4>1
      <4>5. MaxPages * Page \in Nat /\ (Grown - 1) * Page \in Nat
        BY <4>1, <4>2, Bytes
      <4> QED
        BY <4>1, <4>3, <4>4, <4>5
    <3> QED
        BY <3>1, <3>2
  <2> QED
    BY <1>2, <1>4, <2>1, <2>2 DEF RefusalDeserved
<1>13. FuelBound' /\ ResultRetrievable'
    BY <1>1, <1>2 DEF FuelBound, ResultRetrievable
<1> QED
    BY <1>9, <1>10, <1>11, <1>12, <1>13 DEF IInv

(* CheckLength keeps the invariant. *)
LEMMA InvCheckLength == ASSUME IInv, CheckLength PROVE IInv'
<1>1. TypeOK /\ FuelAccounted /\ FuelBound /\ HostAccessInBounds
    BY DEF IInv
<1>2. /\ pc = "check length"
      /\ UNCHANGED <<pages, memSize, spent, reqLen, reqPtr, resLen, resPtr>>
      /\ \/ pc' = "bad result length" /\ fuel' = fuel
         \/ pc' = "get_result_ptr" /\ fuel' = Fuel /\ 0 < resLen
    BY DEF CheckLength, Replenished
<1>3. TypeOK'
  <2>1. fuel' \in Nat
    BY <1>1, <1>2, FuelTypes
  <2>2. pc' \in GuestCall \cup HostCode \cup Ended
    BY <1>2 DEF GuestCall, Ended, Errors
  <2> QED
    BY <1>1, <1>2, <2>1, <2>2 DEF TypeOK
<1>4. FuelAccounted'
  <2>1. spent["get_result_ptr"] = 0
    BY <1>1, <1>2 DEF FuelAccounted, FirstCalls
  <2>2. Fuel + 0 = Fuel
    BY VmAssumption
  <2>3. pc' = "get_result_ptr" => fuel' + spent'["get_result_ptr"] = Fuel
    BY <1>2, <2>1, <2>2
  <2> QED
    BY <1>2, <2>3 DEF FuelAccounted, FirstCalls, LastCall
<1>5. AnswersKnown'
    BY <1>2 DEF AnswersKnown, LastCall
<1>6. HostAccessInBounds'
    BY <1>1, <1>2, SameMemory DEF HostAccessInBounds
<1>7. RefusalDeserved' /\ ResultRetrievable'
    BY <1>2 DEF RefusalDeserved, ResultRetrievable
<1>8. FuelBound'
    BY <1>1, <1>2 DEF FuelBound
<1> QED
    BY <1>3, <1>4, <1>5, <1>6, <1>7, <1>8 DEF IInv

(* ReadResult keeps the invariant. *)
LEMMA InvReadResult == ASSUME IInv, ReadResult PROVE IInv'
<1>1. TypeOK /\ FuelAccounted /\ AnswersKnown /\ FuelBound /\ HostAccessInBounds
    BY DEF IInv
<1>2. /\ pc = "read result"
      /\ UNCHANGED <<pages, fuel, spent, reqLen, reqPtr, resLen, resPtr>>
    BY DEF ReadResult
<1>3. memSize' = (IF resPtr < 0 THEN memSize ELSE mem)
    BY DEF ReadResult, SizeForResult
<1>4. \/ pc' = "bad result pointer"
      \/ pc' = "result out of bounds" /\ ResultEnd > mem
      \/ pc' \in {"decision", "not a decision"} /\ 0 <= resPtr /\ ResultEnd <= mem
  <2>1. mem \in Nat /\ ResultEnd \in Int /\ resPtr \in Int
    BY <1>1, Types
  <2>2. CASE resPtr < 0
    <3>1. ~(resPtr >= 0)
        BY <2>1, <2>2
    <3> QED
        BY <3>1 DEF ReadResult
  <2>3. CASE ~(resPtr < 0)
    BY <1>3, <2>1, <2>3 DEF ReadResult
  <2> QED
    BY <2>2, <2>3
<1>5. mem' = mem /\ RequestEnd' = RequestEnd /\ ResultEnd' = ResultEnd
    BY <1>2 DEF mem, RequestEnd, ResultEnd
<1>6. TypeOK'
    BY <1>1, <1>2, <1>3, <1>4, Types DEF TypeOK, Ended, Errors
<1>7. FuelAccounted' /\ AnswersKnown'
    BY <1>1, <1>2, <1>4 DEF FuelAccounted, AnswersKnown, FirstCalls, LastCall
<1>8. HostAccessInBounds' /\ RefusalDeserved'
    BY <1>1, <1>2, <1>4, <1>5 DEF HostAccessInBounds, RefusalDeserved
<1>9. FuelBound' /\ ResultRetrievable'
    BY <1>1, <1>2, <1>4 DEF FuelBound, ResultRetrievable
<1> QED
    BY <1>6, <1>7, <1>8, <1>9 DEF IInv

(* Every step keeps the invariant. *)
LEMMA InvStep == IInv /\ [Next]_vars => IInv'
<1> SUFFICES ASSUME IInv, [Next]_vars PROVE IInv'
    OBVIOUS
<1>1. CASE UNCHANGED vars
  <2>1. TypeOK' /\ FuelAccounted' /\ AnswersKnown'
    BY <1>1 DEF vars, IInv, TypeOK, FuelAccounted, AnswersKnown
  <2>2. mem' = mem /\ RequestEnd' = RequestEnd /\ ResultEnd' = ResultEnd
    BY <1>1 DEF vars, mem, RequestEnd, ResultEnd
  <2>3. HostAccessInBounds' /\ RefusalDeserved'
    BY <1>1, <2>2 DEF vars, IInv, HostAccessInBounds, RefusalDeserved
  <2>4. FuelBound' /\ ResultRetrievable'
    BY <1>1 DEF vars, IInv, FuelBound, ResultRetrievable
  <2> QED
    BY <2>1, <2>3, <2>4 DEF IInv
<1> QED
    BY <1>1, InvTraps, InvReturns, InvGuestRuns, InvCheckSize, InvPlaceRequest,
       InvCheckLength, InvReadResult DEF Next, Guest, Host

(* The inductive invariant of a call of a module holds always. *)
THEOREM Invariance == Spec => []IInv
BY InvInit, InvStep, PTL DEF Spec

(* The state of a call is well typed for every guest. *)
THEOREM TypeCorrect == Spec => []TypeOK
<1>1. IInv => TypeOK
    BY DEF IInv
<1> QED
    BY <1>1, Invariance, PTL

(* The host reads and writes inside the guest's memory, whatever pointers  *)
(* and lengths the guest returns and however it grows.                     *)
THEOREM HostStaysInBounds == Spec => []HostAccessInBounds
<1>1. IInv => HostAccessInBounds
    BY DEF IInv
<1> QED
    BY <1>1, Invariance, PTL

(* No request and no answer is refused that would have fitted. *)
THEOREM RefusalsAreDeserved == Spec => []RefusalDeserved
<1>1. IInv => RefusalDeserved
    BY DEF IInv
<1> QED
    BY <1>1, Invariance, PTL

(* One allowance of fuel up to and with decide, one for get_result_ptr,    *)
(* whatever the module does in between.                                    *)
THEOREM FuelIsBounded == Spec => []FuelBound
<1>1. IInv => FuelBound
    BY DEF IInv
<1> QED
    BY <1>1, Invariance, PTL

(* Once decide has answered, only a get_result_ptr that burns a whole      *)
(* allowance of its own runs out of fuel: what decide burnt does not       *)
(* matter.                                                                 *)
THEOREM ResultIsRetrievable == Spec => []ResultRetrievable
<1>1. IInv => ResultRetrievable
    BY DEF IInv
<1> QED
    BY <1>1, Invariance, PTL

(* The host grows the memory by the least number of pages. *)
THEOREM GrowthMinimal == Spec => GrowthIsMinimal
<1>1. ASSUME IInv, [Next]_vars, pc = "place request", pages' # pages
      PROVE  /\ RequestEnd > mem
             /\ (pages' - 1) * Page < RequestEnd
             /\ pages' <= MaxPages
  <2>1. TypeOK
    BY <1>1 DEF IInv
  <2>2. PlaceRequest
    BY <1>1 DEF Next, vars, Guest, Host, GuestRuns, GuestTraps, Started, GivesRequestPtr,
        Decides, GivesResultPtr, CheckSize, CheckLength, ReadResult, GuestCall
  <2>3. 0 <= reqPtr /\ pages' = Grown /\ Grown <= MaxPages
    BY <1>1, <2>2 DEF PlaceRequest
  <2>4. pages \in Nat /\ reqPtr \in Nat /\ reqLen \in Nat
    BY <2>1, <2>3, Types
  <2> QED
    BY <1>1, <2>3, <2>4, GrownHolds
<1>2. IInv /\ [Next]_vars =>
        [pc = "place request" /\ pages' # pages =>
            /\ RequestEnd > mem
            /\ (pages' - 1) * Page < RequestEnd
            /\ pages' <= MaxPages]_vars
    BY <1>1
<1> QED
    BY <1>2, Invariance, PTL DEF Spec, GrowthIsMinimal
----------------------------------------------------------------------------
(* What is left of the call: the stages after this one, and the fuel that  *)
(* the guest is given for the rest of it.                                  *)
StepsFrom(p, f) ==
    CASE p = "start" -> f + Fuel + 8
      [] p = "check size" -> f + Fuel + 7
      [] p = "get_req_ptr" -> f + Fuel + 6
      [] p = "place request" -> f + Fuel + 5
      [] p = "decide" -> f + Fuel + 4
      [] p = "check length" -> Fuel + 3
      [] p = "get_result_ptr" -> f + 2
      [] p = "read result" -> 1
      [] OTHER -> 0

StepsLeft == StepsFrom(pc, fuel)

(* The stages, one by one *)
LEMMA Stages ==
    ASSUME NEW f
    PROVE  /\ StepsFrom("start", f) = f + Fuel + 8
           /\ StepsFrom("check size", f) = f + Fuel + 7
           /\ StepsFrom("get_req_ptr", f) = f + Fuel + 6
           /\ StepsFrom("place request", f) = f + Fuel + 5
           /\ StepsFrom("decide", f) = f + Fuel + 4
           /\ StepsFrom("check length", f) = Fuel + 3
           /\ StepsFrom("get_result_ptr", f) = f + 2
           /\ StepsFrom("read result", f) = 1
           /\ \A p \in Ended : StepsFrom(p, f) = 0
BY DEF StepsFrom, Ended, Errors

(* A step of the call burns fuel, or passes on to a later stage. *)
LEMMA StepAdvances == IInv /\ [Next]_vars => [StepsLeft' < StepsLeft]_vars
<1> SUFFICES ASSUME IInv, Next PROVE StepsLeft' < StepsLeft
    BY DEF StepsLeft, vars
<1>0. fuel \in Nat /\ Fuel \in Nat
    BY VmAssumption DEF IInv, TypeOK
<1>1. CASE GuestRuns
  <2>1. pc' = pc /\ fuel' = fuel - 1 /\ pc \in GuestCall
    BY <1>1 DEF GuestRuns, Burnt
  <2>2. \/ StepsLeft = fuel + Fuel + 8 /\ StepsLeft' = fuel' + Fuel + 8
        \/ StepsLeft = fuel + Fuel + 6 /\ StepsLeft' = fuel' + Fuel + 6
        \/ StepsLeft = fuel + Fuel + 4 /\ StepsLeft' = fuel' + Fuel + 4
        \/ StepsLeft = fuel + 2 /\ StepsLeft' = fuel' + 2
    BY <2>1, Stages DEF StepsLeft, GuestCall
  <2>3. fuel' = fuel - 1
    BY <2>1
  <2> QED
    BY <1>0, <2>2, <2>3
<1>2. CASE GuestTraps
  <2>1. pc \in GuestCall /\ pc' \in Ended
    BY <1>2 DEF GuestTraps, Ended, Errors
  <2>2. /\ StepsLeft' = 0
        /\ StepsLeft \in {fuel + Fuel + 8, fuel + Fuel + 6, fuel + Fuel + 4, fuel + 2}
    BY <2>1, Stages DEF StepsLeft, GuestCall
  <2> QED
    BY <1>0, <2>2
<1>3. CASE Started
  <2>1. StepsLeft = fuel + Fuel + 8 /\ StepsLeft' = fuel + Fuel + 7
    BY <1>3, Stages DEF Started, StepsLeft
  <2> QED
    BY <1>0, <2>1
<1>4. ASSUME NEW v \in Returns, GivesRequestPtr(v)
      PROVE  StepsLeft' < StepsLeft
  <2>1. StepsLeft = fuel + Fuel + 6 /\ StepsLeft' = fuel + Fuel + 5
    BY <1>4, Stages DEF GivesRequestPtr, StepsLeft
  <2> QED
    BY <1>0, <2>1
<1>5. ASSUME NEW v \in Returns, Decides(v)
      PROVE  StepsLeft' < StepsLeft
  <2>1. StepsLeft = fuel + Fuel + 4 /\ StepsLeft' = Fuel + 3
    BY <1>5, Stages DEF Decides, StepsLeft
  <2> QED
    BY <1>0, <2>1
<1>6. ASSUME NEW v \in Returns, GivesResultPtr(v)
      PROVE  StepsLeft' < StepsLeft
  <2>1. StepsLeft = fuel + 2 /\ StepsLeft' = 1
    BY <1>6, Stages DEF GivesResultPtr, StepsLeft
  <2> QED
    BY <1>0, <2>1
<1>7. CASE CheckSize
  <2>1. pc' = "get_req_ptr" \/ pc' \in Ended
    BY <1>7 DEF CheckSize, Ended, Errors
  <2>2. StepsLeft = fuel + Fuel + 7 /\ StepsLeft' \in {fuel + Fuel + 6, 0}
    BY <1>7, <2>1, Stages DEF CheckSize, StepsLeft
  <2> QED
    BY <1>0, <2>2
<1>8. CASE PlaceRequest
  <2>1. pc = "place request" /\ fuel' = fuel /\ (pc' = "decide" \/ pc' \in Ended)
    BY <1>8 DEF PlaceRequest, Ended, Errors
  <2>2. StepsLeft = fuel + Fuel + 5 /\ StepsLeft' \in {fuel + Fuel + 4, 0}
    BY <2>1, Stages DEF StepsLeft
  <2> QED
    BY <1>0, <2>2
<1>9. CASE CheckLength
  <2>1. /\ pc = "check length"
        /\ (pc' = "get_result_ptr" /\ fuel' = Fuel) \/ pc' \in Ended
    BY <1>9 DEF CheckLength, Replenished, Ended, Errors
  <2>2. StepsLeft = Fuel + 3 /\ StepsLeft' \in {Fuel + 2, 0}
    BY <2>1, Stages DEF StepsLeft
  <2> QED
    BY <1>0, <2>2
<1>10. CASE ReadResult
  <2>1. pc = "read result" /\ pc' \in Ended
    BY <1>10 DEF ReadResult, Ended, Errors
  <2>2. StepsLeft = 1 /\ StepsLeft' = 0
    BY <2>1, Stages DEF StepsLeft
  <2> QED
    BY <2>2
<1> QED
    BY <1>1, <1>2, <1>3, <1>4, <1>5, <1>6, <1>7, <1>8, <1>9, <1>10 DEF Next, Guest, Host

(* No call of the module takes more than 2 * Fuel + 8 steps, whatever the  *)
(* module does: the guest has a full allowance twice, and the host's code  *)
(* between its calls is run once.  So the call ends unless the worker      *)
(* thread stops.                                                           *)
THEOREM CallIsBounded == Spec => [](StepsLeft \in 0 .. 2 * Fuel + 8) /\ [][StepsLeft' < StepsLeft]_vars
<1>1. ASSUME IInv PROVE StepsLeft \in 0 .. 2 * Fuel + 8
  <2>1. fuel \in Nat /\ Fuel \in Nat
    BY <1>1, VmAssumption DEF IInv, TypeOK
  <2>2. pc \in FirstCalls \cup LastCall => fuel <= Fuel
    BY <1>1, FuelTypes DEF IInv, FuelAccounted
  <2>3. pc \in GuestCall \cup HostCode \cup Ended
    BY <1>1 DEF IInv, TypeOK
  <2>4. pc \in GuestCall \cup HostCode => fuel <= Fuel
    BY <2>2 DEF GuestCall, HostCode, FirstCalls, LastCall
  <2>5. CASE pc \in Ended
    <3>1. StepsLeft = 0
        BY <2>5, Stages DEF StepsLeft
    <3> QED
        BY <2>1, <3>1
  <2>6. CASE pc \in GuestCall \cup HostCode
    <3>1. StepsLeft \in {fuel + Fuel + 8, fuel + Fuel + 7, fuel + Fuel + 6, fuel + Fuel + 5,
                         fuel + Fuel + 4, Fuel + 3, fuel + 2, 1}
        BY <2>6, Stages DEF StepsLeft, GuestCall, HostCode
    <3>2. fuel <= Fuel
        BY <2>4, <2>6
    <3> QED
        BY <2>1, <3>1, <3>2
  <2> QED
    BY <2>3, <2>5, <2>6
<1> QED
    BY <1>1, StepAdvances, Invariance, PTL DEF Spec
============================================================================
