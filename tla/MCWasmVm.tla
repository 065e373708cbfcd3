----------------------------- MODULE MCWasmVm -----------------------------
(* Sizes around the pages and limits of WasmVm.tla. *)
EXTENDS WasmVm

MCRequestLens == {1, Page - 1, Page, Page + 1}

(* As pointers and as lengths: negative, none, the least, about one page,  *)
(* about two and about three.                                              *)
MCReturns == {-1, 0, 1, Page - 1, Page, Page + 1, 2 * Page - 1, 2 * Page + 1, 3 * Page}
============================================================================
