----------------------------- MODULE StatusCodes -----------------------------
(***************************************************************************)
(* ResponseStatusCode of graphsync.hpp and its classification in           *)
(* impl/common.cpp.  Negative codes are internal, the others travel on the *)
(* wire.                                                                   *)
(***************************************************************************)
EXTENDS Integers

RS_NO_PEERS             == -1
RS_CANNOT_CONNECT       == -2
RS_TIMEOUT              == -3
RS_CONNECTION_ERROR     == -4
RS_INTERNAL_ERROR       == -5
RS_REJECTED_LOCALLY     == -6
RS_SLOW_STREAM          == -7
RS_AWAITING_STATUS      == -8
RS_REQUEST_ACKNOWLEDGED == 10
RS_PARTIAL_RESPONSE     == 14
RS_FULL_CONTENT         == 20
RS_PARTIAL_CONTENT      == 21
RS_REJECTED             == 30
RS_TRY_AGAIN            == 31
RS_REQUEST_FAILED       == 32
RS_LEGAL_ISSUES         == 33
RS_NOT_FOUND            == 34

isTerminal(code) == code < 10 \/ code >= 20
isSuccess(code)  == code >= 20 /\ code <= 21
isError(code)    == code < 10 \/ code >= 30

=============================================================================
