---------------------------- MODULE StateMachine ----------------------------
(***************************************************************************)
(* The lifecycle of a KYC application (internal/statemachine.go) and the   *)
(* mapping of a vendor webhook outcome onto it (internal/webhooks.go).     *)
(* Pure definitions: the state lives in ApplicationRepository.             *)
(***************************************************************************)

States ==
  {"STARTED", "DOCUMENTS_UPLOADED", "LIVENESS_PASSED", "SCREENING",
   "VENDOR_DECISION", "PASS", "FAIL", "MANUAL_REVIEW"}

TerminalStates == {"PASS", "FAIL"}

\* The transition table, re-KYC (terminal to STARTED) included.
legalTransitions ==
  { <<"STARTED",            "DOCUMENTS_UPLOADED">>,
    <<"DOCUMENTS_UPLOADED", "LIVENESS_PASSED">>,
    <<"DOCUMENTS_UPLOADED", "SCREENING">>,
    <<"LIVENESS_PASSED",    "SCREENING">>,
    <<"LIVENESS_PASSED",    "MANUAL_REVIEW">>,
    <<"SCREENING",          "VENDOR_DECISION">>,
    <<"SCREENING",          "MANUAL_REVIEW">>,
    <<"VENDOR_DECISION",    "PASS">>,
    <<"VENDOR_DECISION",    "FAIL">>,
    <<"VENDOR_DECISION",    "MANUAL_REVIEW">>,
    <<"MANUAL_REVIEW",      "PASS">>,
    <<"MANUAL_REVIEW",      "FAIL">>,
    <<"PASS",               "STARTED">>,
    <<"FAIL",               "STARTED">> }

CanTransition(from, to) == <<from, to>> \in legalTransitions

IsTerminal(state) == state \in TerminalStates

-----------------------------------------------------------------------------
(* Webhook outcomes: one representative of each case of the code's switch  *)
(* (CLEAR for CLEAR/PASS/APPROVED, FAIL for FAIL/REJECTED, CONSIDER for    *)
(* CONSIDER/REVIEW/MANUAL_REVIEW; OTHER is any string it does not know).   *)
Outcomes == {"CLEAR", "FAIL", "CONSIDER", "LIVENESS_PASS", "OTHER"}

\* The target state, or "" when the outcome asks for no transition.
reconcileOutcomeToState(outcome, current) ==
  CASE outcome = "CLEAR" /\ CanTransition(current, "PASS") -> "PASS"
    [] outcome = "CLEAR" /\ CanTransition(current, "VENDOR_DECISION") -> "VENDOR_DECISION"
    [] outcome = "FAIL" /\ CanTransition(current, "FAIL") -> "FAIL"
    [] outcome = "CONSIDER" -> "MANUAL_REVIEW"
    [] outcome = "LIVENESS_PASS" /\ CanTransition(current, "LIVENESS_PASSED") -> "LIVENESS_PASSED"
    [] OTHER -> ""
=============================================================================
