--------------------------- MODULE MCServicesProofs ---------------------------
(*****************************************************************************)
(* What the services of MCServices promise as parts of one system: a step of *)
(* one of them is a stutter of the others, so each behaves as on its own.    *)
(*****************************************************************************)
EXTENDS MCServices, ServicesProofs, AutomationProofs

\* In the beginning each part is as it would be alone.
LEMMA PartsBegin ==
    Init => /\ BreakerInit /\ SessInit /\ BillInit /\ CampInit /\ AccInit
            /\ OfflineInit /\ RemInit /\ WfInit /\ SeqInit /\ SecretInit
            /\ CallbackInit /\ ImportInit
  BY DEF Init

\* A step of the system is a step or a stutter of each part.
LEMMA PartsStep ==
    [Next]_vars => /\ [BreakerNext]_breakerVars /\ [SessNext]_sessVars /\ [BillNext]_billVars
                   /\ [CampNext]_campVars /\ [AccNext]_accVars /\ [OfflineNext]_offlineVars
                   /\ [RemNext]_remVars /\ [WfNext]_wfVars /\ [SeqNext]_seqVars
                   /\ [SecretNext]_secretVars /\ [CallbackNext]_callbackVars
                   /\ [ImportNext]_importVars
<1> SUFFICES ASSUME [Next]_vars
             PROVE  /\ [BreakerNext]_breakerVars /\ [SessNext]_sessVars /\ [BillNext]_billVars
                    /\ [CampNext]_campVars /\ [AccNext]_accVars /\ [OfflineNext]_offlineVars
                    /\ [RemNext]_remVars /\ [WfNext]_wfVars /\ [SeqNext]_seqVars
                    /\ [SecretNext]_secretVars /\ [CallbackNext]_callbackVars
                    /\ [ImportNext]_importVars
  OBVIOUS
<1>1. CASE UNCHANGED vars
  BY <1>1 DEF vars
<1>2. CASE Next
  BY <1>2 DEF Next
<1> QED
  BY <1>1, <1>2

PartKnown ==
    part \in {"breaker", "sessions", "billing", "campaigns", "accounts", "offline",
              "reminders", "workflows", "sequences", "secrets", "callbacks", "checkouts", "imports"}

LEMMA PartsOnTheirOwn ==
    Spec => /\ BreakerSpec /\ SessSpec /\ BillSpec /\ CampSpec /\ AccSpec /\ OfflineSpec /\ SecretSpec
            /\ RemInit /\ [][RemNext]_remVars
            /\ WfInit /\ [][WfNext]_wfVars
            /\ SeqInit /\ [][SeqNext]_seqVars
            /\ CallbackSpec /\ ImportSpec
  BY PartsBegin, PartsStep, PTL
     DEF Spec, BreakerSpec, SessSpec, BillSpec, CampSpec, AccSpec, OfflineSpec, SecretSpec,
         CallbackSpec, ImportSpec

(* Whichever service runs keeps its types.                                   *)
THEOREM ServicesTypeCorrect == Spec => []TypeOK
<1>1. Spec => /\ []BreakerTypeOK /\ []SessTypeOK /\ []BillTypeOK /\ []CampTypeOK /\ []AccTypeOK
              /\ []OfflineTypeOK /\ []SecretTypeOK /\ []CallbackTypeOK /\ []ImportTypeOK
  BY PartsOnTheirOwn, BreakerTypeCorrect, SessionTypeCorrect, BillTypeCorrect, CampaignTypeCorrect,
     AccountTypeCorrect, OfflineTypeCorrect, SecretTypeCorrect,
     CallbackTypeCorrect, ImportTypeCorrect
<1>2. Spec => []RemInv
  BY PartsOnTheirOwn, RemInvInit, RemInvStep, PTL
<1>3. Spec => []WfInv
  BY PartsOnTheirOwn, WfInvariance
<1>4. Spec => [](MailInv /\ SeqInv)
  BY PartsOnTheirOwn, SeqInvariance
<1>5. RemInv => RemTypeOK
  BY DEF RemInv, RemTyped
<1>6. WfInv => WfTypeOK
  BY DEF WfInv, WfTyped
<1>7. MailInv /\ SeqInv => SeqTypeOK
  BY MailTypes DEF SeqInv, SeqTyped, SeqTypeOK, EnrolStates, Sound, TickerAt
<1>8. Spec => []PartKnown
  <2>1. Init => PartKnown
    BY DEF Init, PartKnown
  <2>2. PartKnown /\ [Next]_vars => PartKnown'
    BY DEF PartKnown, Next, vars
  <2> QED
    BY <2>1, <2>2, PTL DEF Spec
<1>9. /\ PartKnown
      /\ BreakerTypeOK /\ SessTypeOK /\ BillTypeOK /\ CampTypeOK /\ AccTypeOK
      /\ OfflineTypeOK /\ SecretTypeOK /\ RemTypeOK /\ WfTypeOK /\ SeqTypeOK
      /\ CallbackTypeOK /\ ImportTypeOK
      => TypeOK
  BY Zenon DEF PartKnown, TypeOK
<1> QED
  BY <1>1, <1>2, <1>3, <1>4, <1>5, <1>6, <1>7, <1>8, <1>9, PTL

(* What was closed stays closed, whichever service runs: a dismissed or      *)
(* cancelled reminder does not fire, a cancelled run goes no further, who    *)
(* left a sequence stays out, a cancelled invoice is not revived - unless a  *)
(* request, a tick or a worker had read the row before.                      *)
THEOREM NothingIsReopened == Spec => NothingReopened
  BY PartsOnTheirOwn, ClosedStays, CancelledStays, LeaversStay, CancelledInvoice DEF NothingReopened
===============================================================================
