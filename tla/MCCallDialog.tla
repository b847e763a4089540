---------------------------- MODULE MCCallDialog ----------------------------
(***************************************************************************)
(* Small instances of CallDialog for TLC.                                  *)
(***************************************************************************)
EXTENDS CallDialog, TLC

CONSTANTS full, half, email

\* Every plan asks the same upfront, or leaves it to the debtor.
Defaults  == [p \in Plan |-> 1]
NoMinimum == [p \in Plan |-> 0]

Say(action, said) == [action |-> action, hint |-> "none", said |-> said]
Hinted(u, h) == [u EXCEPT !.hint = h]

\* Two plans, so that the terms read back may differ from the slots.
Terse == {Say("VERIFY_IDENTITY_YES", <<>>), Say("CONFIRM_AGREEMENT", <<>>),
          Say("REJECT_AGREEMENT", <<>>)}
         \cup {Say("SELECT_PLAN", [plan |-> p]) : p \in Plan}

\* A question, an interruption the agent's model proposes, a dispute, and the
\* ways back from each.
Asking == {Say("VERIFY_IDENTITY_YES", <<>>), Say("VERIFY_IDENTITY_NO", <<>>),
           Say("ASK_LINK_CHANNEL", <<>>), Say("UNKNOWN", <<>>),
           Say("OPEN_DISPUTE", <<>>), Say("CONFIRM_LINK_RECEIPT", <<>>),
           Say("SELECT_PLAN", [plan |-> half]),
           Say("SELECT_PLAN", [channel |-> email]),
           Hinted(Say("UNKNOWN", <<>>), "interrupt"),
           Say("UNKNOWN", [dispute |-> "no"])}

\* What is left to say once the terms were read back.
Closing == {Say("CONFIRM_AGREEMENT", <<>>), Say("END_CALL", <<>>),
            Hinted(Say("UNKNOWN", <<>>), "interrupt")}

\* The dialog and its tools, while the call lasts.
TalkNext == StepNext \/ ToolNext \/ FilingNext \/ RegisterRead \/ RegisterWrite

TalkSpec == Init /\ [][TalkNext]_vars

\* A call whose debtor was identified and chose HALF, by email.
HalfTerms == [plan |-> half, amount |-> DefaultAmount[half], channel |-> email]

Confirming ==
  /\ call = [NewCall EXCEPT !.state = "CONFIRM_AGREEMENT", !.snapshot = HalfTerms,
               !.slots = [NoSlots EXCEPT !.identity = "yes", !.plan = half,
                            !.amount = HalfTerms.amount, !.channel = email]]
  /\ status = "in_progress"
  /\ caseStatus = "IN_PROGRESS"
  /\ agreement = <<>>
  /\ dispute = FALSE
  /\ Quiet
  /\ verified = TRUE
  /\ readBack = {HalfTerms}

ClosingSpec == Confirming /\ [][Next]_vars
=============================================================================
