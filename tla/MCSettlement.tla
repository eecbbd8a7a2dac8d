---------------------------- MODULE MCSettlement ----------------------------
(***************************************************************************)
(* Small settlements for TLC.                                              *)
(***************************************************************************)
EXTENDS SettlementProxy, TLC

CONSTANTS consumerA, providerA, providerB, relayA, treasury, hunterA, hunterB, keyA, oracleAddress,
          providerSigner, relaySigner, juror1, juror2, juror3

Everyone == {consumerA, providerA, providerB, relayA, treasury, hunterA, hunterB}
AllSigners == {providerSigner, relaySigner, juror1, juror2, juror3}
ThreeJurors == {juror1, juror2, juror3}
JurorSymmetry == Permutations(ThreeJurors)

\* A fee of 10 pays 1 to the Relay and 1 to the treasury, and holds 4 back; of a fee of 7 both shares round to 0.
Usual == [disputeWindow |-> 1, arbitrationTimeout |-> 1, consumerWithdrawalDelay |-> 1, reporterBond |-> 2,
          relayBps |-> 1000, holdbackBps |-> 5000, holdbackPeriod |-> 2, baseExposureCap |-> 15,
          exposureGrowthBps |-> 5000, maxExposureCap |-> 30, slashBps |-> 8000, slashCap |-> 5,
          reporterBountyBps |-> 5000, probeVoidsPerDay |-> 2, penaltyRecipient |-> treasury]
UsualParams   == {Usual}
\* Room for several open receipts.
Roomy         == [Usual EXCEPT !.baseExposureCap = 30]
\* Time for a capability case's jury to be drawn and to vote.
Patient       == [Roomy EXCEPT !.arbitrationTimeout = 2]
\* The second choice holds money back longer than the ring is; setParams must refuse it.
HoldbackParams == {[Roomy EXCEPT !.reporterBond = 1, !.holdbackPeriod = 1], [Roomy EXCEPT !.holdbackPeriod = 5]}
\* The admin changes what a release pays and who the treasury is.
ChangingParams == {Patient, [Patient EXCEPT !.relayBps = 2000, !.penaltyRecipient = relayA]}

Purse == [a \in Everyone |-> IF a = consumerA THEN 34 ELSE IF a \in {hunterA, hunterB} THEN 4 ELSE 0]

OneGrant == {[owner |-> consumerA, key |-> keyA, maxPerRequest |-> 10, validUntil |-> 0]}
BindProvider == {<<providerA, providerSigner>>}
BindRelay == {<<relayA, relaySigner>>}
OneCommitted == {[hunter |-> hunterA, keys |-> {keyA}]}
=============================================================================
