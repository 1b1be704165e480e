--------------------------- MODULE RatchetRestart ---------------------------
(***************************************************************************)
(* A device that keeps its identity and its pairing secret over a restart  *)
(* but not its ratchet sessions: the desktop agent, whose database is the  *)
(* in-memory fake-indexeddb store (apps/agent/src/state.ts), and an Android*)
(* engine without a state store.  ratchetSessionFor then bootstraps a new  *)
(* session, while the peer goes on with the one it has.                    *)
(***************************************************************************)
EXTENDS Ratchet

CONSTANT Forgetful   (* the devices that lose their sessions on a restart    *)

VARIABLE before      \* before[d]: envelopes sent before d last restarted

(* The seen table goes with the rest of the database; the envelopes d had   *)
(* opened are not sent to it again, so forgetting them changes nothing.     *)
Restart(d) ==
  /\ session[d] # InitSession(d)
  /\ before[d] = {}
  /\ session' = [session EXCEPT ![d] = InitSession(d)]
  /\ before' = [before EXCEPT ![d] = network]
  /\ UNCHANGED <<generated, sent, network, seen, failed, lost>>

RestartInit == Init /\ before = [d \in Device |-> {}]

RestartNext ==
  \/ Next /\ UNCHANGED before
  \/ \E d \in Forgetful : Restart(d)

RestartSpec == RestartInit /\ [][RestartNext]_<<vars, before>>

----------------------------------------------------------------------------
(* "A lost ratchet session just re-bootstraps from the identity keys and    *)
(* pairing secret" (state.ts:8-11): envelopes sent to a device after it     *)
(* restarted open, as long as no cap of the skipped-key cache was hit.      *)
Rebootstraps ==
  WithinCaps => \A d \in Device : failed[d] \subseteq before[d]
=============================================================================
