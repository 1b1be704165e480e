------------------------------- MODULE WebRtc -------------------------------
(***************************************************************************)
(* Two pages dial a direct connection to each other                        *)
(* (packages/transport/src/webrtc.ts): A, with the smaller id, makes the   *)
(* offers, B asks for one; the relay passes signals on in order and drops  *)
(* those to a device that is not connected.  Making an offer or an answer  *)
(* takes several awaits, in which other signals are handled.  What the     *)
(* candidates say is left to the network, which connects an offer with its *)
(* answer; they matter here because one that comes late is refused by the  *)
(* connection it finds, and a refusal tears that connection down.          *)
(***************************************************************************)
EXTENDS Integers, Sequences, SequencesExt

CONSTANTS
  MaxOffers,   (* bound: peer connections A makes                           *)
  MaxFaults    (* bound: reloads, lost signals, failures of a connection    *)

ASSUME OffersAreBounded == MaxOffers \in Nat /\ MaxFaults \in Nat

VARIABLES
  pc,       \* per page, the offer its peer connection belongs to, or NoOffer
  stage,    \* per page: "making" its description ("asked" for it), "sent", "stable"
  remote,   \* the offer whose answer A's connection has taken
  channel,  \* per page: "none", "connecting", "open"
  making,   \* offers that B's handlers are answering
  failing,  \* a handler of A makes an offer on a connection that is closed
  inbox,    \* signals on their way to each page
  offers,   \* offers made so far
  lost,     \* history: a signal was lost, or a handler failed
  undone,   \* history: A lost a connection whose offer was out
  faults

described == <<pc, stage, remote, channel>>
handlers  == <<making, failing>>
rtcVars   == <<described, handlers, inbox, offers, lost, undone, faults>>

Page == {"A", "B"}
Other(p) == IF p = "A" THEN "B" ELSE "A"
NoOffer == 0

RtcInit ==
  /\ pc = [p \in Page |-> NoOffer] /\ stage = [p \in Page |-> "none"] /\ remote = NoOffer
  /\ channel = [p \in Page |-> "none"]
  /\ making = {} /\ failing = FALSE
  /\ inbox = [p \in Page |-> <<>>]
  /\ offers = 0 /\ lost = FALSE /\ undone = FALSE /\ faults = 0

Signal(p, m) == inbox' = [inbox EXCEPT ![p] = Append(@, m)]
Fault == faults < MaxFaults /\ faults' = faults + 1

(* newPeerConnection and adoptChannel, after a teardown of what was there.  *)
MakeOffer(how) ==
  /\ offers < MaxOffers /\ offers' = offers + 1
  /\ pc' = [pc EXCEPT !["A"] = offers'] /\ stage' = [stage EXCEPT !["A"] = how]
  /\ remote' = NoOffer
  /\ channel' = [channel EXCEPT !["A"] = "connecting"]

Teardown(p) ==
  /\ pc' = [pc EXCEPT ![p] = NoOffer] /\ stage' = [stage EXCEPT ![p] = "none"]
  /\ channel' = [channel EXCEPT ![p] = "none"]

(* Not connected (yet): dial, so that a later send can go direct.           *)
TrySendA ==
  /\ channel["A"] # "open" /\ pc["A"] = NoOffer
  /\ MakeOffer("making")
  /\ UNCHANGED <<handlers, inbox, lost, undone, faults>>

TrySendB ==
  /\ channel["B"] # "open" /\ pc["B"] = NoOffer
  /\ ~Contains(inbox["A"], <<"request", NoOffer>>)
  /\ Signal("A", <<"request", NoOffer>>)
  /\ UNCHANGED <<described, handlers, offers, lost, undone, faults>>

Describing == stage["A"] \in {"making", "asked"}

SendOffer ==
  /\ Describing
  /\ stage' = [stage EXCEPT !["A"] = "sent"]
  /\ Signal("B", <<"offer", pc["A"]>>)
  /\ UNCHANGED <<pc, remote, channel, handlers, offers, lost, undone, faults>>

(* Candidates are gathered from when the local description is set.          *)
SendCandidate(p) ==
  /\ stage[p] \in {"sent", "stable"}
  /\ ~Contains(inbox[Other(p)], <<"ice", pc[p]>>)
  /\ Signal(Other(p), <<"ice", pc[p]>>)
  /\ UNCHANGED <<described, handlers, offers, lost, undone, faults>>

Heard(p) == inbox' = [inbox EXCEPT ![p] = Tail(@)]
Next1(p, kind) == inbox[p] # <<>> /\ Head(inbox[p])[1] = kind

AlwaysOffers == TRUE                  \* mutant: the channel is not looked at
NotDialling == channel["A"] = "none"

OnRequestOffer ==
  /\ Next1("A", "request") /\ Heard("A")
  /\ IF NotDialling THEN MakeOffer("asked") ELSE UNCHANGED <<described, offers>>
  /\ UNCHANGED <<handlers, lost, undone, faults>>

OnOffer ==
  /\ Next1("B", "offer") /\ Heard("B")
  /\ LET n == Head(inbox["B"])[2]
     IN  /\ pc' = [pc EXCEPT !["B"] = n] /\ stage' = [stage EXCEPT !["B"] = "making"]
         /\ making' = making \cup {n}
  /\ channel' = [channel EXCEPT !["B"] = "none"]
  /\ UNCHANGED <<remote, failing, offers, lost, undone, faults>>

AnswerOffer(n) ==
  /\ Signal("A", <<"answer", n>>) /\ stage' = [stage EXCEPT !["B"] = "stable"]
  /\ UNCHANGED <<pc, channel, remote>>

(* A handler whose connection was torn down in the meantime never comes     *)
(* back, or fails: then it tears down whatever connection there is now.     *)
SendAnswer(n) ==
  /\ n \in making /\ making' = making \ {n}
  /\ \/ pc["B"] = n /\ AnswerOffer(n) /\ UNCHANGED lost
     \/ pc["B"] # n /\ UNCHANGED <<described, inbox, lost>>
     \/ pc["B"] # n /\ Teardown("B") /\ lost' = TRUE /\ UNCHANGED <<remote, inbox>>
  /\ UNCHANGED <<failing, offers, undone, faults>>

Undoes(p) == undone' = (undone \/ (p = "A" /\ stage["A"] = "sent"))

OfferFails ==
  /\ failing /\ failing' = FALSE
  /\ \/ UNCHANGED <<described, lost, undone>>
     \/ Teardown("A") /\ Undoes("A") /\ lost' = TRUE /\ UNCHANGED remote
  /\ UNCHANGED <<making, inbox, offers, faults>>

OnAnswer ==
  /\ Next1("A", "answer") /\ Heard("A")
  /\ IF stage["A"] = "sent"
     THEN stage' = [stage EXCEPT !["A"] = "stable"] /\ remote' = Head(inbox["A"])[2]
     ELSE UNCHANGED <<stage, remote>>
  /\ UNCHANGED <<pc, channel, handlers, offers, lost, undone, faults>>

(* The offer whose remote description the page's connection has, if any.    *)
Remote(p) == CASE p = "B" -> pc["B"]
               [] stage["A"] = "stable" -> remote
               [] OTHER -> NoOffer

MayRefuse(p, n) == pc[p] # NoOffer /\ Remote(p) # n
MayAccept(p, n) == pc[p] = NoOffer \/ Remote(p) # NoOffer

(* addIceCandidate needs a remote description, and may refuse a candidate   *)
(* of another one; the failure of the handler tears the connection down.    *)
OnCandidate(p) ==
  /\ Next1(p, "ice") /\ Heard(p)
  /\ LET n == Head(inbox[p])[2]
     IN  \/ MayAccept(p, n) /\ UNCHANGED <<described, failing, undone, lost>>
         \/ /\ MayRefuse(p, n) /\ Teardown(p) /\ Undoes(p) /\ lost' = TRUE
            /\ failing' = (failing \/ (p = "A" /\ stage["A"] = "asked"))
            /\ UNCHANGED remote
  /\ UNCHANGED <<making, offers, faults>>

----------------------------------------------------------------------------
(* The network and the browsers                                             *)

Matched == pc["A"] # NoOffer /\ pc["A"] = pc["B"] /\ remote = pc["A"]
           /\ stage["A"] = "stable" /\ stage["B"] = "stable"

Establish ==
  /\ Matched /\ channel["A"] = "connecting"
  /\ channel' = [p \in Page |-> "open"]
  /\ UNCHANGED <<pc, stage, remote, handlers, inbox, offers, lost, undone, faults>>

(* The channel closes with the connection at its other end.                 *)
ChannelCloses(p) ==
  /\ channel[p] = "open" /\ pc[Other(p)] # pc[p]
  /\ channel' = [channel EXCEPT ![p] = "none"]
  /\ UNCHANGED <<pc, stage, remote, handlers, inbox, offers, lost, undone, faults>>

Ignored(p) == UNCHANGED <<pc, stage, channel>>        \* mutant: a failure is not handled
OnFailed(p) == Teardown(p)

(* A connection whose other end is gone, or never was its match, is found   *)
(* to have failed; one that has no answer yet never is.                     *)
PeerFailed(p) ==
  /\ stage[p] = "stable"
  /\ IF p = "A" THEN remote # pc["A"] \/ pc["B"] # pc["A"] ELSE pc["A"] # pc["B"]
  /\ OnFailed(p)
  /\ UNCHANGED <<remote, handlers, inbox, offers, lost, undone, faults>>

Breaks(p) ==
  /\ channel[p] = "open" /\ Fault
  /\ Teardown(p)
  /\ UNCHANGED <<remote, handlers, inbox, offers, lost, undone>>

(* sendSignal throws while the relay is down.  A handler that fails so      *)
(* tears the connection down; the dialling of a send is left as it is.      *)
OfferUnsent ==
  /\ Describing /\ Fault /\ lost' = TRUE
  /\ \/ stage["A"] = "asked" /\ Teardown("A")
     \/ stage["A"] = "making" /\ stage' = [stage EXCEPT !["A"] = "sent"] /\ UNCHANGED <<pc, channel>>
  /\ UNCHANGED <<remote, handlers, inbox, offers, undone>>

AnswerUnsent(n) ==
  /\ pc["B"] = n /\ making' = making \ {n} /\ Fault /\ lost' = TRUE
  /\ Teardown("B")
  /\ UNCHANGED <<remote, failing, inbox, offers, undone>>

LoseSignal(p) ==
  /\ inbox[p] # <<>> /\ Fault /\ Heard(p)
  /\ lost' = TRUE
  /\ UNCHANGED <<described, handlers, offers, undone>>

ReloadPage(p) ==
  /\ pc[p] # NoOffer /\ Fault
  /\ Teardown(p) /\ Undoes(p)
  /\ making' = IF p = "B" THEN {} ELSE making
  /\ failing' = (failing /\ p = "B")
  /\ lost' = (lost \/ (p = "B" /\ making # {}))
  /\ UNCHANGED <<remote, inbox, offers>>

RtcNext ==
  \/ TrySendA \/ TrySendB \/ SendOffer \/ OnRequestOffer \/ OnOffer \/ OnAnswer
  \/ Establish \/ OfferFails \/ OfferUnsent
  \/ \E n \in making : SendAnswer(n) \/ AnswerUnsent(n)
  \/ \E p \in Page : SendCandidate(p) \/ OnCandidate(p) \/ ChannelCloses(p)
  \/ \E p \in Page : PeerFailed(p) \/ Breaks(p) \/ LoseSignal(p) \/ ReloadPage(p)

RtcSpec == RtcInit /\ [][RtcNext]_rtcVars

(* Both pages have something to send, signals arrive, browsers connect what *)
(* matches and report what has failed.                                      *)
RtcFairSpec ==
  /\ RtcSpec
  /\ WF_rtcVars(TrySendA) /\ WF_rtcVars(TrySendB) /\ WF_rtcVars(SendOffer)
  /\ WF_rtcVars(OnRequestOffer \/ OnAnswer \/ OnCandidate("A"))
  /\ WF_rtcVars(OnOffer \/ OnCandidate("B"))
  /\ WF_rtcVars(\E n \in making : SendAnswer(n))
  /\ WF_rtcVars(Establish) /\ WF_rtcVars(PeerFailed("A")) /\ WF_rtcVars(PeerFailed("B"))

----------------------------------------------------------------------------
(* A takes an answer for the offer it was made for: it does not offer again *)
(* while an offer is out, whatever B asks.  Only once a connection whose    *)
(* offer was out is gone (A was reloaded, a late candidate was refused) may *)
(* A take the answer to that offer for the answer to a later one.           *)
AnswerFitsOffer == remote # NoOffer /\ ~undone => remote = pc["A"] \/ pc["A"] = NoOffer

(* The direct connection comes about in the end, and again after it broke   *)
(* or a page was reloaded, unless a signal was lost, a handler failed (two  *)
(* offers were being answered at once, or a late candidate was refused) or  *)
(* A lost a connection whose offer was out.  After a loss A waits for its   *)
(* answer for ever, and neither its own sends nor the other's requests make *)
(* it try again; after the others each answer may go on being taken for the *)
(* offer that followed its own.                                             *)
DirectAtLast == <>[](lost \/ undone \/ \A p \in Page : channel[p] = "open")
=============================================================================
