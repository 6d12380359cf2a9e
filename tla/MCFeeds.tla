------------------------------ MODULE MCFeeds ------------------------------
(***************************************************************************)
(* What apps follow by a number the server hands out: the change feed by   *)
(* its revisions, the TLS pin document by its serials.  The two share no   *)
(* rows, so a behaviour moves one.                                         *)
(*                                                                         *)
(* Feed: one client reads the first account, the second only draws         *)
(* revisions.  Pins: two sets of one host each, and a CA change; one set,  *)
(* where backups or the clock are involved.                                *)
(***************************************************************************)
EXTENDS MCChangelog, TlsPins

CONSTANTS s1, s2, h1, h2, ca1, ca2, leaf, other

VARIABLE focus      \* what this behaviour is about

MCSeeded == [s \in PinSets |-> {ca1}]
MCHostsOf == s1 :> {h1} @@ s2 :> {h2}
MCChains == {[leaf |-> other, cas |-> {ca1}], [leaf |-> leaf, cas |-> {ca2}]}
PinMix(busy, events) == [busy |-> busy, events |-> events]
Changes == PinMix({s1}, {"chain", "key", "pins"})
Approvals == PinMix({s1}, {"chain", "hosts", "approve"})
Outages == PinMix({s1, s2}, {"chain", "down", "key"})
Ageing == PinMix({s1, s2}, {"resign", "expiry"})
Restores == PinMix({s1}, {"expiry", "fetch", "restore"})
MCPinMixes == {Changes, Approvals, Outages, Ageing, Restores}

FeedsInit ==
  /\ focus \in {"feed", "pins"}
  /\ Init /\ PinInit
  /\ focus # "pins" =>
       pinMix = Changes /\ ~key /\ auto = [s \in PinSets |-> FALSE]

FeedTurn == focus = "feed" /\ Next /\ UNCHANGED <<focus, pinVars>>
PinTurn == focus = "pins" /\ PinNext /\ UNCHANGED <<focus, vars>>

feedsVars == <<focus, vars, pinVars>>

Follows(step) == focus = "feed" /\ step /\ UNCHANGED <<focus, pinVars>>
Watches(step) == focus = "pins" /\ step /\ UNCHANGED <<focus, vars>>

\* The fairness of the feed's FairSpec and of PinSpec.
FeedsSpec ==
  /\ FeedsInit /\ [][FeedTurn \/ PinTurn]_feedsVars
  /\ \A w \in Writers : WF_feedsVars(Follows(CommitWriter(w) \/ RollbackWriter(w)))
  /\ \A c \in Clients : /\ WF_feedsVars(Follows(ReadState(c) \/ ReadRows(c)))
                        /\ WF_feedsVars(Follows(client[c].phase = "expired" /\ full_sync(c)))
  /\ WF_feedsVars(Watches(StartWatch)) /\ WF_feedsVars(Watches(run_pin_watch))
=============================================================================
