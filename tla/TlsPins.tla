------------------------------ MODULE TlsPins ------------------------------
(***************************************************************************)
(* The signed document of TLS pins the apps trust, and the two who change  *)
(* it: the hourly watcher, which probes the school's hosts with no         *)
(* transaction open and adds the CAs of a chain that shares no pin with    *)
(* its set, and operators in the portal, who see a page of pending pins    *)
(* that may be stale when they approve it.  Every change is one            *)
(* transaction under an advisory lock.  The signing key may be missing for *)
(* a while, and the database may be restored from a backup.                *)
(*                                                                         *)
(* Source: server/tls_pins/document.py, watcher.py, routes.py, models.py.  *)
(***************************************************************************)
EXTENDS Integers, FiniteSets, FiniteSetsExt

CONSTANTS
  PinSets,       \* tls_pin_sets.id
  Pins,          \* SPKI hashes
  Seeded,        \* set -> the pins the migration seeds
  HostsOf,       \* set -> the hosts under its domains
  Hosts,
  Chains,        \* chains a host may serve: [leaf, cas]
  NoDocument,
  NotProbing,    \* the watcher rests
  Unusable,      \* a probe that failed, or a chain system trust refuses
  Validity, ResignBefore, ExpiryAhead,
  MaxNow,        \* bound: the clock
  MaxSerial,     \* bound: the serial from which on only the watcher publishes
  MaxExpiry,     \* bound: how far an expiry is moved
  PinMixes       \* what happens together in a behaviour: records of the `busy`
                 \* sets, whose pins and hosts change, and the `events`

PinEvents == {"chain", "down", "key", "pins", "hosts", "approve", "resign", "expiry", "fetch",
              "restore"}

ASSUME PinConstants ==
  /\ \A s \in PinSets : Seeded[s] # {} /\ Seeded[s] \subseteq Pins /\ HostsOf[s] \subseteq Hosts
  /\ \E c \in Chains : \A s \in PinSets : c.cas \intersect Seeded[s] # {}
  /\ \A c \in Chains : c.cas # {} /\ c.cas \subseteq Pins
  /\ PinMixes \subseteq [busy : SUBSET PinSets, events : SUBSET PinEvents]
  /\ NoDocument \notin [serial : Nat, sets : [PinSets -> [pins : SUBSET Pins, expires : Nat]],
                        until : Nat]
  /\ Validity \in Nat /\ MaxExpiry \in Nat

VARIABLES
  pinMix,     \* the mix of this behaviour
  pinned,     \* set -> pin -> "out", "pending" or "in"
  watched,    \* set -> monitored_hosts
  auto,       \* set -> auto_publish
  validTo,    \* set -> expires_at
  document,   \* the document with the highest serial
  key,        \* a signing key is configured
  now,        \* the clock
  probes,     \* the watcher's results: [Targets -> what the host answered]
  chain,      \* host -> the chain it serves
  reachable,  \* the hosts that answer with a chain the system trusts
  shown,      \* set -> the pending pins on the operator's page
  app,        \* the document an app holds
  saved,      \* the backup
  current,    \* history: a document was signed since the last restore
  allowed     \* history: set -> pins a document may carry

stored == <<pinned, watched, auto, validTo, document>>
pinVars == <<pinMix, stored, key, now, probes, chain, reachable, shown, app, saved,
             current, allowed>>

Occurs(e) == e \in pinMix.events
Busy(s) == s \in pinMix.busy
Room == IF document = NoDocument THEN TRUE ELSE document.serial < MaxSerial
Usual(c) == \A s \in PinSets : c.cas \intersect Seeded[s] # {}
ChainPins(c) == {c.leaf} \union c.cas

PinInit ==
  /\ pinMix \in PinMixes
  /\ pinned = [s \in PinSets |-> [p \in Pins |-> IF p \in Seeded[s] THEN "in" ELSE "out"]]
  /\ watched = HostsOf
  /\ auto \in {a \in [PinSets -> BOOLEAN] : \A s \in PinSets : a[s] => Busy(s)}
  /\ validTo = [s \in PinSets |-> 1]
  /\ document = NoDocument /\ key \in BOOLEAN /\ now = 0
  /\ probes = NotProbing
  /\ chain = [h \in Hosts |-> CHOOSE c \in Chains : Usual(c)] /\ reachable = Hosts
  /\ shown = [s \in PinSets |-> {}]
  /\ app = NoDocument /\ saved = stored /\ current = FALSE
  /\ allowed = Seeded

(***************************************************************************)
(* Signing.                                                                *)
(***************************************************************************)
published_pins(set) == {p \in Pins : set[p] = "in"}

set_entry(pins, expiry, s) == [pins |-> published_pins(pins[s]), expires |-> expiry[s]]
Entries(pins, expiry) == [s \in PinSets |-> set_entry(pins, expiry, s)]

\* Mutant of NextSerial: the clock is not asked for.
NextSerial_counted == IF document = NoDocument THEN 1 ELSE document.serial + 1

(* The clock keeps a serial above those a restored database forgot.        *)
NextSerial == Max({now, IF document = NoDocument THEN 0 ELSE document.serial + 1})

publish(entries) ==
  /\ document' = [serial |-> NextSerial, sets |-> entries, until |-> now + Validity]
  /\ current' = TRUE

(* A change is published if that is asked for and a key is there.          *)
_finish(publish_now, entries) ==
  IF publish_now /\ key THEN publish(entries) ELSE UNCHANGED <<document, current>>

(* At startup and every hour: the first document, or the current one's     *)
(* sets signed again before it runs out.                                   *)
ensure_current_document ==
  /\ key /\ Room
  /\ \/ document = NoDocument /\ publish(Entries(pinned, validTo))
     \/ /\ document # NoDocument /\ document.until - now <= ResignBefore
        /\ publish(document.sets)
  /\ UNCHANGED <<pinMix, pinned, watched, auto, validTo, key, now, probes, chain,
                 reachable, shown, app, saved, allowed>>

(***************************************************************************)
(* The watcher.                                                            *)
(***************************************************************************)
Targets == {t \in PinSets \X Hosts : t[2] \in watched[t[1]]}

(* A host that does not answer in time, or whose chain system trust        *)
(* refuses, changes nothing.                                               *)
probe(h) == IF h \in reachable THEN chain[h] ELSE Unusable

(* run_pin_watch reads its targets, if there are any, and probes them, with *)
(* no transaction.                                                         *)
StartWatch ==
  /\ probes = NotProbing
  /\ probes' = [t \in Targets |-> probe(t[2])]
  /\ UNCHANGED <<pinMix, stored, key, now, chain, reachable, shown, app, saved,
                 current, allowed>>

(* A trusted chain that shares no pin with the set adds its CAs, never its *)
(* leaf; pending, unless the set publishes by itself.                      *)
_apply(s, result, set) ==
  LET known == {p \in Pins : set[p] # "out"}
  IN IF result = Unusable \/ ChainPins(result) \intersect known # {} THEN set
     ELSE [p \in Pins |-> IF p \in result.cas THEN IF auto[s] THEN "in" ELSE "pending"
                          ELSE set[p]]

(* The results of the hosts still monitored, one after the other.          *)
Applied ==
  [s \in PinSets |->
     FoldSet(LAMBDA h, set : _apply(s, probes[<<s, h>>], set), pinned[s],
             {h \in watched[s] : <<s, h>> \in DOMAIN probes})]

\* Mutant of run_pin_watch: only pins this run added are published.
run_pin_watch_own_additions ==
  /\ probes # NotProbing /\ probes' = NotProbing
  /\ pinned' = Applied
  /\ _finish(document # NoDocument /\ \E s \in PinSets : auto[s] /\ Applied[s] # pinned[s],
             Entries(Applied, validTo))
  /\ allowed' = [s \in PinSets |-> allowed[s] \union
                   IF auto[s] THEN {p \in Pins : Applied[s][p] = "in"} ELSE {}]
  /\ UNCHANGED <<pinMix, watched, auto, validTo, key, now, chain, reachable, shown, app,
                 saved>>

(* Published is whatever the served document lacks, not what was added     *)
(* now, so that a change kept while the key was missing goes out.          *)
run_pin_watch ==
  /\ probes # NotProbing /\ probes' = NotProbing
  /\ pinned' = Applied
  /\ _finish(/\ document # NoDocument
             /\ \E s \in PinSets : auto[s] /\ document.sets[s] # set_entry(Applied, validTo, s),
             Entries(Applied, validTo))
  /\ allowed' = [s \in PinSets |-> allowed[s] \union
                   IF auto[s] THEN {p \in Pins : Applied[s][p] = "in"} ELSE {}]
  /\ UNCHANGED <<pinMix, watched, auto, validTo, key, now, chain, reachable, shown, app,
                 saved>>

(***************************************************************************)
(* The operator.                                                           *)
(***************************************************************************)
add_pin(s, p) ==
  LET pins == [pinned EXCEPT ![s][p] = "in"]
  IN /\ Occurs("pins") /\ Busy(s) /\ Room /\ pinned[s][p] = "out"
     /\ pinned' = pins /\ _finish(TRUE, Entries(pins, validTo))
     /\ allowed' = [allowed EXCEPT ![s] = @ \union {p}]
     /\ UNCHANGED <<pinMix, watched, auto, validTo, key, now, probes, chain, reachable,
                    shown, app, saved>>

\* Mutant of MayRemove: a pending pin counts as one that is left.
MayRemove_pending_left(s, p) ==
  pinned[s][p] # "out" /\ \E q \in Pins \ {p} : pinned[s][q] # "out"

(* The last published pin stays.                                           *)
MayRemove(s, p) == pinned[s][p] # "out" /\ \E q \in Pins \ {p} : pinned[s][q] = "in"

remove_pin(s, p) ==
  LET pins == [pinned EXCEPT ![s][p] = "out"]
  IN /\ Occurs("pins") /\ Busy(s) /\ Room /\ MayRemove(s, p)
     /\ pinned' = pins /\ _finish(TRUE, Entries(pins, validTo))
     /\ UNCHANGED <<pinMix, watched, auto, validTo, key, now, probes, chain, reachable,
                    shown, app, saved, allowed>>

set_monitored_hosts(s, hosts) ==
  /\ Occurs("hosts") /\ Busy(s) /\ hosts \subseteq HostsOf[s] /\ watched[s] # hosts
  /\ watched' = [watched EXCEPT ![s] = hosts]
  /\ UNCHANGED <<pinMix, pinned, auto, validTo, document, key, now, probes, chain,
                 reachable, shown, app, saved, current, allowed>>

set_auto_publish(s) ==
  /\ Occurs("approve") /\ Busy(s)
  /\ auto' = [auto EXCEPT ![s] = ~@]
  /\ UNCHANGED <<pinMix, pinned, watched, validTo, document, key, now, probes, chain,
                 reachable, shown, app, saved, current, allowed>>

(* Only later, and not too far.                                            *)
extend_expiry(s, time) ==
  LET expiry == [validTo EXCEPT ![s] = time]
  IN /\ Occurs("expiry") /\ Busy(s) /\ Room /\ validTo[s] < time /\ time <= now + ExpiryAhead
     /\ validTo' = expiry /\ _finish(TRUE, Entries(pinned, expiry))
     /\ UNCHANGED <<pinMix, pinned, watched, auto, key, now, probes, chain, reachable,
                    shown, app, saved, allowed>>

(* The operator opens the page that lists what is pending ...              *)
OpenPage ==
  /\ Occurs("approve")
  /\ shown' = [s \in PinSets |-> {p \in Pins : pinned[s][p] = "pending"}]
  /\ shown' # shown
  /\ UNCHANGED <<pinMix, stored, key, now, probes, chain, reachable, app, saved, current,
                 allowed>>

\* Mutant of Approved: whatever is pending by now is approved.
Approved_all(s) == {p \in Pins : pinned[s][p] = "pending"}

Approved(s) == {p \in shown[s] : pinned[s][p] = "pending"}

(* ... and approves what it showed.                                        *)
publish_document ==
  LET pins == [s \in PinSets |-> [p \in Pins |-> IF p \in Approved(s) THEN "in"
                                                 ELSE pinned[s][p]]]
  IN /\ Occurs("approve") /\ key /\ Room
     /\ pinned' = pins /\ _finish(TRUE, Entries(pins, validTo))
     /\ allowed' = [s \in PinSets |-> allowed[s] \union shown[s]]
     /\ UNCHANGED <<pinMix, watched, auto, validTo, key, now, probes, chain, reachable,
                    shown, app, saved>>

resign_document ==
  /\ Occurs("resign") /\ key /\ Room /\ document # NoDocument
  /\ _finish(TRUE, document.sets)
  /\ UNCHANGED <<pinMix, pinned, watched, auto, validTo, key, now, probes, chain,
                 reachable, shown, app, saved, allowed>>

(***************************************************************************)
(* Apps, hosts, keys, time and backups.                                    *)
(***************************************************************************)
(* An app fetches the document and keeps it if its serial is higher.       *)
tls_pin_document ==
  /\ Occurs("fetch") /\ document # NoDocument
  /\ app # NoDocument => app.serial < document.serial
  /\ app' = document
  /\ UNCHANGED <<pinMix, stored, key, now, probes, chain, reachable, shown, saved, current,
                 allowed>>

RenewChain(h, c) ==
  /\ Occurs("chain") /\ (\E s \in pinMix.busy : h \in HostsOf[s]) /\ chain[h] # c
  /\ chain' = [chain EXCEPT ![h] = c]
  /\ UNCHANGED <<pinMix, stored, key, now, probes, reachable, shown, app, saved, current,
                 allowed>>

UpOrDown(h) ==
  /\ Occurs("down")
  /\ reachable' = IF h \in reachable THEN reachable \ {h} ELSE reachable \union {h}
  /\ UNCHANGED <<pinMix, stored, key, now, probes, chain, shown, app, saved, current,
                 allowed>>

(* The server restarts with or without a key file.  A watch under way is   *)
(* lost.                                                                   *)
load_signer ==
  /\ Occurs("key")
  /\ key' = ~key /\ probes' = NotProbing
  /\ UNCHANGED <<pinMix, stored, now, chain, reachable, shown, app, saved, current, allowed>>

Passes ==
  /\ Occurs("resign") \/ Occurs("restore")
  /\ now < MaxNow /\ now' = now + 1
  /\ UNCHANGED <<pinMix, stored, key, probes, chain, reachable, shown, app, saved, current,
                 allowed>>

BackUp ==
  /\ Occurs("restore") /\ saved # stored
  /\ saved' = stored
  /\ UNCHANGED <<pinMix, stored, key, now, probes, chain, reachable, shown, app, current,
                 allowed>>

(* The server is down for a restore longer than serials run ahead of the   *)
(* clock: one second for each document signed within the same second.      *)
Restore ==
  LET lost == IF document = NoDocument THEN 0 ELSE document.serial
  IN /\ Occurs("restore") /\ saved # stored
     /\ Max({now, lost}) < MaxNow /\ now' = Max({now, lost}) + 1
     /\ pinned' = saved[1] /\ watched' = saved[2] /\ auto' = saved[3]
     /\ validTo' = saved[4] /\ document' = saved[5]
     /\ current' = FALSE /\ probes' = NotProbing
     /\ UNCHANGED <<pinMix, key, chain, reachable, shown, app, saved, allowed>>

PinNext ==
  \/ ensure_current_document \/ StartWatch \/ run_pin_watch
  \/ \E s \in PinSets, p \in Pins : add_pin(s, p) \/ remove_pin(s, p)
  \/ \E s \in PinSets : \/ \E hosts \in SUBSET Hosts : set_monitored_hosts(s, hosts)
                        \/ set_auto_publish(s)
                        \/ \E time \in 1..MaxExpiry : extend_expiry(s, time)
  \/ OpenPage \/ publish_document \/ resign_document \/ tls_pin_document
  \/ \E h \in Hosts : UpOrDown(h) \/ \E c \in Chains : RenewChain(h, c)
  \/ load_signer \/ Passes \/ BackUp \/ Restore

(* The scheduler runs the watch every hour and every probe is timed out.   *)
PinSpec == PinInit /\ [][PinNext]_pinVars /\ WF_pinVars(StartWatch) /\ WF_pinVars(run_pin_watch)

(***************************************************************************)
(* Properties.                                                             *)
(***************************************************************************)
(* No document carries a pin nobody answers for: each was seeded, added or *)
(* approved by an operator who was shown it, or found by the watcher for a *)
(* set that publishes by itself (publish_document, _apply, _finish); and   *)
(* no document leaves a set without pins, which would fail every chain of  *)
(* its hosts (remove_pin).                                                 *)
DocumentAnsweredFor ==
  document # NoDocument =>
    \A s \in PinSets : /\ document.sets[s].pins # {}
                       /\ document.sets[s].pins \subseteq allowed[s]

(* Whatever was signed since a restore, an app takes: it holds no higher   *)
(* serial, and under the same serial no other document (publish).          *)
AppTakesTheNewest ==
  current /\ app # NoDocument =>
    app.serial <= document.serial /\ (app.serial = document.serial => app = document)

(* The pins of a monitored host's chain, none of them waiting for an       *)
(* operator, are missing from the document of a set that publishes itself. *)
Outdated(s, h) ==
  /\ h \in watched[s] /\ h \in reachable /\ auto[s] /\ key /\ document # NoDocument
  /\ document.sets[s].pins \intersect ChainPins(chain[h]) = {}
  /\ \A p \in ChainPins(chain[h]) \intersect Pins : pinned[s][p] # "pending"

(* A host's new chain reaches the document, however the change met a       *)
(* missing key, a restart or an operator (run_pin_watch).                  *)
KeepsMatching == \A s \in PinSets, h \in Hosts : []<>(~Outdated(s, h))
=============================================================================
