---------------------------- MODULE MCBulletins ----------------------------
(* Three bulletins, the third an operator's push, and three handsets.      *)
EXTENDS BulletinFanout, TLC

CONSTANTS ip, a1, a2

News == [org |-> "library", tags |-> {"event"}]
Alert == [org |-> "server", tags |-> {}]
Library == [orgs |-> {"library"}, tags |-> {}, mode |-> "AND"]
Events == [orgs |-> {}, tags |-> {"event"}, mode |-> "AND"]
Picky == [orgs |-> {"library"}, tags |-> {"exam"}, mode |-> "AND"]

MCClasses == {News, Alert}
MCBody == <<"x", "x", "y">>
MCRules == (ip :> {Picky, Events}) @@ (a1 :> {Library}) @@ (a2 :> {Picky})
MCAudience == <<NoFilter, NoFilter, {a1, a2}>>

Mix(scraped, made, events, bad) ==
  [scraped |-> scraped, made |-> made, events |-> events, bad |-> bad]
TwoWorkers == Mix({1, 2}, <<>>, {"board", "fail", "die"}, {})
Unhandled == Mix({1}, <<>>, {"board", "parse", "raise"}, {})
Tokens == Mix({}, 1 :> News, {"refuse", "token"}, {})
TwoPosts == Mix({}, 1 :> News @@ 2 :> News, {"refuse"}, {})
LostAnswers == Mix({}, 1 :> News, {"crash", "raise", "lost"}, {})
Record == Mix({}, 3 :> Alert, {"crash", "sign"}, {})
Tracks == Mix({}, 1 :> News, {"sign", "portal", "backfill"}, {})
Stuck == Mix({}, 1 :> News @@ 2 :> News @@ 3 :> Alert, {"raise"}, {1, 2})
MCMixes == {TwoWorkers, Unhandled, Tokens, TwoPosts, LostAnswers, Record, Tracks, Stuck}
RaceMixes == {TwoWorkers}
=============================================================================
