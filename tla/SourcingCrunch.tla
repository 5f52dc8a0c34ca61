---------------------------- MODULE SourcingCrunch ----------------------------
(***************************************************************************)
(* SourcingService (sourcing/m15_sourcing/service.py): a price list is     *)
(* ingested, and a crunch matches its rows against the channels through a  *)
(* Redis cache, scores them and writes them back in one transaction, which *)
(* its caller commits.  `rescore_only` scores the stored matches again.    *)
(*                                                                         *)
(* A match is what a channel said of a GTIN and whether it came out of the *)
(* cache; a score is the thresholds it was made with (SourcingVerdict).    *)
(***************************************************************************)
EXTENDS Naturals, FiniteSets

CONSTANTS
    Lists, Rows, Channels, Crunches,
    ListOf, GtinOf,    \* of a row; NoGtin is a row that cannot be matched
    Thresholds,
    Width,             \* SOURCING_MATCH_CONCURRENCY
    NoGtin, NoMatch, NoTh

ASSUME CrunchAssumption ==
    /\ ListOf \in [Rows -> Lists] /\ DOMAIN GtinOf = Rows
    /\ Lists # {} /\ Channels # {}

VARIABLES
    lists,       \* sourcing_lists, committed: [status, th], and whether it was overtaken
    rows,        \* sourcing_rows, committed: [status, match, th]
    matchCache,  \* Redis: `sourcing:match:{channel}:{gtin}`
    crunch,      \* running crunches, with what their transactions have written
    snapshot     \* history: where the committed snapshots came from

crunchVars == <<lists, rows, matchCache, crunch, snapshot>>

Gtins == {GtinOf[r] : r \in Rows} \ {NoGtin}
Match(said, cached) == [said |-> said, cached |-> cached]
Matches == [said : {"found", "none", "error"}, cached : BOOLEAN]
RowsOf(l) == {r \in Rows : ListOf[r] = l}

Idle == [pc |-> "idle", list |-> CHOOSE l \in Lists : TRUE, rescore |-> FALSE, th |-> NoTh,
         loaded |-> NoTh, rows |-> <<>>, task |-> <<>>, snaps |-> {}]

Ths == Thresholds \cup {NoTh}
SomeOf(S, T) == UNION {[D -> T] : D \in SUBSET S}      \* functions on a part of S
StoredLists == [status : {"absent", "ingested", "complete", "deleted"}, th : Ths,
                overtaken : BOOLEAN]
StoredRows == [status : {"absent", "pending", "skipped", "scored"},
               match : {NoMatch} \cup [Channels -> Matches], th : Ths]

CrunchTypeOK ==
    /\ lists \in [Lists -> StoredLists]
    /\ rows \in [Rows -> StoredRows]
    /\ matchCache \in [Channels \X Gtins -> {"found", "none", "error", NoMatch}]
    /\ crunch \in [Crunches ->
          [pc : {"idle", "flush", "run"}, list : Lists, rescore : BOOLEAN, th : Ths, loaded : Ths,
           rows : SomeOf(Rows, StoredRows),
           task : SomeOf(Rows \X Channels,
                         [pc : {"cache", "wait", "call", "store", "done"}, match : Matches]),
           snaps : SUBSET {"live", "replayed"}]]
    /\ snapshot \subseteq {"live", "replayed"}

CrunchInit ==
    /\ lists = [l \in Lists |-> [status |-> "absent", th |-> NoTh, overtaken |-> FALSE]]
    /\ rows = [r \in Rows |-> [status |-> "absent", match |-> NoMatch, th |-> NoTh]]
    /\ matchCache = [k \in Channels \X Gtins |-> NoMatch]
    /\ crunch = [c \in Crunches |-> Idle]
    /\ snapshot = {}

-----------------------------------------------------------------------------
(* create_list: rows without a usable code are skipped for good.           *)
CreateList(l) ==
    /\ lists[l].status = "absent"
    /\ \E th \in Thresholds :
         lists' = [lists EXCEPT ![l] = [status |-> "ingested", th |-> th, overtaken |-> FALSE]]
    /\ rows' = [r \in Rows |-> IF ListOf[r] # l THEN rows[r] ELSE
                  [rows[r] EXCEPT !.status = IF GtinOf[r] = NoGtin THEN "skipped" ELSE "pending"]]
    /\ UNCHANGED <<matchCache, crunch, snapshot>>

(* get_list reads the list without a lock; then the thresholds asked for,  *)
(* or those it read.                                                       *)
Begin(c, l) ==
    /\ crunch[c].pc = "idle"
    /\ lists[l].status \in {"ingested", "complete"}
    /\ \E th \in Thresholds \cup {lists[l].th}, again \in BOOLEAN :
         crunch' = [crunch EXCEPT ![c] = [Idle EXCEPT !.pc = "flush", !.list = l,
                                                      !.rescore = again, !.th = th,
                                                      !.loaded = lists[l].th]]
    /\ UNCHANGED <<lists, rows, matchCache, snapshot>>

Stored(r) == IF rows[r].match = NoMatch THEN [ch \in Channels |-> Match("none", FALSE)]
             ELSE rows[r].match

TasksOf(l, again) ==
    [t \in {r \in RowsOf(l) : rows[r].status \in {"pending", "scored"}} \X Channels |->
        IF again THEN [pc |-> "done", match |-> Stored(t[1])[t[2]]]
        ELSE [pc |-> "cache", match |-> Match("none", FALSE)]]

(* The UPDATE to "crunching" takes the list's row lock, which is held to   *)
(* the end of the transaction; the rows are read behind it.  A list that   *)
(* was deleted meanwhile leaves nothing to update, which is an error.      *)
Flush(c) ==
    /\ crunch[c].pc = "flush" /\ lists[crunch[c].list].status # "deleted"
    /\ \A d \in Crunches \ {c} : ~(crunch[d].list = crunch[c].list /\ crunch[d].pc = "run")
    /\ crunch' = [crunch EXCEPT ![c].pc = "run",
                                ![c].task = TasksOf(crunch[c].list, crunch[c].rescore)]
    /\ UNCHANGED <<lists, rows, matchCache, snapshot>>

(* One command of a task; the cache falls away silently when Redis fails.  *)
Step(c, t, pc, match) ==
    crunch' = [crunch EXCEPT ![c].task[t] = [pc |-> pc, match |-> match]]

Task(c, t, pc) == t \in DOMAIN crunch[c].task /\ crunch[c].task[t].pc = pc
Key(t) == <<t[2], GtinOf[t[1]]>>

CacheGet(c, t) ==
    /\ Task(c, t, "cache")
    /\ \/ matchCache[Key(t)] # NoMatch /\ Step(c, t, "done", Match(matchCache[Key(t)], TRUE))
       \/ Step(c, t, "wait", crunch[c].task[t].match)
    /\ UNCHANGED <<lists, rows, matchCache, snapshot>>

Calling(c) == {t \in DOMAIN crunch[c].task : crunch[c].task[t].pc = "call"}

Acquire(c, t) ==
    /\ Task(c, t, "wait")
    /\ Cardinality(Calling(c)) < Width
    /\ Step(c, t, "call", crunch[c].task[t].match)
    /\ UNCHANGED <<lists, rows, matchCache, snapshot>>

(* The adapter's answer; a transient failure is not stored.                *)
LookUp(c, t) ==
    /\ Task(c, t, "call")
    /\ \E said \in {"found", "none", "error"} :
         Step(c, t, IF said = "error" THEN "done" ELSE "store", Match(said, FALSE))
    /\ UNCHANGED <<lists, rows, matchCache, snapshot>>

CacheSet(c, t) ==
    /\ Task(c, t, "store")
    /\ matchCache' \in {matchCache, [matchCache EXCEPT ![Key(t)] = crunch[c].task[t].match.said]}
    /\ Step(c, t, "done", crunch[c].task[t].match)
    /\ UNCHANGED <<lists, rows, snapshot>>

(* The rows a transaction has written, over the committed ones.            *)
With(put) == [r \in Rows |-> IF r \in DOMAIN put THEN put[r] ELSE rows[r]]

(* A row whose channels have answered: a snapshot of each listing found,   *)
(* unless it came out of the cache, then the score and the row.            *)
ScoreRow(c, r) ==
    LET match == [ch \in Channels |-> crunch[c].task[<<r, ch>>].match]
        fresh == {ch \in Channels : match[ch].said = "found" /\ ~match[ch].cached}
    IN  /\ <<r, CHOOSE ch \in Channels : TRUE>> \in DOMAIN crunch[c].task
        /\ \A ch \in Channels : Task(c, <<r, ch>>, "done")
        /\ r \notin DOMAIN crunch[c].rows
        /\ crunch' = [crunch EXCEPT
              ![c].rows = [x \in DOMAIN @ \cup {r} |->
                              IF x = r THEN [status |-> "scored", match |-> match, th |-> crunch[c].th]
                              ELSE @[x]],
              ![c].snaps = IF fresh = {} THEN @
                           ELSE @ \cup {IF crunch[c].rescore THEN "replayed" ELSE "live"}]
        /\ UNCHANGED <<lists, rows, matchCache, snapshot>>

(* The UPDATE has the thresholds only where they are not what get_list     *)
(* read: the ORM leaves out a column it takes to be unchanged, whatever    *)
(* another crunch has committed since.                                     *)
WrittenTh(c) == IF crunch[c].th = crunch[c].loaded THEN lists[crunch[c].list].th ELSE crunch[c].th

(* The summary, "complete", and the caller's commit.                       *)
Finish(c) ==
    /\ crunch[c].pc = "run"
    /\ \A t \in DOMAIN crunch[c].task : t[1] \in DOMAIN crunch[c].rows
    /\ lists' = [lists EXCEPT ![crunch[c].list] =
                    [status |-> "complete", th |-> WrittenTh(c),
                     overtaken |-> @.th # crunch[c].loaded]]
    /\ rows' = With(crunch[c].rows)
    /\ snapshot' = snapshot \cup crunch[c].snaps
    /\ crunch' = [crunch EXCEPT ![c] = Idle]
    /\ UNCHANGED matchCache

(* Mutant: the rows scored so far are committed, chunk by chunk.           *)
AbandonKeepsRows(c) ==
    /\ crunch[c].pc \in {"flush", "run"}
    /\ rows' = With(crunch[c].rows)
    /\ crunch' = [crunch EXCEPT ![c] = Idle]
    /\ UNCHANGED <<lists, matchCache, snapshot>>

(* The client goes away or a statement fails: the tasks are cancelled, the *)
(* transaction is rolled back and what Redis holds stays.                  *)
Abandon(c) ==
    /\ crunch[c].pc \in {"flush", "run"}
    /\ crunch' = [crunch EXCEPT ![c] = Idle]
    /\ UNCHANGED <<lists, rows, matchCache, snapshot>>

Expire(k) ==
    /\ matchCache[k] # NoMatch
    /\ matchCache' = [matchCache EXCEPT ![k] = NoMatch]
    /\ UNCHANGED <<lists, rows, crunch, snapshot>>

(* The rows go with the list; a crunch that holds its lock is waited for.  *)
DeleteList(l) ==
    /\ lists[l].status \in {"ingested", "complete"}
    /\ \A c \in Crunches : ~(crunch[c].list = l /\ crunch[c].pc = "run")
    /\ lists' = [lists EXCEPT ![l] = [status |-> "deleted", th |-> NoTh, overtaken |-> FALSE]]
    /\ rows' = [r \in Rows |-> IF ListOf[r] # l THEN rows[r]
                               ELSE [status |-> "absent", match |-> NoMatch, th |-> NoTh]]
    /\ UNCHANGED <<matchCache, crunch, snapshot>>

CrunchNext ==
    \/ \E l \in Lists : CreateList(l) \/ DeleteList(l) \/ \E c \in Crunches : Begin(c, l)
    \/ \E c \in Crunches :
          \/ Flush(c) \/ Finish(c) \/ Abandon(c)
          \/ \E r \in Rows : ScoreRow(c, r)
          \/ \E t \in DOMAIN crunch[c].task :
                CacheGet(c, t) \/ Acquire(c, t) \/ LookUp(c, t) \/ CacheSet(c, t)
    \/ \E k \in Channels \X Gtins : Expire(k)

CrunchSpec == CrunchInit /\ [][CrunchNext]_crunchVars

-----------------------------------------------------------------------------
(* What the inductive invariant says beside the types: a row that can be   *)
(* matched has a barcode;                                                  *)
RowsMatchable == \A r \in Rows : rows[r].status \in {"pending", "scored"} => GtinOf[r] # NoGtin

(* one crunch runs on a list, behind its row lock, and writes rows of its  *)
(* list only, with its own thresholds;                                     *)
RunsAlone ==
    \A c, d \in Crunches : c # d /\ crunch[c].pc = "run" /\ crunch[d].pc = "run" =>
        crunch[c].list # crunch[d].list

WritesOwnRows ==
    \A c \in Crunches :
        /\ crunch[c].pc # "run" => DOMAIN crunch[c].task = {}
        /\ \A t \in DOMAIN crunch[c].task :
              ListOf[t[1]] = crunch[c].list /\ GtinOf[t[1]] # NoGtin
        /\ \A r \in DOMAIN crunch[c].rows :
              /\ ListOf[r] = crunch[c].list /\ GtinOf[r] # NoGtin
              /\ crunch[c].rows[r].th = crunch[c].th

(* and none of the rows scored before it is missing from its tasks.        *)
LeavesNoRowOut ==
    \A c \in Crunches : crunch[c].pc = "run" =>
        \A r \in Rows : ListOf[r] = crunch[c].list /\ rows[r].status = "scored" =>
            \A ch \in Channels : <<r, ch>> \in DOMAIN crunch[c].task

(* However crunches and rescores of a list overlap or are abandoned, the   *)
(* scored rows of a complete list were all scored with the same            *)
(* thresholds.  They are those the list shows, unless the list's were      *)
(* changed between the last crunch's reading it (service.py:570) and its   *)
(* taking the lock (576): it may then leave the new ones beside its own    *)
(* scores.                                                                 *)
ScoresShareThresholds ==
    \A r \in Rows : LET l == lists[ListOf[r]] IN
        l.status = "complete" /\ rows[r].status = "scored" =>
            /\ \A q \in RowsOf(ListOf[r]) : rows[q].status = "scored" => rows[q].th = rows[r].th
            /\ l.overtaken \/ rows[r].th = l.th

CrunchInv ==
    /\ CrunchTypeOK /\ RowsMatchable /\ RunsAlone /\ WritesOwnRows /\ LeavesNoRowOut
    /\ ScoresShareThresholds
=============================================================================
