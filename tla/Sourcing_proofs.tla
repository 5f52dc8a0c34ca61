----------------------------- MODULE Sourcing_proofs -----------------------------
(* Proofs about the parts of sourcing/m15_sourcing: a complete list was      *)
(* scored with one set of thresholds (SourcingCrunch); looser ones never     *)
(* make a verdict worse, and a list is ranked by verdict first               *)
(* (SourcingVerdict); no fee is lost (SourcingRecon); the depletion estimate *)
(* counts a unit once, and forecasts are judged fairly (DemandForecast); the *)
(* unit cost of a price list is a unit cost (PriceListIngest); what the      *)
(* calculators say twice agrees (ChannelFees).                               *)
EXTENDS ChannelFees, SourcingCrunch, SourcingVerdict, SourcingRecon, DemandForecast,
        PriceListIngest, FiniteOrders, TLAPS

(***************************************************************************)
(* SourcingCrunch                                                          *)
(***************************************************************************)

Tasks == [pc : {"cache", "wait", "call", "store", "done"}, match : Matches]
Runs == [pc : {"idle", "flush", "run"}, list : Lists, rescore : BOOLEAN, th : Ths, loaded : Ths,
         rows : SomeOf(Rows, StoredRows), task : SomeOf(Rows \X Channels, Tasks),
         snaps : SUBSET {"live", "replayed"}]

(* What the invariant asks of `t` as the state of crunch c.                *)
GoodRun(c, t) ==
    /\ t \in Runs
    /\ t.pc = "run" => \A d \in Crunches \ {c} : crunch[d].pc = "run" => crunch[d].list # t.list
    /\ t.pc # "run" => DOMAIN t.task = {}
    /\ \A k \in DOMAIN t.task : ListOf[k[1]] = t.list /\ GtinOf[k[1]] # NoGtin
    /\ \A r \in DOMAIN t.rows : ListOf[r] = t.list /\ GtinOf[r] # NoGtin /\ t.rows[r].th = t.th
    /\ t.pc = "run" =>
          \A r \in Rows : ListOf[r] = t.list /\ rows[r].status = "scored" =>
              \A ch \in Channels : <<r, ch>> \in DOMAIN t.task

LEMMA SomeOfTyped ==
    ASSUME NEW S, NEW T, NEW f
    PROVE  f \in SomeOf(S, T) <=> \E D \in SUBSET S : f \in [D -> T]
  BY DEF SomeOf

(* A function on a part of S, at one of its points.                        *)
LEMMA SomeOfAt ==
    ASSUME NEW S, NEW T, NEW f \in SomeOf(S, T)
    PROVE  DOMAIN f \subseteq S /\ \A x \in DOMAIN f : f[x] \in T
  BY SomeOfTyped

LEMMA Empty ==
    ASSUME NEW S, NEW T
    PROVE  <<>> \in SomeOf(S, T) /\ DOMAIN <<>> = {}
  <1>1. <<>> \in [{} -> T] /\ DOMAIN <<>> = {}
    OBVIOUS
  <1> QED
    BY <1>1 DEF SomeOf

(* A step of one crunch that commits nothing.                              *)
LEMMA CrunchFrame ==
    ASSUME CrunchInv, NEW c \in Crunches, NEW t, GoodRun(c, t),
           crunch' = [crunch EXCEPT ![c] = t], UNCHANGED <<lists, rows, snapshot>>,
           matchCache' \in [Channels \X Gtins -> {"found", "none", "error", NoMatch}]
    PROVE  CrunchInv'
  <1> USE DEF CrunchInv
  <1>1. crunch \in [Crunches -> Runs] /\ t \in Runs
    BY DEF CrunchTypeOK, Runs, Tasks, GoodRun
  <1>2. /\ crunch' \in [Crunches -> Runs] /\ crunch'[c] = t
        /\ \A d \in Crunches \ {c} : crunch'[d] = crunch[d]
    BY <1>1
  <1>3. CrunchTypeOK'
    BY <1>2 DEF CrunchTypeOK, Runs, Tasks
  <1>4. RowsMatchable'
    BY DEF RowsMatchable
  <1>5. RunsAlone'
    BY <1>2 DEF RunsAlone, GoodRun
  <1>6. WritesOwnRows'
    BY <1>2 DEF WritesOwnRows, GoodRun
  <1>7. LeavesNoRowOut'
    BY <1>2 DEF LeavesNoRowOut, GoodRun
  <1>8. ScoresShareThresholds'
    BY DEF ScoresShareThresholds
  <1> QED
    BY <1>3, <1>4, <1>5, <1>6, <1>7, <1>8

LEMMA RunIsGood ==
    ASSUME CrunchInv, NEW c \in Crunches
    PROVE  GoodRun(c, crunch[c])
  <1>1. crunch \in [Crunches -> Runs]
    BY DEF CrunchInv, CrunchTypeOK, Runs, Tasks
  <1> QED
    BY <1>1 DEF CrunchInv, GoodRun, RunsAlone, WritesOwnRows, LeavesNoRowOut

(* A crunch that is not running has nothing to say.                        *)
LEMMA IdleIsGood ==
    ASSUME NEW c \in Crunches
    PROVE  GoodRun(c, Idle) /\ Idle.pc = "idle" /\ Idle.task = <<>> /\ Idle.rows = <<>>
  <1>1. /\ <<>> \in SomeOf(Rows, StoredRows) /\ <<>> \in SomeOf(Rows \X Channels, Tasks)
        /\ DOMAIN <<>> = {}
    BY Empty
  <1>2. (CHOOSE l \in Lists : TRUE) \in Lists
    BY CrunchAssumption
  <1> QED
    BY <1>1, <1>2 DEF Idle, GoodRun, Runs, Ths

-----------------------------------------------------------------------------
(* One task of a running crunch moves on.                                  *)
LEMMA TaskFrame ==
    ASSUME CrunchInv, NEW c \in Crunches, NEW k \in DOMAIN crunch[c].task,
           NEW pc \in {"cache", "wait", "call", "store", "done"}, NEW match \in Matches,
           Step(c, k, pc, match), UNCHANGED <<lists, rows, snapshot>>,
           matchCache' \in [Channels \X Gtins -> {"found", "none", "error", NoMatch}]
    PROVE  CrunchInv'
  <1> DEFINE new == [pc |-> pc, match |-> match]
             t == [crunch[c] EXCEPT !.task = [@ EXCEPT ![k] = new]]
  <1>1. crunch \in [Crunches -> Runs] /\ crunch[c] \in Runs
    BY DEF CrunchInv, CrunchTypeOK, Runs, Tasks
  <1>2. crunch' = [crunch EXCEPT ![c] = t]
    BY DEF Step
  <1>3. PICK D \in SUBSET (Rows \X Channels) : crunch[c].task \in [D -> Tasks]
    BY <1>1, SomeOfTyped DEF Runs
  <1>4. new \in Tasks
    BY DEF Tasks
  <1>5. [crunch[c].task EXCEPT ![k] = new] \in [D -> Tasks]
    BY <1>3, <1>4
  <1>6. [crunch[c].task EXCEPT ![k] = new] \in SomeOf(Rows \X Channels, Tasks)
    BY <1>5, SomeOfTyped
  <1>7. t \in Runs
    BY <1>1, <1>6 DEF Runs
  <1>8. DOMAIN t.task = DOMAIN crunch[c].task /\ t.rows = crunch[c].rows /\ t.pc = crunch[c].pc
        /\ t.list = crunch[c].list /\ t.th = crunch[c].th
    BY <1>1, <1>3, <1>5 DEF Runs
  <1>9. GoodRun(c, t)
    BY <1>7, <1>8, RunIsGood DEF GoodRun
  <1> HIDE DEF t
  <1> QED
    BY <1>2, <1>9, CrunchFrame

LEMMA KeyTyped ==
    ASSUME CrunchInv, NEW c \in Crunches, NEW k \in DOMAIN crunch[c].task
    PROVE  /\ k \in Rows \X Channels /\ Key(k) \in Channels \X Gtins
           /\ crunch[c].task[k] \in Tasks
  <1>1. crunch[c] \in Runs
    BY DEF CrunchInv, CrunchTypeOK, Runs, Tasks
  <1>2. DOMAIN crunch[c].task \subseteq Rows \X Channels /\ crunch[c].task[k] \in Tasks
    BY <1>1, SomeOfAt DEF Runs
  <1>3. GtinOf[k[1]] # NoGtin
    BY DEF CrunchInv, WritesOwnRows
  <1> QED
    BY <1>2, <1>3 DEF Key, Gtins

LEMMA TaskSteps ==
    ASSUME CrunchInv, NEW c \in Crunches, NEW k \in DOMAIN crunch[c].task,
           CacheGet(c, k) \/ Acquire(c, k) \/ LookUp(c, k) \/ CacheSet(c, k)
    PROVE  CrunchInv'
  <1>1. /\ k \in Rows \X Channels /\ Key(k) \in Channels \X Gtins
        /\ crunch[c].task[k] \in Tasks
    BY KeyTyped
  <1>2. crunch[c].task[k].match \in Matches
    BY <1>1 DEF Tasks
  <1>3. matchCache \in [Channels \X Gtins -> {"found", "none", "error", NoMatch}]
    BY DEF CrunchInv, CrunchTypeOK
  <1>4. \A said \in {"found", "none", "error"}, cached \in BOOLEAN : Match(said, cached) \in Matches
    BY DEF Match, Matches
  <1>5. CASE CacheGet(c, k)
    <2>1. CASE matchCache[Key(k)] # NoMatch /\ Step(c, k, "done", Match(matchCache[Key(k)], TRUE))
      <3>1. matchCache[Key(k)] \in {"found", "none", "error"}
        BY <2>1, <1>1, <1>3
      <3> QED
        BY <3>1, <2>1, <1>3, <1>4, <1>5, TaskFrame DEF CacheGet
    <2>2. CASE Step(c, k, "wait", crunch[c].task[k].match)
      BY <2>2, <1>2, <1>3, <1>5, TaskFrame DEF CacheGet
    <2> QED
      BY <1>5, <2>1, <2>2 DEF CacheGet
  <1>6. CASE Acquire(c, k)
    BY <1>6, <1>2, <1>3, TaskFrame DEF Acquire
  <1>7. CASE LookUp(c, k)
    <2>1. PICK said \in {"found", "none", "error"} :
             Step(c, k, IF said = "error" THEN "done" ELSE "store", Match(said, FALSE))
      BY <1>7 DEF LookUp
    <2> QED
      BY <2>1, <1>3, <1>4, <1>7, TaskFrame DEF LookUp
  <1>8. CASE CacheSet(c, k)
    <2>1. crunch[c].task[k].match.said \in {"found", "none", "error"}
      BY <1>2 DEF Matches
    <2>2. matchCache' \in [Channels \X Gtins -> {"found", "none", "error", NoMatch}]
      BY <1>3, <1>8, <2>1 DEF CacheSet
    <2> QED
      BY <2>2, <1>2, <1>8, TaskFrame DEF CacheSet
  <1> QED
    BY <1>5, <1>6, <1>7, <1>8

-----------------------------------------------------------------------------
LEMMA BeginStep ==
    ASSUME CrunchInv, NEW c \in Crunches, NEW l \in Lists, Begin(c, l)
    PROVE  CrunchInv'
  <1>1. PICK th \in Thresholds \cup {lists[l].th}, again \in BOOLEAN :
           crunch' = [crunch EXCEPT ![c] = [Idle EXCEPT !.pc = "flush", !.list = l,
                                                        !.rescore = again, !.th = th,
                                                        !.loaded = lists[l].th]]
    BY Zenon DEF Begin
  <1> DEFINE t == [Idle EXCEPT !.pc = "flush", !.list = l, !.rescore = again, !.th = th,
                               !.loaded = lists[l].th]
  <1>2. th \in Ths /\ lists[l].th \in Ths
    BY DEF CrunchInv, CrunchTypeOK, StoredLists, Ths
  <1>3. /\ Idle \in Runs /\ Idle.task = <<>> /\ Idle.rows = <<>>
        /\ DOMAIN Idle.task = {} /\ DOMAIN Idle.rows = {}
    BY IdleIsGood, Empty DEF GoodRun
  <1>4. /\ t \in Runs /\ t.pc = "flush" /\ t.list = l /\ t.th = th
        /\ t.task = Idle.task /\ t.rows = Idle.rows
    BY <1>2, <1>3 DEF Runs
  <1>5. GoodRun(c, t)
    BY <1>3, <1>4 DEF GoodRun
  <1>6. matchCache' \in [Channels \X Gtins -> {"found", "none", "error", NoMatch}]
    BY DEF Begin, CrunchInv, CrunchTypeOK
  <1> HIDE DEF t
  <1> QED
    BY <1>1, <1>5, <1>6, CrunchFrame DEF Begin, t

LEMMA AbandonStep ==
    ASSUME CrunchInv, NEW c \in Crunches, Abandon(c)
    PROVE  CrunchInv'
  <1>1. matchCache' \in [Channels \X Gtins -> {"found", "none", "error", NoMatch}]
    BY DEF Abandon, CrunchInv, CrunchTypeOK
  <1> QED
    BY <1>1, IdleIsGood, CrunchFrame DEF Abandon

(* The tasks of a crunch cover the rows that are scored.                   *)
LEMMA FlushStep ==
    ASSUME CrunchInv, NEW c \in Crunches, Flush(c)
    PROVE  CrunchInv'
  <1> DEFINE l == crunch[c].list
             new == TasksOf(l, crunch[c].rescore)
             t == [crunch[c] EXCEPT !.pc = "run", !.task = new]
             D == {r \in RowsOf(l) : rows[r].status \in {"pending", "scored"}} \X Channels
  <1>1. crunch \in [Crunches -> Runs] /\ crunch[c] \in Runs /\ rows \in [Rows -> StoredRows]
    BY DEF CrunchInv, CrunchTypeOK, Runs, Tasks
  <1>2. crunch' = [crunch EXCEPT ![c] = t]
    BY DEF Flush
  <1>3. DOMAIN new = D /\ D \subseteq Rows \X Channels
    BY DEF TasksOf, RowsOf
  <1>4. \A r \in Rows : Stored(r) \in [Channels -> Matches]
    BY <1>1 DEF Stored, StoredRows, Match, Matches
  <1>5. new \in [D -> Tasks]
    <2>1. ASSUME NEW k \in D
          PROVE  /\ [pc |-> "done", match |-> Stored(k[1])[k[2]]] \in Tasks
                 /\ [pc |-> "cache", match |-> Match("none", FALSE)] \in Tasks
      <3>1. k[1] \in Rows /\ k[2] \in Channels
        BY <1>3
      <3>2. Stored(k[1])[k[2]] \in Matches /\ Match("none", FALSE) \in Matches
        BY <3>1, <1>4 DEF Match, Matches
      <3> QED
        BY <3>2 DEF Tasks
    <2> QED
      BY <2>1 DEF TasksOf
  <1>6. new \in SomeOf(Rows \X Channels, Tasks)
    BY <1>3, <1>5, SomeOfTyped
  <1>7. t \in Runs
    BY <1>1, <1>6 DEF Runs
  <1>8. /\ t.task = new /\ t.rows = crunch[c].rows /\ t.pc = "run"
        /\ t.list = l /\ t.th = crunch[c].th
    BY <1>1 DEF Runs
  <1>9. \A k \in D : ListOf[k[1]] = l /\ GtinOf[k[1]] # NoGtin
    BY DEF RowsOf, CrunchInv, RowsMatchable
  <1>10. \A r \in Rows : ListOf[r] = l /\ rows[r].status = "scored" =>
             \A ch \in Channels : <<r, ch>> \in D
    BY DEF RowsOf
  <1>11. \A d \in Crunches \ {c} : crunch[d].pc = "run" => crunch[d].list # l
    BY DEF Flush
  <1> HIDE DEF new, D
  <1>12. GoodRun(c, t)
    BY <1>3, <1>7, <1>8, <1>9, <1>10, <1>11, RunIsGood DEF GoodRun
  <1>13. matchCache' \in [Channels \X Gtins -> {"found", "none", "error", NoMatch}]
    BY DEF Flush, CrunchInv, CrunchTypeOK
  <1> HIDE DEF t
  <1> QED
    BY <1>2, <1>12, <1>13, CrunchFrame DEF Flush

LEMMA ScoreRowStep ==
    ASSUME CrunchInv, NEW c \in Crunches, NEW r \in Rows, ScoreRow(c, r)
    PROVE  CrunchInv'
  <1> DEFINE match == [ch \in Channels |-> crunch[c].task[<<r, ch>>].match]
             fresh == {ch \in Channels : match[ch].said = "found" /\ ~match[ch].cached}
             row == [status |-> "scored", match |-> match, th |-> crunch[c].th]
             put == crunch[c].rows
             newrows == [x \in DOMAIN put \cup {r} |-> IF x = r THEN row ELSE put[x]]
             newsnaps == IF fresh = {} THEN crunch[c].snaps
                         ELSE crunch[c].snaps \cup {IF crunch[c].rescore THEN "replayed" ELSE "live"}
             t == [crunch[c] EXCEPT !.rows = newrows, !.snaps = newsnaps]
  <1>1. crunch \in [Crunches -> Runs] /\ crunch[c] \in Runs
    BY DEF CrunchInv, CrunchTypeOK, Runs, Tasks
  <1>2. crunch' = [crunch EXCEPT ![c] = t]
    BY DEF ScoreRow
  <1>3. \A ch \in Channels : <<r, ch>> \in DOMAIN crunch[c].task
    BY DEF ScoreRow, Task
  <1>4. match \in [Channels -> Matches]
    BY <1>3, KeyTyped DEF Tasks
  <1>5. row \in StoredRows
    BY <1>1, <1>4 DEF StoredRows, Runs
  <1>6. DOMAIN put \subseteq Rows /\ \A x \in DOMAIN put : put[x] \in StoredRows
    BY <1>1, SomeOfAt DEF Runs
  <1>7. newrows \in [DOMAIN put \cup {r} -> StoredRows]
    BY <1>5, <1>6
  <1>8. newrows \in SomeOf(Rows, StoredRows)
    BY <1>6, <1>7, SomeOfTyped
  <1>9. newsnaps \in SUBSET {"live", "replayed"}
    BY <1>1 DEF Runs
  <1>10. t \in Runs
    <2> HIDE DEF newrows, newsnaps
    <2> QED
      BY <1>1, <1>8, <1>9 DEF Runs
  <1>11. /\ t.task = crunch[c].task /\ t.rows = newrows /\ t.pc = crunch[c].pc
         /\ t.list = crunch[c].list /\ t.th = crunch[c].th
    BY <1>1 DEF Runs
  <1>12. ListOf[r] = crunch[c].list /\ GtinOf[r] # NoGtin
    <2>1. PICK ch \in Channels : TRUE
      BY CrunchAssumption
    <2> QED
      BY <2>1, <1>3 DEF CrunchInv, WritesOwnRows
  <1>13. \A x \in DOMAIN newrows :
            ListOf[x] = crunch[c].list /\ GtinOf[x] # NoGtin /\ newrows[x].th = crunch[c].th
    BY <1>12 DEF CrunchInv, WritesOwnRows
  <1> HIDE DEF newrows, newsnaps
  <1>14. GoodRun(c, t)
    BY <1>10, <1>11, <1>13, RunIsGood DEF GoodRun
  <1>15. matchCache' \in [Channels \X Gtins -> {"found", "none", "error", NoMatch}]
    BY DEF ScoreRow, CrunchInv, CrunchTypeOK
  <1> HIDE DEF t
  <1> QED
    BY <1>2, <1>14, <1>15, CrunchFrame DEF ScoreRow

-----------------------------------------------------------------------------
(* The commit: what the crunch did not write was not scored.               *)
LEMMA FinishStep ==
    ASSUME CrunchInv, NEW c \in Crunches, Finish(c)
    PROVE  CrunchInv'
  <1> DEFINE l == crunch[c].list
             put == crunch[c].rows
  <1> USE DEF CrunchInv
  <1>1. crunch \in [Crunches -> Runs] /\ crunch[c] \in Runs /\ rows \in [Rows -> StoredRows]
    BY DEF CrunchTypeOK, Runs, Tasks
  <1>2. l \in Lists /\ crunch[c].th \in Ths /\ crunch[c].snaps \subseteq {"live", "replayed"}
    BY <1>1 DEF Runs
  <1>3. DOMAIN put \subseteq Rows /\ \A x \in DOMAIN put : put[x] \in StoredRows
    BY <1>1, SomeOfAt DEF Runs
  <1> DEFINE done == [status |-> "complete", th |-> WrittenTh(c),
                      overtaken |-> lists[l].th # crunch[c].loaded]
  <1>4. /\ lists' = [lists EXCEPT ![l] = done]
        /\ rows' = With(put) /\ crunch' = [crunch EXCEPT ![c] = Idle]
        /\ matchCache' = matchCache /\ snapshot' = snapshot \cup crunch[c].snaps
    BY DEF Finish
  <1>5. \A r \in Rows : rows'[r] = IF r \in DOMAIN put THEN put[r] ELSE rows[r]
    BY <1>4 DEF With
  <1>6. GoodRun(c, Idle)
    BY <1>2, IdleIsGood
  <1>7. /\ crunch' \in [Crunches -> Runs] /\ crunch'[c] = Idle
        /\ \A d \in Crunches \ {c} : crunch'[d] = crunch[d]
    BY <1>1, <1>4, <1>6 DEF GoodRun
  <1>8. \A r \in DOMAIN put : ListOf[r] = l /\ GtinOf[r] # NoGtin /\ put[r].th = crunch[c].th
    BY DEF WritesOwnRows
  <1>9. CrunchTypeOK'
    <2>1. rows' \in [Rows -> StoredRows]
      BY <1>1, <1>3, <1>4 DEF With
    <2>2. done \in StoredLists
      BY <1>1, <1>2 DEF CrunchTypeOK, StoredLists, WrittenTh
    <2> HIDE DEF done
    <2>3. lists' \in [Lists -> StoredLists]
      BY <1>2, <1>4, <2>2 DEF CrunchTypeOK
    <2> QED
      BY <1>2, <1>4, <1>7, <2>1, <2>3 DEF CrunchTypeOK, Runs, Tasks
  <1>10. RowsMatchable'
    BY <1>5, <1>8 DEF RowsMatchable
  <1>11. Idle.pc = "idle"
    BY IdleIsGood
  <1>12. RunsAlone'
    BY <1>7, <1>11 DEF RunsAlone
  <1>13. WritesOwnRows'
    BY <1>6, <1>7 DEF WritesOwnRows, GoodRun
  <1>14. LeavesNoRowOut'
    <2> SUFFICES ASSUME NEW d \in Crunches \ {c}, crunch[d].pc = "run",
                        NEW r \in Rows, ListOf[r] = crunch[d].list, rows'[r].status = "scored"
                 PROVE  \A ch \in Channels : <<r, ch>> \in DOMAIN crunch[d].task
      BY <1>7, <1>11 DEF LeavesNoRowOut
    <2>1. crunch[d].list # l
      BY DEF RunsAlone, Finish
    <2>2. rows'[r] = rows[r]
      BY <2>1, <1>5, <1>8
    <2> QED
      BY <2>2 DEF LeavesNoRowOut
  <1>15. /\ lists'[l] = done /\ \A k \in Lists \ {l} : lists'[k] = lists[k]
         /\ done.overtaken \/ done.th = crunch[c].th
    BY <1>2, <1>4 DEF CrunchTypeOK, WrittenTh
  <1> HIDE DEF done
  <1>16. ASSUME NEW r \in RowsOf(l), rows'[r].status = "scored"
         PROVE  rows'[r].th = crunch[c].th
    <2>1. r \in Rows /\ ListOf[r] = l
      BY DEF RowsOf
    <2>2. r \in DOMAIN put
      <3> SUFFICES ASSUME r \notin DOMAIN put PROVE FALSE
        OBVIOUS
      <3>1. rows[r].status = "scored"
        BY <1>5, <1>16, <2>1
      <3>2. PICK ch \in Channels : <<r, ch>> \in DOMAIN crunch[c].task
        BY <2>1, <3>1, CrunchAssumption DEF LeavesNoRowOut, Finish
      <3> QED
        BY <3>2 DEF Finish
    <2> QED
      BY <2>1, <2>2, <1>5, <1>8
  <1>17. ASSUME NEW r \in Rows, ListOf[r] # l PROVE rows'[r] = rows[r]
    BY <1>5, <1>8, <1>17
  <1>18. ScoresShareThresholds'
    <2> SUFFICES ASSUME NEW r \in Rows, lists'[ListOf[r]].status = "complete",
                        rows'[r].status = "scored"
                 PROVE  /\ \A q \in RowsOf(ListOf[r]) :
                              rows'[q].status = "scored" => rows'[q].th = rows'[r].th
                        /\ lists'[ListOf[r]].overtaken \/ rows'[r].th = lists'[ListOf[r]].th
      BY DEF ScoresShareThresholds, RowsOf
    <2>1. ListOf[r] \in Lists /\ r \in RowsOf(ListOf[r])
      BY CrunchAssumption DEF RowsOf
    <2>2. CASE ListOf[r] = l
      BY <2>1, <2>2, <1>15, <1>16
    <2>3. CASE ListOf[r] # l
      <3>1. lists'[ListOf[r]] = lists[ListOf[r]] /\ rows'[r] = rows[r]
        BY <2>1, <2>3, <1>15, <1>17
      <3>2. \A q \in RowsOf(ListOf[r]) : rows'[q] = rows[q]
        BY <2>3, <1>17 DEF RowsOf
      <3> QED
        BY <3>1, <3>2 DEF ScoresShareThresholds
    <2> QED
      BY <2>2, <2>3
  <1> QED
    BY <1>9, <1>10, <1>12, <1>13, <1>14, <1>18

LEMMA CreateStep ==
    ASSUME CrunchInv, NEW l \in Lists, CreateList(l)
    PROVE  CrunchInv'
  <1> USE DEF CrunchInv
  <1>1. PICK th \in Thresholds :
          lists' = [lists EXCEPT ![l] = [status |-> "ingested", th |-> th, overtaken |-> FALSE]]
    BY DEF CreateList
  <1>2. rows' = [r \in Rows |-> IF ListOf[r] # l THEN rows[r] ELSE
                  [rows[r] EXCEPT !.status = IF GtinOf[r] = NoGtin THEN "skipped" ELSE "pending"]]
        /\ UNCHANGED <<matchCache, crunch, snapshot>>
    BY DEF CreateList
  <1>3. rows \in [Rows -> StoredRows] /\ rows' \in [Rows -> StoredRows]
    BY <1>2 DEF CrunchTypeOK, StoredRows
  <1>4. /\ lists' \in [Lists -> StoredLists]
        /\ lists'[l].status = "ingested" /\ \A k \in Lists \ {l} : lists'[k] = lists[k]
    BY <1>1 DEF CrunchTypeOK, StoredLists, Ths
  <1>5. \A r \in Rows : /\ ListOf[r] # l => rows'[r] = rows[r]
                        /\ ListOf[r] = l => rows'[r].status = IF GtinOf[r] = NoGtin THEN "skipped"
                                                              ELSE "pending"
    BY <1>2, <1>3 DEF StoredRows
  <1>6. CrunchTypeOK'
    BY <1>2, <1>3, <1>4 DEF CrunchTypeOK
  <1>7. RowsMatchable'
    BY <1>5 DEF RowsMatchable
  <1>8. RunsAlone' /\ WritesOwnRows'
    BY <1>2 DEF RunsAlone, WritesOwnRows
  <1>9. LeavesNoRowOut'
    BY <1>2, <1>5 DEF LeavesNoRowOut
  <1>10. ScoresShareThresholds'
    BY <1>4, <1>5, CrunchAssumption DEF ScoresShareThresholds, RowsOf
  <1> QED
    BY <1>6, <1>7, <1>8, <1>9, <1>10

LEMMA DeleteStep ==
    ASSUME CrunchInv, NEW l \in Lists, DeleteList(l)
    PROVE  CrunchInv'
  <1> USE DEF CrunchInv
  <1>1. /\ lists' = [lists EXCEPT ![l] = [status |-> "deleted", th |-> NoTh, overtaken |-> FALSE]]
        /\ rows' = [r \in Rows |-> IF ListOf[r] # l THEN rows[r]
                                   ELSE [status |-> "absent", match |-> NoMatch, th |-> NoTh]]
        /\ UNCHANGED <<matchCache, crunch, snapshot>>
    BY DEF DeleteList
  <1>2. rows' \in [Rows -> StoredRows]
    BY <1>1 DEF CrunchTypeOK, StoredRows, Ths
  <1>3. /\ lists' \in [Lists -> StoredLists]
        /\ lists'[l].status = "deleted" /\ \A k \in Lists \ {l} : lists'[k] = lists[k]
    BY <1>1 DEF CrunchTypeOK, StoredLists, Ths
  <1>4. \A r \in Rows : rows'[r] = rows[r] \/ rows'[r].status = "absent"
    BY <1>1
  <1>5. CrunchTypeOK'
    BY <1>1, <1>2, <1>3 DEF CrunchTypeOK
  <1>6. RowsMatchable' /\ LeavesNoRowOut'
    BY <1>1, <1>4 DEF RowsMatchable, LeavesNoRowOut
  <1>7. RunsAlone' /\ WritesOwnRows'
    BY <1>1 DEF RunsAlone, WritesOwnRows
  <1>8. ScoresShareThresholds'
    BY <1>3, <1>4, CrunchAssumption DEF ScoresShareThresholds, RowsOf
  <1> QED
    BY <1>5, <1>6, <1>7, <1>8

LEMMA ExpireStep ==
    ASSUME CrunchInv, NEW k \in Channels \X Gtins, Expire(k)
    PROVE  CrunchInv'
  <1>1. matchCache' \in [Channels \X Gtins -> {"found", "none", "error", NoMatch}]
    BY DEF Expire, CrunchInv, CrunchTypeOK
  <1>2. CrunchTypeOK'
    BY <1>1 DEF Expire, CrunchInv, CrunchTypeOK
  <1> QED
    BY <1>2 DEF Expire, CrunchInv, RowsMatchable, RunsAlone, WritesOwnRows,
                LeavesNoRowOut, ScoresShareThresholds

LEMMA CrunchInitially == CrunchInit => CrunchInv
  <1> SUFFICES ASSUME CrunchInit PROVE CrunchInv
    OBVIOUS
  <1>1. rows \in [Rows -> StoredRows] /\ \A r \in Rows : rows[r].status = "absent"
    BY DEF CrunchInit, StoredRows, Ths
  <1>2. \A c \in Crunches : crunch[c] = Idle /\ GoodRun(c, Idle) /\ Idle.pc = "idle"
    BY IdleIsGood DEF CrunchInit
  <1>3. crunch \in [Crunches -> Runs]
    BY <1>2 DEF CrunchInit, GoodRun
  <1>4. matchCache \in [Channels \X Gtins -> {"found", "none", "error", NoMatch}]
    BY DEF CrunchInit
  <1>5. lists \in [Lists -> StoredLists]
    BY DEF CrunchInit, StoredLists, Ths
  <1>6. CrunchTypeOK
    BY <1>1, <1>3, <1>4, <1>5 DEF CrunchTypeOK, Runs, Tasks, CrunchInit
  <1>7. RowsMatchable /\ ScoresShareThresholds
    BY <1>1 DEF RowsMatchable, ScoresShareThresholds, RowsOf
  <1>8. RunsAlone /\ LeavesNoRowOut
    BY <1>2 DEF RunsAlone, LeavesNoRowOut
  <1>9. WritesOwnRows
    BY <1>2 DEF WritesOwnRows, GoodRun
  <1> QED
    BY <1>6, <1>7, <1>8, <1>9 DEF CrunchInv

LEMMA CrunchStutters ==
    ASSUME CrunchInv, UNCHANGED crunchVars
    PROVE  CrunchInv'
  <1>1. CrunchTypeOK' /\ RowsMatchable' /\ RunsAlone'
    BY DEF crunchVars, CrunchInv, CrunchTypeOK, RowsMatchable, RunsAlone
  <1>2. WritesOwnRows' /\ LeavesNoRowOut'
    BY DEF crunchVars, CrunchInv, WritesOwnRows, LeavesNoRowOut
  <1>3. ScoresShareThresholds'
    BY DEF crunchVars, CrunchInv, ScoresShareThresholds
  <1> QED
    BY <1>1, <1>2, <1>3 DEF CrunchInv

LEMMA CrunchSafe == CrunchSpec => []CrunchInv
  <1>1. CrunchInv /\ [CrunchNext]_crunchVars => CrunchInv'
    <2> SUFFICES ASSUME CrunchInv, [CrunchNext]_crunchVars PROVE CrunchInv'
      OBVIOUS
    <2>1. CASE \E l \in Lists : CreateList(l) \/ DeleteList(l) \/ \E c \in Crunches : Begin(c, l)
      BY <2>1, CreateStep, DeleteStep, BeginStep
    <2>2. ASSUME NEW c \in Crunches,
                 \/ Flush(c) \/ Finish(c) \/ Abandon(c)
                 \/ \E r \in Rows : ScoreRow(c, r)
                 \/ \E k \in DOMAIN crunch[c].task :
                       CacheGet(c, k) \/ Acquire(c, k) \/ LookUp(c, k) \/ CacheSet(c, k)
          PROVE  CrunchInv'
      BY <2>2, FlushStep, FinishStep, AbandonStep, ScoreRowStep, TaskSteps
    <2>3. CASE \E k \in Channels \X Gtins : Expire(k)
      BY <2>3, ExpireStep
    <2>4. CASE UNCHANGED crunchVars
      BY <2>4, CrunchStutters
    <2> QED
      BY <2>1, <2>2, <2>3, <2>4 DEF CrunchNext
  <1> QED
    BY <1>1, CrunchInitially, PTL DEF CrunchSpec

(* Every variable of the crunch service keeps its type.                    *)
THEOREM CrunchTypes == CrunchSpec => []CrunchTypeOK
  BY CrunchSafe, PTL DEF CrunchInv

(* Any number of crunches and rescores of any number of lists overlap, are *)
(* abandoned and lose their list: the scored rows of a complete list share *)
(* the thresholds they were scored with, and those are the list's unless   *)
(* it was changed between the last crunch's reading it and its lock.       *)
(* Needed beside the types: the list's row lock lets one crunch run at a   *)
(* time, and its tasks leave out no row scored before.                     *)
THEOREM ScoresShareTheirThresholds == CrunchSpec => []ScoresShareThresholds
  BY CrunchSafe, PTL DEF CrunchInv

(***************************************************************************)
(* SourcingVerdict                                                         *)
(***************************************************************************)

LEMMA MaxOfTwo ==
    ASSUME NEW a \in Int, NEW b \in Int
    PROVE  Max({a, b}) = IF a >= b THEN a ELSE b
  <1> DEFINE m == IF a >= b THEN a ELSE b
  <1>1. m \in {a, b} /\ \A y \in {a, b} : m >= y
    OBVIOUS
  <1>2. \A x \in {a, b} : (\A y \in {a, b} : x >= y) => x = m
    OBVIOUS
  <1> HIDE DEF m
  <1>3. (CHOOSE x \in {a, b} : \A y \in {a, b} : x >= y) = m
    BY <1>1, <1>2
  <1> QED
    BY <1>3 DEF Max, m

LEMMA MinOfTwo ==
    ASSUME NEW a \in Int, NEW b \in Int
    PROVE  Min({a, b}) = IF a <= b THEN a ELSE b
  <1> DEFINE m == IF a <= b THEN a ELSE b
  <1>1. m \in {a, b} /\ \A y \in {a, b} : m <= y
    OBVIOUS
  <1>2. \A x \in {a, b} : (\A y \in {a, b} : x <= y) => x = m
    OBVIOUS
  <1> HIDE DEF m
  <1>3. (CHOOSE x \in {a, b} : \A y \in {a, b} : x <= y) = m
    BY <1>1, <1>2
  <1> QED
    BY <1>3 DEF Min, m

LEMMA ClampMonotone ==
    ASSUME NEW lo \in Int, NEW hi \in Int, NEW a \in Int, NEW b \in Int, a <= b
    PROVE  Clamp(lo, a, hi) <= Clamp(lo, b, hi) /\ Clamp(lo, a, hi) \in Int
  <1>1. /\ Min({a, hi}) = IF a <= hi THEN a ELSE hi
        /\ Min({b, hi}) = IF b <= hi THEN b ELSE hi
    BY MinOfTwo
  <1>2. Min({a, hi}) \in Int /\ Min({b, hi}) \in Int /\ Min({a, hi}) <= Min({b, hi})
    BY <1>1
  <1>3. /\ Max({lo, Min({a, hi})}) = IF lo >= Min({a, hi}) THEN lo ELSE Min({a, hi})
        /\ Max({lo, Min({b, hi})}) = IF lo >= Min({b, hi}) THEN lo ELSE Min({b, hi})
    BY <1>2, MaxOfTwo
  <1> QED
    BY <1>2, <1>3 DEF Clamp

(* A quotient, rounded half up, falls with its divisor.                    *)
LEMMA RoundedFalls ==
    ASSUME NEW a \in Nat, NEW b \in Nat \ {0}, NEW c \in Nat \ {0}, b <= c
    PROVE  Rounded(a, c) <= Rounded(a, b)
  <1> DEFINE q == (2 * a + b) \div (2 * b)
             r == (2 * a + c) \div (2 * c)
  <1>1. q \in Nat /\ 2 * a + b < 2 * b * (q + 1)
    OBVIOUS
  <1>2. r \in Nat /\ 2 * c * r <= 2 * a + c
    OBVIOUS
  <1> HIDE DEF q, r
  <1>3. SUFFICES ASSUME r >= q + 1 PROVE FALSE
    BY <1>1, <1>2 DEF Rounded, q, r
  <1>4. 2 * c * (q + 1) <= 2 * c * r
    BY <1>1, <1>2, <1>3
  <1>5. c * (2 * q + 1) <= 2 * a
    BY <1>1, <1>2, <1>4
  <1>6. 2 * a < b * (2 * q + 1)
    BY <1>1
  <1>7. b * (2 * q + 1) <= c * (2 * q + 1)
    BY <1>1
  <1> QED
    BY <1>1, <1>5, <1>6, <1>7

LEMMA RoundedTyped ==
    ASSUME NEW a \in Int, NEW b \in Nat \ {0}
    PROVE  Rounded(a, b) \in Int
  BY DEF Rounded

(* Of a gain, a shorter lead time never makes less in a year.              *)
LEMMA AnnualFalls ==
    ASSUME NEW roi \in Int, NEW days \in Nat \ {0}, NEW tight \in Int, NEW loose \in Int,
           loose <= tight, roi >= 0 \/ loose = tight
    PROVE  /\ AnnualizedRoi(roi, days, tight) <= AnnualizedRoi(roi, days, loose)
           /\ AnnualizedRoi(roi, days, tight) \in Int /\ AnnualizedRoi(roi, days, loose) \in Int
  <1> DEFINE b == days + Max({0, loose})
             c == days + Max({0, tight})
             rb == Rounded(roi * 3650, b)
             rc == Rounded(roi * 3650, c)
  <1>1. b \in Nat \ {0} /\ c \in Nat \ {0} /\ b <= c
    BY MaxOfTwo
  <1>2. rb \in Int /\ rc \in Int
    BY <1>1, RoundedTyped
  <1>3. rc <= rb
    <2>1. CASE roi >= 0
      BY <2>1, <1>1, RoundedFalls
    <2>2. CASE loose = tight
      BY <2>2, <1>2
    <2> QED
      BY <2>1, <2>2
  <1>4. days # None
    BY DEF None
  <1>5. MaxAnnualizedRoi \in Int /\ -MaxAnnualizedRoi \in Int
    BY SMT DEF MaxAnnualizedRoi
  <1>6. /\ AnnualizedRoi(roi, days, loose) = Clamp(-MaxAnnualizedRoi, rb, MaxAnnualizedRoi)
        /\ AnnualizedRoi(roi, days, tight) = Clamp(-MaxAnnualizedRoi, rc, MaxAnnualizedRoi)
    BY <1>4 DEF AnnualizedRoi
  <1> HIDE DEF b, c, rb, rc
  <1> QED
    BY <1>2, <1>3, <1>5, <1>6, ClampMonotone

LEMMA OfferTyped ==
    ASSUME NEW offer \in Offers
    PROVE  /\ offer.roi \in Int /\ offer.net \in Int /\ offer.margin \in Int
           /\ offer.buyCost \in Int /\ offer.sellers \in Int /\ offer.lead \in Int
           /\ offer.prices \in Int /\ offer.units \in Int /\ UnitShare(offer) \in Int
  <1>1. /\ Nets \subseteq Int /\ Rois \subseteq Int /\ Shares \subseteq Int
        /\ Sellers \subseteq Int /\ OrderUnits \subseteq Int
    BY VerdictAssumption
  <1>2. /\ offer.net \in Nets /\ offer.roi \in Rois /\ offer.sellers \in Sellers
        /\ offer.sales \in Shares /\ offer.units \in OrderUnits
    BY DEF Offers
  <1>3. /\ offer.margin \in Int /\ offer.buyCost \in Int /\ offer.lead \in Int
        /\ offer.prices \in Int
    <2>1. offer.margin \in {1200} /\ offer.prices \in {2, 5}
      BY SMT DEF Offers
    <2>2. offer.buyCost \in {None, 50000}
      BY SMT DEF Offers
    <2>3. offer.lead \in {None, 40}
      BY SMT DEF Offers
    <2> QED
      BY <2>1, <2>2, <2>3, SMT DEF None
  <1>4. /\ offer.net \in Int /\ offer.roi \in Int /\ offer.sellers \in Int
        /\ offer.sales \in Int /\ offer.units \in Int
    BY <1>1, <1>2
  <1>5. Max({0, offer.sellers}) \in Nat
    BY <1>4, MaxOfTwo
  <1>6. Rounded(offer.sales, Max({0, offer.sellers}) + 1) \in Int
    BY <1>4, <1>5, RoundedTyped
  <1>7. UnitShare(offer) \in Int
    BY <1>4, <1>6 DEF UnitShare, None
  <1> QED
    BY <1>3, <1>4, <1>7

LEMMA DaysTyped ==
    ASSUME NEW units \in Int, NEW share \in Int
    PROVE  SellThroughDays(units, share) = None \/ SellThroughDays(units, share) \in Nat \ {0}
  <1>1. CASE units <= 0 \/ share <= 0
    BY <1>1 DEF SellThroughDays
  <1>2. CASE ~(units <= 0 \/ share <= 0)
    <2>1. Rounded(units * 3000, share) \in Int
      BY <1>2, RoundedTyped
    <2>2. Max({10, Rounded(units * 3000, share)}) \in Nat \ {0}
      BY <2>1, MaxOfTwo
    <2> QED
      BY <1>2, <2>2 DEF SellThroughDays
  <1> QED
    BY <1>1, <1>2

(* What fails a row for good also fails it with tighter thresholds.        *)
LEMMA HardFailsTighter ==
    ASSUME NEW offer \in Offers, NEW tight \in BuyBoxes, NEW loose \in BuyBoxes,
           Looser(tight, loose), loose.minRoi >= 0 \/ loose.lead = tight.lead,
           HardFails(offer, loose)
    PROVE  HardFails(offer, tight)
  <1> DEFINE share == UnitShare(offer)
             days == SellThroughDays(offer.units, share)
             lead(th) == IF offer.lead # None THEN offer.lead ELSE th.lead
             annual(th) == AnnualizedRoi(offer.roi, days, lead(th))
             margin(th) == th.minMargin # None /\ offer.margin < th.minMargin
             capital(th) == /\ th.maxCapital # None /\ offer.buyCost # None
                            /\ offer.buyCost > th.maxCapital
             sellers(th) == th.maxSellers # None /\ offer.sellers > th.maxSellers
             demand(th) == /\ share # None /\ offer.confidence \in Actionable
                           /\ share < th.minShare
             slow(th) == days # None /\ th.maxDays # None /\ days > th.maxDays
             yearly(th) == days # None /\ th.minAnnual # None /\ annual(th) < th.minAnnual
             unstable(th) == th.stability /\ offer.prices >= 3 /\ ~offer.stable
  <1>1. \A th \in {tight, loose} :
           HardFails(offer, th) <=>
             \/ offer.net < th.minNet \/ offer.roi < th.minRoi
             \/ margin(th) \/ capital(th) \/ sellers(th) \/ demand(th)
             \/ slow(th) \/ yearly(th) \/ unstable(th)
    BY DEF HardFails
  <1>2. /\ offer.roi \in Int /\ offer.net \in Int /\ offer.margin \in Int
        /\ offer.buyCost \in Int /\ offer.sellers \in Int /\ offer.lead \in Int /\ share \in Int
    BY OfferTyped
  <1>3. days = None \/ days \in Nat \ {0}
    BY OfferTyped, DaysTyped
  <1>4. ASSUME NEW th \in {tight, loose}
        PROVE  /\ th.minNet \in Int /\ th.minRoi \in Int /\ th.minMargin \in Int
               /\ th.maxCapital \in Int /\ th.maxSellers \in Int /\ th.minShare \in Int
               /\ th.maxDays \in Int /\ th.minAnnual \in Int /\ th.lead \in Int
    BY DEF BuyBoxes
  <1>5. /\ tight.minNet >= loose.minNet /\ tight.minRoi >= loose.minRoi
        /\ tight.minShare >= loose.minShare /\ tight.lead >= loose.lead
        /\ AtLeast(tight.minMargin, loose.minMargin) /\ AtLeast(tight.minAnnual, loose.minAnnual)
        /\ AtMost(tight.maxCapital, loose.maxCapital) /\ AtMost(tight.maxSellers, loose.maxSellers)
        /\ AtMost(tight.maxDays, loose.maxDays)
        /\ loose.stability => tight.stability
    BY DEF Looser
  <1>6. margin(loose) => margin(tight)
    BY <1>2, <1>4, <1>5 DEF AtLeast, None
  <1>7. capital(loose) => capital(tight)
    BY <1>2, <1>4, <1>5 DEF AtMost, None
  <1>8. sellers(loose) => sellers(tight)
    BY <1>2, <1>4, <1>5 DEF AtMost, None
  <1>9. demand(loose) => demand(tight)
    BY <1>2, <1>4, <1>5
  <1>10. slow(loose) => slow(tight)
    BY <1>3, <1>4, <1>5 DEF AtMost, None
  <1>11. yearly(loose) => yearly(tight) \/ offer.roi < loose.minRoi
    <2> SUFFICES ASSUME yearly(loose), ~(offer.roi < loose.minRoi) PROVE yearly(tight)
      OBVIOUS
    <2>1. /\ lead(loose) \in Int /\ lead(tight) \in Int /\ lead(loose) <= lead(tight)
          /\ loose.lead = tight.lead => lead(loose) = lead(tight)
      BY <1>2, <1>4, <1>5
    <2>2. offer.roi >= 0 \/ lead(loose) = lead(tight)
      BY <2>1, <1>2, <1>4
    <2>3. days \in Nat \ {0}
      BY <1>3
    <2> HIDE DEF days, lead
    <2>4. annual(tight) <= annual(loose) /\ annual(tight) \in Int /\ annual(loose) \in Int
      BY <2>1, <2>2, <2>3, <1>2, AnnualFalls
    <2> HIDE DEF annual
    <2>5. annual(loose) < loose.minAnnual /\ loose.minAnnual # None
      OBVIOUS
    <2>6. tight.minAnnual # None /\ loose.minAnnual <= tight.minAnnual
      BY <2>5, <1>4, <1>5 DEF AtLeast
    <2> QED
      BY <2>4, <2>5, <2>6, <1>4
  <1>12. unstable(loose) => unstable(tight)
    BY <1>5
  <1>13. /\ offer.net < loose.minNet => offer.net < tight.minNet
         /\ offer.roi < loose.minRoi => offer.roi < tight.minRoi
    BY <1>2, <1>4, <1>5
  <1> HIDE DEF margin, capital, sellers, demand, slow, yearly, unstable
  <1> QED
    BY <1>1, <1>6, <1>7, <1>8, <1>9, <1>10, <1>11, <1>12, <1>13

(* The verdicts of one offer with two comparable sets of thresholds.       *)
LEMMA VerdictTighter ==
    ASSUME NEW offer \in Offers, NEW tight \in BuyBoxes, NEW loose \in BuyBoxes,
           Looser(tight, loose), loose.minRoi >= 0 \/ loose.lead = tight.lead
    PROVE  Tier[ScoreVerdict(offer, tight)] <= Tier[ScoreVerdict(offer, loose)]
  <1>1. HardFails(offer, loose) => HardFails(offer, tight)
    BY HardFailsTighter
  <1>2. SoftFlags(offer, loose) => SoftFlags(offer, tight)
    BY DEF SoftFlags, Looser
  <1>3. loose.listing => tight.listing
    BY DEF Looser
  <1>4. Tier["pass"] = 2 /\ Tier["watch"] = 1 /\ Tier["fail"] = 0
    BY DEF Tier
  <1> QED
    BY <1>1, <1>2, <1>3, <1>4 DEF ScoreVerdict

ScoredTwice ==
    (verdict # Blank /\ verdict.kind = "row") =>
        \E offer \in Offers, pair \in Comparable :
            verdict = [kind |-> "row", offer |-> offer, tight |-> pair[1], loose |-> pair[2],
                       was |-> ScoreVerdict(offer, pair[1]), is |-> ScoreVerdict(offer, pair[2])]

LEMMA TwiceSafe == VerdictSpec => []ScoredTwice
  <1>1. VerdictInit => ScoredTwice
    BY DEF VerdictInit, ScoredTwice
  <1>2. ScoredTwice /\ [VerdictNext]_verdictVars => ScoredTwice'
    <2> SUFFICES ASSUME ScoredTwice, [VerdictNext]_verdictVars PROVE ScoredTwice'
      OBVIOUS
    <2>1. CASE ScoreTwice
      BY <2>1 DEF ScoreTwice, ScoredTwice
    <2>2. CASE RankList
      <3>1. verdict'.kind = "list"
        BY <2>2 DEF RankList
      <3> QED
        BY <3>1 DEF ScoredTwice
    <2>3. CASE UNCHANGED verdictVars
      BY <2>3 DEF verdictVars, ScoredTwice
    <2> QED
      BY <2>1, <2>2, <2>3 DEF VerdictNext
  <1> QED
    BY <1>1, <1>2, PTL DEF VerdictSpec

(* Whatever thresholds are compared: a row scored again with thresholds    *)
(* that are nowhere stricter never gets a worse verdict, unless a bar      *)
(* below 0 lets losses in and the lead time is shorter.                    *)
THEOREM LooserIsNeverWorse == VerdictSpec => []LooserNeverWorse
  <1>1. ScoredTwice => LooserNeverWorse
    <2> SUFFICES ASSUME ScoredTwice, verdict # Blank, verdict.kind = "row",
                        verdict.loose.minRoi >= 0 \/ verdict.loose.lead = verdict.tight.lead
                 PROVE  Tier[verdict.was] <= Tier[verdict.is]
      BY DEF LooserNeverWorse
    <2>1. PICK offer \in Offers, pair \in Comparable :
             verdict = [kind |-> "row", offer |-> offer, tight |-> pair[1], loose |-> pair[2],
                        was |-> ScoreVerdict(offer, pair[1]), is |-> ScoreVerdict(offer, pair[2])]
      BY DEF ScoredTwice
    <2>2. pair[1] \in BuyBoxes /\ pair[2] \in BuyBoxes /\ Looser(pair[1], pair[2])
      BY VerdictAssumption DEF Comparable
    <2> QED
      BY <2>1, <2>2, VerdictTighter
  <1> QED
    BY <1>1, TwiceSafe, PTL

(* The pairs rows and channels are sorted by are in a strict total order.  *)
LEMMA AboveIsAnOrder ==
    ASSUME NEW k \in Int \X Int, NEW l \in Int \X Int, NEW m \in Int \X Int
    PROVE  /\ ~Above(k, k)
           /\ Above(k, l) /\ Above(l, m) => Above(k, m)
           /\ Above(k, l) \/ Above(l, k) \/ (k[1] = l[1] /\ k[2] = l[2])
  BY DEF Above

LEMMA SortKeyTyped ==
    ASSUME NEW c \in ScoredChannels, NEW policy
    PROVE  SortKey(c, policy) \in Int \X Int
  <1>1. c.net \in Int /\ c.margin \in Int /\ c.annual \in Int /\ c.projected \in Int
    BY DEF ScoredChannels
  <1>2. OrZero(c.annual) \in Int
    BY <1>1 DEF OrZero
  <1> QED
    BY <1>1, <1>2 DEF SortKey

LEMMA TierTyped ==
    ASSUME NEW v \in {"pass", "watch", "fail"}
    PROVE  Tier[v] \in 0..2
  BY DEF Tier

(* The best channel of a row exists, and none has a better verdict.        *)
LEMMA BestIsBest ==
    ASSUME NEW row \in SUBSET ScoredChannels, IsFiniteSet(row), row # {}, NEW policy
    PROVE  /\ BestChannel(row, policy) \in row
           /\ \A d \in row : Tier[BestChannel(row, policy).verdict] >= Tier[d.verdict]
  <1> DEFINE tier == [c \in row |-> Tier[c.verdict]]
             key == [c \in row |-> SortKey(c, policy)]
             Beats(c, d) == tier[c] > tier[d] \/ (tier[c] = tier[d] /\ Above(key[c], key[d]))
             R == {cd \in row \X row : Beats(cd[1], cd[2])}
  <1>1. \A c \in row : tier[c] \in Int /\ key[c] \in Int \X Int
    <2> SUFFICES ASSUME NEW c \in row PROVE tier[c] \in Int /\ key[c] \in Int \X Int
      OBVIOUS
    <2>1. c \in ScoredChannels /\ c.verdict \in {"pass", "watch", "fail"}
      BY DEF ScoredChannels
    <2> QED
      BY <2>1, TierTyped, SortKeyTyped
  <1>2. \A c, d \in row : <<c, d>> \in R <=> Beats(c, d)
    <2> HIDE DEF Beats
    <2> QED
      OBVIOUS
  <1> HIDE DEF R
  <1>3. /\ \A c \in row : tier[c] = Tier[c.verdict] /\ key[c] = SortKey(c, policy)
    OBVIOUS
  <1> HIDE DEF tier, key
  <1>4. \A c \in row : <<c, c>> \notin R
    <2> SUFFICES ASSUME NEW c \in row PROVE <<c, c>> \notin R
      OBVIOUS
    <2>1. ~Above(key[c], key[c])
      BY <1>1, AboveIsAnOrder
    <2> QED
      BY <1>1, <1>2, <2>1
  <1>5. \A c, d, e \in row : <<c, d>> \in R /\ <<d, e>> \in R => <<c, e>> \in R
    <2> SUFFICES ASSUME NEW c \in row, NEW d \in row, NEW e \in row, <<c, d>> \in R, <<d, e>> \in R
                 PROVE  <<c, e>> \in R
      OBVIOUS
    <2>1. Above(key[c], key[d]) /\ Above(key[d], key[e]) => Above(key[c], key[e])
      BY <1>1, AboveIsAnOrder
    <2>2. tier[c] \in Int /\ tier[d] \in Int /\ tier[e] \in Int
      BY <1>1
    <2> QED
      BY <1>2, <2>1, <2>2
  <1>6. PICK c \in row : \A d \in row : <<d, c>> \notin R
    BY <1>4, <1>5, FinitelyManyBefore
  <1>7. \A d \in row : \/ tier[c] > tier[d]
                       \/ tier[c] = tier[d] /\ ~Above(key[d], key[c])
    <2> SUFFICES ASSUME NEW d \in row
                 PROVE  tier[c] > tier[d] \/ (tier[c] = tier[d] /\ ~Above(key[d], key[c]))
      OBVIOUS
    <2>1. ~Beats(d, c)
      BY <1>2, <1>6
    <2>2. tier[c] \in Int /\ tier[d] \in Int
      BY <1>1
    <2> QED
      BY <2>1, <2>2
  <1>8. \E b \in row : \A d \in row : \/ Tier[b.verdict] > Tier[d.verdict]
                                      \/ /\ Tier[b.verdict] = Tier[d.verdict]
                                         /\ ~Above(SortKey(d, policy), SortKey(b, policy))
    BY <1>3, <1>7
  <1> DEFINE b == BestChannel(row, policy)
  <1>9. b \in row /\ \A d \in row : Tier[b.verdict] > Tier[d.verdict] \/ Tier[b.verdict] = Tier[d.verdict]
    BY <1>8 DEF BestChannel
  <1> HIDE DEF b
  <1>10. \A d \in row : Tier[b.verdict] >= Tier[d.verdict]
    BY <1>1, <1>3, <1>9
  <1> QED
    BY <1>9, <1>10 DEF b

LEMMA RowTier ==
    ASSUME NEW row \in SUBSET ScoredChannels, IsFiniteSet(row), NEW policy
    PROVE  LET t == Tier[RowVerdict(row, policy)]
           IN  /\ t \in Int /\ (row = {} => t = 0)
               /\ \A c \in row : t >= Tier[c.verdict]
               /\ row # {} => \E c \in row : t = Tier[c.verdict]
  <1>1. CASE row = {}
    BY <1>1 DEF RowVerdict, Tier
  <1>2. CASE row # {}
    <2> DEFINE b == BestChannel(row, policy)
    <2>1. b \in row /\ \A d \in row : Tier[b.verdict] >= Tier[d.verdict]
      BY <1>2, BestIsBest
    <2>2. RowVerdict(row, policy) = b.verdict
      BY <1>2 DEF RowVerdict
    <2> HIDE DEF b
    <2>3. Tier[b.verdict] \in Int
      BY <2>1, TierTyped DEF ScoredChannels
    <2> QED
      BY <1>2, <2>1, <2>2, <2>3
  <1> QED
    BY <1>1, <1>2

(* A value on an axis of the slider is at least 1.                         *)
LEMMA NormalizedPositive ==
    ASSUME NEW values \in SUBSET Int, IsFiniteSet(values), NEW v \in Int
    PROVE  Normalized(values, v) \in Nat \ {0}
  <1> DEFINE tops == {1} \cup {x \in values : x > 0}
             top == Max(tops)
             r == Rounded(1000 * v, top)
  <1>1. tops \in SUBSET Nat /\ tops # {} /\ 1 \in tops
    <2>1. 1 \in tops
      OBVIOUS
    <2>2. ASSUME NEW x \in tops PROVE x \in Nat
      <3>1. x = 1 \/ (x \in values /\ x > 0)
        OBVIOUS
      <3> QED
        BY <3>1
    <2> QED
      BY <2>1, <2>2
  <1>2. IsFiniteSet(tops)
    <2>1. IsFiniteSet({x \in values : x > 0})
      BY FS_Subset
    <2>2. IsFiniteSet({1})
      BY FS_Singleton
    <2> QED
      BY <2>1, <2>2, FS_Union
  <1> HIDE DEF tops
  <1>3. top \in Nat \ {0}
    <2>1. top \in Nat /\ top >= 1
      BY <1>1, <1>2, GreatestOfFinite
    <2> HIDE DEF top
    <2> QED
      BY <2>1
  <1> HIDE DEF top
  <1>4. r \in Int
    BY <1>3, RoundedTyped
  <1>5. Normalized(values, v) = IF v > 0 THEN Max({1, r}) ELSE 1
    BY DEF Normalized, top, tops
  <1> HIDE DEF r
  <1>6. Max({1, r}) = IF 1 >= r THEN 1 ELSE r
    BY <1>4, MaxOfTwo
  <1> QED
    BY <1>4, <1>5, <1>6

ListsOfRows == [1..ListLength -> RowKinds]

LEMMA RowsTyped ==
    ASSUME NEW offers \in ListsOfRows
    PROVE  /\ DOMAIN offers = 1..ListLength /\ IsFiniteSet(DOMAIN offers)
           /\ \A i \in DOMAIN offers : offers[i] \in SUBSET ScoredChannels /\ IsFiniteSet(offers[i])
  <1>1. ListLength \in Nat /\ \A row \in RowKinds : row \in SUBSET ScoredChannels /\ IsFiniteSet(row)
    BY VerdictAssumption
  <1>2. DOMAIN offers = 1..ListLength
    BY DEF ListsOfRows
  <1> QED
    BY <1>1, <1>2, UpToFinite DEF ListsOfRows

LEMMA AxesPositive ==
    ASSUME NEW offers \in ListsOfRows, NEW i \in DOMAIN offers, NEW policy
    PROVE  Fast(offers, i, policy) \in Nat \ {0} /\ Fat(offers, i, policy) \in Nat \ {0}
  <1> DEFINE f == [j \in DOMAIN offers |-> Velocity(offers[j], policy)]
             g == [j \in DOMAIN offers |-> Dollars(offers[j], policy)]
  <1>1. ASSUME NEW row \in SUBSET ScoredChannels, IsFiniteSet(row)
        PROVE  Velocity(row, policy) \in Int /\ Dollars(row, policy) \in Int
    <2>1. CASE row = {}
      BY <2>1 DEF Velocity, Dollars
    <2>2. CASE row # {}
      <3> DEFINE b == BestChannel(row, policy)
      <3>1. b \in row
        BY <1>1, <2>2, BestIsBest
      <3>2. Velocity(row, policy) = Max({0, OrZero(b.annual)}) /\ Dollars(row, policy) = Max({0, b.net})
        BY <2>2 DEF Velocity, Dollars
      <3> HIDE DEF b
      <3>3. OrZero(b.annual) \in Int /\ b.net \in Int
        BY <3>1 DEF ScoredChannels, OrZero
      <3> QED
        BY <3>2, <3>3, MaxOfTwo
    <2> QED
      BY <2>1, <2>2
  <1>2. f \in [DOMAIN offers -> Int] /\ g \in [DOMAIN offers -> Int] /\ IsFiniteSet(DOMAIN offers)
    BY <1>1, RowsTyped
  <1>3. /\ Fast(offers, i, policy) = Normalized({f[j] : j \in DOMAIN offers}, f[i])
        /\ Fat(offers, i, policy) = Normalized({g[j] : j \in DOMAIN offers}, g[i])
    BY DEF Fast, Fat
  <1> HIDE DEF f, g
  <1>4. IsFiniteSet({f[j] : j \in DOMAIN offers}) /\ IsFiniteSet({g[j] : j \in DOMAIN offers})
    BY <1>2, ImageIsFinite
  <1>5. /\ {f[j] : j \in DOMAIN offers} \in SUBSET Int /\ {g[j] : j \in DOMAIN offers} \in SUBSET Int
        /\ f[i] \in Int /\ g[i] \in Int
    BY <1>2
  <1> QED
    BY <1>3, <1>4, <1>5, NormalizedPositive

LEMMA ProductGrows ==
    ASSUME NEW a \in Nat \ {0}, NEW b \in Nat \ {0}, NEW c \in Nat \ {0}, NEW d \in Nat \ {0},
           a < c, b < d
    PROVE  a * b < c * d
  <1>1. a * b < a * d
    OBVIOUS
  <1>2. a * d < c * d
    OBVIOUS
  <1> QED
    BY <1>1, <1>2

(* A row that is faster and fatter has the higher score, wherever the      *)
(* slider stands.                                                          *)
LEMMA BlendGrows ==
    ASSUME NEW v \in Nat \ {0}, NEW m \in Nat \ {0}, NEW w \in Nat \ {0}, NEW n \in Nat \ {0},
           NEW k \in {0, 1, 2}
    PROVE  Blend(v, m, k) \in Int /\ (v < w /\ m < n => Blend(v, m, k) < Blend(w, n, k))
  <1>1. v < w /\ m < n => v * v < w * w /\ v * m < w * n /\ m * m < n * n
    BY ProductGrows
  <1>2. v * v \in Int /\ v * m \in Int /\ m * m \in Int
    OBVIOUS
  <1> QED
    BY <1>1, <1>2 DEF Blend

(* The key of a row: the verdict of its best channel first.                *)
LEMMA RankKeyTyped ==
    ASSUME NEW offers \in ListsOfRows, NEW i \in DOMAIN offers, NEW policy, NEW bias \in {None, 0, 1, 2}
    PROVE  LET k == RankKey(offers, i, policy, bias)
           IN  /\ k.tier = Tier[RowVerdict(offers[i], policy)] /\ k.tier \in Int
               /\ k.pair \in Int \X Int
               /\ bias # None => k.pair[1] = Score(offers, i, policy, bias)
  <1> DEFINE t == Tier[RowVerdict(offers[i], policy)]
             p == IF bias # None THEN <<Score(offers, i, policy, bias), 0>>
                  ELSE IF offers[i] = {} THEN <<-100, 0>> ELSE SortKey(BestChannel(offers[i], policy), policy)
  <1>1. offers[i] \in SUBSET ScoredChannels /\ IsFiniteSet(offers[i])
    BY RowsTyped
  <1>2. t \in Int
    BY <1>1, RowTier
  <1>3. Score(offers, i, policy, bias) \in Int \/ bias = None
    <2>1. CASE bias \in {0, 1, 2}
      BY <2>1, AxesPositive, BlendGrows DEF Score
    <2> QED
      BY <2>1
  <1>4. offers[i] # {} => SortKey(BestChannel(offers[i], policy), policy) \in Int \X Int
    BY <1>1, BestIsBest, SortKeyTyped
  <1>5. p \in Int \X Int
    BY <1>3, <1>4
  <1>6. bias # None => p[1] = Score(offers, i, policy, bias)
    BY <1>3
  <1>7. RankKey(offers, i, policy, bias) = [tier |-> t, pair |-> p]
    BY DEF RankKey
  <1> HIDE DEF t, p
  <1>8. RankKey(offers, i, policy, bias).tier = t /\ RankKey(offers, i, policy, bias).pair = p
    BY <1>7
  <1> QED
    BY <1>2, <1>5, <1>6, <1>8 DEF t

LEMMA OutranksIsAnOrder ==
    ASSUME NEW k, NEW l, NEW m, k.tier \in Int, l.tier \in Int, m.tier \in Int,
           k.pair \in Int \X Int, l.pair \in Int \X Int, m.pair \in Int \X Int
    PROVE  /\ ~Outranks(k, k)
           /\ Outranks(k, l) => ~Outranks(l, k)
           /\ Outranks(k, l) /\ Outranks(l, m) => Outranks(k, m)
           /\ Outranks(k, l) /\ ~Outranks(m, l) => Outranks(k, m)
           /\ ~Outranks(l, k) /\ Outranks(l, m) => Outranks(k, m)
           /\ ~Outranks(l, k) /\ ~Outranks(m, l) => ~Outranks(m, k)
  <1>1. \A a, b, c \in Int \X Int :
           /\ ~Above(a, a) /\ (Above(a, b) => ~Above(b, a))
           /\ Above(a, b) /\ Above(b, c) => Above(a, c)
           /\ Above(a, b) /\ ~Above(c, b) => Above(a, c)
           /\ ~Above(b, a) /\ Above(b, c) => Above(a, c)
           /\ ~Above(b, a) /\ ~Above(c, b) => ~Above(c, a)
    BY DEF Above
  <1> QED
    BY <1>1 DEF Outranks

(* A ranked list: every row once, and who stands earlier outranks, or is   *)
(* not outranked and came first.                                           *)
LEMMA RankInOrder ==
    ASSUME NEW offers \in ListsOfRows, NEW policy, NEW bias \in {None, 0, 1, 2},
           NEW order, order = Rank(offers, policy, bias)
    PROVE  /\ \A m \in DOMAIN order : m \in Nat /\ order[m] \in DOMAIN offers
           /\ \A i \in DOMAIN offers : \E m \in DOMAIN order : order[m] = i
           /\ \A m, n \in DOMAIN order : m < n =>
                 /\ order[m] # order[n]
                 /\ ~Outranks(RankKey(offers, order[n], policy, bias), RankKey(offers, order[m], policy, bias))
  <1> DEFINE keys == [i \in DOMAIN offers |-> RankKey(offers, i, policy, bias)]
             Before(i, j) == Outranks(keys[i], keys[j]) \/ (~Outranks(keys[j], keys[i]) /\ i < j)
             R == {ij \in (DOMAIN offers) \X (DOMAIN offers) : Before(ij[1], ij[2])}
             S == DOMAIN offers
  <1>1. order = FirstOf(S, Cardinality(S), R)
    <2>1. DOMAIN keys = S
      OBVIOUS
    <2>2. order = Sorted(keys, R)
      BY DEF Rank
    <2> QED
      BY <2>1, <2>2 DEF Sorted
  <1>2. IsFiniteSet(S) /\ S = 1..ListLength
    BY RowsTyped
  <1>3. \A i, j \in S : <<i, j>> \in R <=> Before(i, j)
    <2> HIDE DEF Before
    <2> QED
      OBVIOUS
  <1>4. \A i \in S : keys[i] = RankKey(offers, i, policy, bias) /\ keys[i].tier \in Int /\ keys[i].pair \in Int \X Int
    BY RankKeyTyped
  <1> HIDE DEF keys, R
  <1>5. ASSUME NEW i \in S, NEW j \in S, NEW l \in S
        PROVE  /\ ~Outranks(keys[i], keys[i])
               /\ Outranks(keys[i], keys[j]) => ~Outranks(keys[j], keys[i])
               /\ Outranks(keys[i], keys[j]) /\ Outranks(keys[j], keys[l]) => Outranks(keys[i], keys[l])
               /\ Outranks(keys[i], keys[j]) /\ ~Outranks(keys[l], keys[j]) => Outranks(keys[i], keys[l])
               /\ ~Outranks(keys[j], keys[i]) /\ Outranks(keys[j], keys[l]) => Outranks(keys[i], keys[l])
               /\ ~Outranks(keys[j], keys[i]) /\ ~Outranks(keys[l], keys[j]) => ~Outranks(keys[l], keys[i])
    BY <1>4, OutranksIsAnOrder
  <1>6. \A i \in S : i \in Int
    BY <1>2
  <1>7. \A i \in S : <<i, i>> \notin R
    BY <1>3, <1>5, <1>6
  <1>8. \A i, j, l \in S : <<i, j>> \in R /\ <<j, l>> \in R => <<i, l>> \in R
    <2> SUFFICES ASSUME NEW i \in S, NEW j \in S, NEW l \in S, Before(i, j), Before(j, l)
                 PROVE  Before(i, l)
      BY <1>3
    <2>1. i \in Int /\ j \in Int /\ l \in Int
      BY <1>6
    <2> QED
      BY <1>5, <2>1
  <1>9. \A i, j \in S : i = j \/ <<i, j>> \in R \/ <<j, i>> \in R
    <2> SUFFICES ASSUME NEW i \in S, NEW j \in S, i # j
                 PROVE  Before(i, j) \/ Before(j, i)
      BY <1>3
    <2>1. i \in Int /\ j \in Int
      BY <1>6
    <2> QED
      BY <2>1
  <1>10. /\ \A m \in DOMAIN order : m \in Nat /\ order[m] \in S
         /\ \A i \in S : \E m \in DOMAIN order : order[m] = i
         /\ \A m, n \in DOMAIN order : m < n => <<order[m], order[n]>> \in R
    <2>1. IsFiniteSet(S)
      BY <1>2
    <2> HIDE DEF S, Before
    <2> QED
      BY ONLY <1>1, <1>7, <1>8, <1>9, <2>1, AllInOrder
  <1>11. ASSUME NEW m \in DOMAIN order, NEW n \in DOMAIN order, m < n
         PROVE  /\ order[m] # order[n]
                /\ ~Outranks(RankKey(offers, order[n], policy, bias), RankKey(offers, order[m], policy, bias))
    <2> DEFINE i == order[m]
               j == order[n]
    <2>1. i \in S /\ j \in S /\ <<i, j>> \in R
      BY <1>10, <1>11
    <2> HIDE DEF i, j
    <2>2. i # j /\ Before(i, j)
      <3> HIDE DEF Before
      <3> QED
        BY <1>3, <1>7, <2>1
    <2>3. Outranks(keys[i], keys[j]) => ~Outranks(keys[j], keys[i])
      BY <1>5, <2>1
    <2>4. ~Outranks(keys[j], keys[i])
      BY <2>2, <2>3
    <2> QED
      BY <1>4, <2>1, <2>2, <2>4 DEF i, j
  <1> QED
    BY <1>10, <1>11

ListRanked ==
    (verdict # Blank /\ verdict.kind = "list") =>
        /\ verdict.rows \in ListsOfRows /\ verdict.bias \in {None, 0, 1, 2}
        /\ verdict.order = Rank(verdict.rows, verdict.policy, verdict.bias)

LEMMA ListsAreRanked == VerdictSpec => []ListRanked
  <1>1. VerdictInit => ListRanked
    BY DEF VerdictInit, ListRanked
  <1>2. ListRanked /\ [VerdictNext]_verdictVars => ListRanked'
    <2> SUFFICES ASSUME ListRanked, [VerdictNext]_verdictVars PROVE ListRanked'
      OBVIOUS
    <2>1. CASE ScoreTwice
      <3>1. verdict'.kind = "row"
        BY <2>1 DEF ScoreTwice
      <3> QED
        BY <3>1 DEF ListRanked
    <2>2. CASE RankList
      <3>1. PICK offers \in ListsOfRows, policy \in {"velocity", "monthly_profit", "margin"},
                 bias \in {None, 0, 1, 2} :
               verdict' = [kind |-> "list", rows |-> offers, policy |-> policy, bias |-> bias,
                           order |-> Rank(offers, policy, bias), summary |-> Summarize(offers)]
        BY <2>2 DEF RankList, ListsOfRows
      <3>2. verdict'.rows = offers /\ verdict'.policy = policy /\ verdict'.bias = bias
        BY <3>1
      <3>3. verdict'.order = Rank(offers, policy, bias)
        BY <3>1
      <3> QED
        BY <3>2, <3>3 DEF ListRanked
    <2>3. CASE UNCHANGED verdictVars
      BY <2>3 DEF verdictVars, ListRanked
    <2> QED
      BY <2>1, <2>2, <2>3 DEF VerdictNext
  <1> QED
    BY <1>1, <1>2, PTL DEF VerdictSpec

(* Whatever offers a list holds, whatever the policy and the slider: every   *)
(* row is ranked once and judged by its best channel, no row stands above  *)
(* one with a better verdict, nor, with the slider, above one of its own   *)
(* verdict that is both faster and fatter.                                 *)
THEOREM RankingIsByVerdict == VerdictSpec => []RankingKeepsVerdicts
  <1>1. ListRanked => RankingKeepsVerdicts
    <2> SUFFICES ASSUME ListRanked, verdict # Blank, verdict.kind = "list"
                 PROVE  RankingKeepsVerdicts
      BY DEF RankingKeepsVerdicts
    <2> DEFINE offers == verdict.rows
               p == verdict.policy
               bias == verdict.bias
               order == verdict.order
               tier(i) == Tier[RowVerdict(offers[i], p)]
               key(i) == RankKey(offers, i, p, bias)
    <2>1. offers \in ListsOfRows /\ bias \in {None, 0, 1, 2} /\ order = Rank(offers, p, bias)
      BY DEF ListRanked
    <2> HIDE DEF offers, p, bias, order
    <2>2. ASSUME NEW i \in DOMAIN offers
          PROVE  /\ tier(i) \in Int /\ (offers[i] = {} => tier(i) = 0)
                 /\ \A c \in offers[i] : tier(i) >= Tier[c.verdict]
                 /\ offers[i] # {} => \E c \in offers[i] : tier(i) = Tier[c.verdict]
      <3>1. offers[i] \in SUBSET ScoredChannels /\ IsFiniteSet(offers[i])
        BY <2>1, RowsTyped
      <3> QED
        BY <3>1, RowTier
    <2>3. /\ \A m \in DOMAIN order : m \in Nat /\ order[m] \in DOMAIN offers
          /\ \A i \in DOMAIN offers : \E m \in DOMAIN order : order[m] = i
          /\ \A m, n \in DOMAIN order : m < n => order[m] # order[n] /\ ~Outranks(key(order[n]), key(order[m]))
      BY <2>1, RankInOrder
    <2>4. ASSUME NEW i \in DOMAIN offers, NEW j \in DOMAIN offers, ~Outranks(key(j), key(i))
          PROVE  /\ tier(i) >= tier(j)
                 /\ ~(/\ bias # None /\ tier(i) = tier(j)
                      /\ Fast(offers, i, p) < Fast(offers, j, p) /\ Fat(offers, i, p) < Fat(offers, j, p))
      <3>1. /\ key(i).tier = tier(i) /\ tier(i) \in Int /\ key(i).pair \in Int \X Int
            /\ bias # None => key(i).pair[1] = Score(offers, i, p, bias)
            /\ key(j).tier = tier(j) /\ tier(j) \in Int /\ key(j).pair \in Int \X Int
            /\ bias # None => key(j).pair[1] = Score(offers, j, p, bias)
        BY <2>1, RankKeyTyped
      <3> HIDE DEF key, tier
      <3>2. tier(i) >= tier(j)
        BY <2>4, <3>1 DEF Outranks
      <3>3. ASSUME bias # None, tier(i) = tier(j),
                   Fast(offers, i, p) < Fast(offers, j, p), Fat(offers, i, p) < Fat(offers, j, p)
            PROVE  FALSE
        <4>1. bias \in {0, 1, 2}
          BY <2>1, <3>3
        <4>2. Score(offers, i, p, bias) < Score(offers, j, p, bias)
          BY <2>1, <3>3, <4>1, AxesPositive, BlendGrows DEF Score
        <4>3. key(j).pair[1] > key(i).pair[1]
          BY <3>1, <3>3, <4>2
        <4> QED
          BY <2>4, <3>1, <3>3, <4>3 DEF Outranks, Above
      <3> QED
        BY <3>2, <3>3
    <2>5. \A m, n \in DOMAIN order : m < n =>
             /\ order[m] # order[n] /\ tier(order[m]) >= tier(order[n])
             /\ ~(/\ bias # None /\ tier(order[m]) = tier(order[n])
                  /\ Fast(offers, order[m], p) < Fast(offers, order[n], p)
                  /\ Fat(offers, order[m], p) < Fat(offers, order[n], p))
      <3> HIDE DEF key, tier
      <3> QED
        BY <2>3, <2>4
    <2>6. \A i \in DOMAIN offers : \E n \in DOMAIN order : order[n] = i
      BY <2>3
    <2> QED
      BY <2>2, <2>5, <2>6 DEF RankingKeepsVerdicts, offers, p, bias, order
  <1> QED
    BY <1>1, ListsAreRanked, PTL

(***************************************************************************)
(* SourcingRecon                                                           *)
(***************************************************************************)

(* What an amount added to one of an order's columns makes of it.          *)
LEMMA AdjustedTyped ==
  ASSUME NEW o \in Orders, NEW kind \in FeeKinds, NEW a \in Int
  PROVE  /\ Abs(a) \in Nat
         /\ Adjusted(o, kind, a) \in Orders /\ Adjusted(o, kind, a).key = o.key
         /\ Adjustments(Adjusted(o, kind, a)) = Adjustments(o) + Abs(a)
         /\ Adjustments(o) \in Int
<1>1. Abs(a) \in Nat
  BY DEF Abs
<1> DEFINE n == Abs(a)
<1> HIDE DEF n
<1>2. CASE kind = "return"
  BY <1>1, <1>2 DEF Adjusted, Orders, Adjustments, n
<1>3. CASE kind = "label"
  BY <1>1, <1>3 DEF Adjusted, Orders, Adjustments, n
<1>4. CASE kind = "fulfillment"
  BY <1>1, <1>4 DEF Adjusted, Orders, Adjustments, n
<1>5. CASE kind = "storage"
  BY <1>1, <1>5 DEF Adjusted, Orders, Adjustments, n
<1> QED
  BY <1>2, <1>3, <1>4, <1>5 DEF FeeKinds

(* A leg of a sale leaves the adjustments alone.                           *)
LEMMA LegTyped ==
  ASSUME NEW o \in Orders, NEW kind \in LegKinds, NEW a \in Int, NEW q \in Nat
  PROVE  /\ AddLeg(o, kind, a, q) \in Orders /\ AddLeg(o, kind, a, q).key = o.key
         /\ Adjustments(AddLeg(o, kind, a, q)) = Adjustments(o)
<1> DEFINE n == IF kind \in {"commission", "tax_withheld"} THEN Abs(a) ELSE a
           m == IF q > 0 THEN q ELSE o.quantity
           o1 == [o EXCEPT !.named = TRUE]
           o2 == [o1 EXCEPT ![kind] = @ + n]
           o3 == [o2 EXCEPT !.quantity = m]
<1>1. n \in Int /\ m \in Nat
  BY DEF Orders, Abs
<1>2. AddLeg(o, kind, a, q) = o3
  <2>1. o1[kind] = o[kind]
    BY DEF LegKinds, Orders
  <2>2. kind # "quantity"
    BY DEF LegKinds
  <2> HIDE DEF n
  <2>3. o2.quantity = o.quantity
    BY <2>2 DEF Orders
  <2> QED
    BY <2>1, <2>2, <2>3 DEF AddLeg, n
<1> HIDE DEF n, m
<1>3. o1 \in Orders /\ o1.key = o.key /\ Adjustments(o1) = Adjustments(o)
  BY DEF Orders, Adjustments
<1> HIDE DEF o1
<1>4. o2 \in Orders /\ o2.key = o1.key /\ Adjustments(o2) = Adjustments(o1)
  <2>1. CASE kind = "product_price"
    BY <1>1, <1>3, <2>1 DEF Orders, Adjustments
  <2>2. CASE kind = "shipping_revenue"
    BY <1>1, <1>3, <2>2 DEF Orders, Adjustments
  <2>3. CASE kind = "sales_tax"
    BY <1>1, <1>3, <2>3 DEF Orders, Adjustments
  <2>4. CASE kind = "tax_withheld"
    BY <1>1, <1>3, <2>4 DEF Orders, Adjustments
  <2>5. CASE kind = "commission"
    BY <1>1, <1>3, <2>5 DEF Orders, Adjustments
  <2>6. CASE kind = "other"
    BY <1>1, <1>3, <2>6 DEF Orders, Adjustments
  <2> QED
    BY <2>1, <2>2, <2>3, <2>4, <2>5, <2>6 DEF LegKinds
<1> HIDE DEF o2
<1>5. o3 \in Orders /\ o3.key = o2.key /\ Adjustments(o3) = Adjustments(o2)
  BY <1>1, <1>4 DEF Orders, Adjustments
<1> HIDE DEF o3
<1> QED
  BY <1>2, <1>3, <1>4, <1>5

(* A new order, adopted or synthetic, holds what was waiting for it.       *)
LEMMA NewOrder ==
  ASSUME NEW k \in Keys, NEW n \in Nat
  PROVE  /\ [ObservedOrder(k) EXCEPT !.fulfillment = n] \in Orders
         /\ [ObservedOrder(k) EXCEPT !.fulfillment = n].key = k
         /\ Adjustments([ObservedOrder(k) EXCEPT !.fulfillment = n]) = n
         /\ SyntheticOrder(k, n).key = k /\ Adjustments(SyntheticOrder(k, n)) = n
<1> DEFINE o == ObservedOrder(k)
<1>1. /\ o \in Orders /\ o.key = k
      /\ o.fulfillment = 0 /\ o.storage = 0 /\ o.label = 0 /\ o.return = 0
  BY DEF ObservedOrder, Orders
<1> HIDE DEF o
<1> DEFINE p == [o EXCEPT !.fulfillment = n]
           r == [o EXCEPT !.storage = n]
<1>2. p \in Orders /\ p.key = k /\ p.fulfillment = n /\ p.storage = 0 /\ p.label = 0 /\ p.return = 0
  BY <1>1 DEF Orders
<1>3. r.key = k /\ r.storage = n /\ r.fulfillment = 0 /\ r.label = 0 /\ r.return = 0
  BY <1>1 DEF Orders
<1>4. SyntheticOrder(k, n) = IF k = Inventory THEN r ELSE p
  BY DEF SyntheticOrder, o
<1>5. p = [ObservedOrder(k) EXCEPT !.fulfillment = n]
  BY DEF o
<1> HIDE DEF p, r
<1>6. Adjustments(p) = n /\ Adjustments(r) = n
  BY <1>2, <1>3 DEF Adjustments
<1> QED
  BY <1>2, <1>3, <1>4, <1>5, <1>6

LEMMA ReconInitInv == ReconInit => ReconInv
<1> SUFFICES ASSUME ReconInit PROVE ReconInv
  OBVIOUS
<1>1. DOMAIN orders = {}
  BY DEF ReconInit
<1>2. ReconTypeOK
  BY <1>1, ReconAssumption DEF ReconInit, ReconTypeOK
<1>3. Attributed
  BY <1>1 DEF ReconInit, Attributed
<1> QED
  BY <1>2, <1>3 DEF ReconInit, NoFeeLost, ReconInv

(* What is read changes the books of one key: its order, new or not, and   *)
(* its orphans account for the n it has been charged more.                 *)
BooksMove(k, n) ==
    /\ reportRows' = reportRows + 1 /\ phase' = phase
    /\ billed' = [billed EXCEPT ![k] = @ + n]
    /\ orphans' \in [Keys -> Nat] /\ \A j \in Keys \ {k} : orphans'[j] = orphans[j]
    /\ \/ DOMAIN orders' = DOMAIN orders
       \/ DOMAIN orders' = DOMAIN orders \cup {k} /\ k \in PurchaseOrders
    /\ \A j \in DOMAIN orders \ {k} : orders'[j] = orders[j]
    /\ k \in DOMAIN orders' =>
          /\ orders'[k] \in Orders /\ orders'[k].key = k
          /\ billed[k] + n = orphans'[k] + Adjustments(orders'[k])
    /\ k \notin DOMAIN orders' => billed[k] + n = orphans'[k]

LEMMA BooksOfOneKey ==
  ASSUME ReconInv, Reading, NEW k \in Keys, NEW n \in Nat, BooksMove(k, n)
  PROVE  ReconInv'
<1> USE DEF BooksMove
<1>1. /\ ReconTypeOK /\ Attributed /\ phase = "reading"
      /\ billed \in [Keys -> Nat] /\ reportRows \in 0..MaxRows /\ reportRows < MaxRows
  BY DEF ReconInv, ReconTypeOK, Reading
<1>2. /\ billed' \in [Keys -> Nat] /\ billed'[k] = billed[k] + n
      /\ \A j \in Keys \ {k} : billed'[j] = billed[j]
  BY <1>1
<1>3. reportRows' \in 0..MaxRows
  BY <1>1, ReconAssumption
<1>4. \A po \in DOMAIN orders' : orders'[po] \in Orders /\ orders'[po].key = po
  BY <1>1 DEF ReconTypeOK
<1>5. ReconTypeOK'
  BY <1>1, <1>2, <1>3, <1>4 DEF ReconTypeOK
<1>6. ASSUME NEW j \in Keys
      PROVE  billed'[j] = orphans'[j] + IF j \in DOMAIN orders' THEN Adjustments(orders'[j]) ELSE 0
  <2>1. CASE j = k
    <3>1. k \notin DOMAIN orders' => billed'[k] = orphans'[k] + 0
      BY <1>2
    <3>2. k \in DOMAIN orders' => billed'[k] = orphans'[k] + Adjustments(orders'[k])
      BY <1>2
    <3> QED
      BY <2>1, <3>1, <3>2
  <2>2. CASE j # k
    <3>1. billed[j] = orphans[j] + IF j \in DOMAIN orders THEN Adjustments(orders[j]) ELSE 0
      BY <1>1 DEF Attributed
    <3>2. billed'[j] = billed[j] /\ orphans'[j] = orphans[j] /\ (j \in DOMAIN orders' <=> j \in DOMAIN orders)
      BY <1>2, <2>2
    <3>3. j \in DOMAIN orders => orders'[j] = orders[j]
      BY <2>2
    <3> QED
      BY <3>1, <3>2, <3>3
  <2> QED
    BY <2>1, <2>2
<1>7. Attributed'
  BY <1>6 DEF Attributed
<1>8. NoFeeLost'
  BY <1>1 DEF NoFeeLost
<1> QED
  BY <1>5, <1>7, <1>8 DEF ReconInv

LEMMA FeeRowStep ==
  ASSUME ReconInv, NEW po \in PurchaseOrders \cup {NoPO}, NEW kind \in FeeKinds, NEW a \in Amounts,
         FeeRow(po, kind, a)
  PROVE  ReconInv'
<1> DEFINE key == IF kind = "storage" /\ po = NoPO THEN Inventory ELSE po
<1>1. /\ ReconTypeOK /\ Attributed /\ a \in Int /\ Reading /\ reportRows' = reportRows + 1
      /\ UNCHANGED <<phase, result>> /\ phase = "reading"
  BY ReconAssumption DEF ReconInv, FeeRow, Reading
<1>2. /\ orphans \in [Keys -> Nat] /\ billed \in [Keys -> Nat] /\ Abs(a) \in Nat
      /\ \A p \in DOMAIN orders : p \in PurchaseOrders /\ orders[p] \in Orders /\ orders[p].key = p
  BY <1>1 DEF ReconTypeOK, Abs
<1>3. CASE key = NoPO
  <2>1. UNCHANGED <<orders, orphans, billed>>
    BY <1>3 DEF FeeRow
  <2>2. reportRows' \in 0..MaxRows
    BY <1>1, ReconAssumption DEF ReconTypeOK, Reading
  <2> QED
    BY <1>1, <2>1, <2>2 DEF ReconInv, ReconTypeOK, Attributed, NoFeeLost
<1>4. CASE key # NoPO
  <2>1. key \in Keys
    BY <1>4 DEF Keys
  <2>2. /\ billed' = [billed EXCEPT ![key] = @ + Abs(a)]
        /\ IF key \in DOMAIN orders
           THEN orders' = [orders EXCEPT ![key] = Adjusted(@, kind, a)] /\ orphans' = orphans
           ELSE orphans' = [orphans EXCEPT ![key] = @ + Abs(a)] /\ orders' = orders
    BY <1>4 DEF FeeRow
  <2>3. /\ billed[key] \in Nat /\ orphans[key] \in Nat
        /\ billed[key] = orphans[key] + IF key \in DOMAIN orders THEN Adjustments(orders[key]) ELSE 0
    BY <1>1, <1>2, <2>1 DEF Attributed
  <2> HIDE DEF key
  <2>4. CASE key \in DOMAIN orders
    <3> DEFINE o == Adjusted(orders[key], kind, a)
    <3>1. /\ o \in Orders /\ o.key = key /\ Adjustments(o) = Adjustments(orders[key]) + Abs(a)
          /\ Adjustments(orders[key]) \in Int
      BY <1>1, <1>2, <2>4, AdjustedTyped
    <3>2. /\ DOMAIN orders' = DOMAIN orders /\ orders'[key] = o
          /\ \A j \in DOMAIN orders \ {key} : orders'[j] = orders[j]
      BY <2>2, <2>4
    <3> HIDE DEF o
    <3>3. billed[key] + Abs(a) = orphans'[key] + Adjustments(o)
      <4>1. orphans'[key] = orphans[key] /\ billed[key] = orphans[key] + Adjustments(orders[key])
        BY <2>2, <2>3, <2>4
      <4> QED
        BY <1>2, <2>3, <3>1, <4>1
    <3>4. BooksMove(key, Abs(a))
      BY <1>1, <1>2, <2>1, <2>2, <2>4, <3>1, <3>2, <3>3 DEF BooksMove
    <3> QED
      BY <1>1, <1>2, <2>1, <3>4, BooksOfOneKey
  <2>5. CASE key \notin DOMAIN orders
    <3> DEFINE n == Abs(a)
    <3> HIDE DEF n
    <3>1. /\ orphans' \in [Keys -> Nat] /\ orphans'[key] = orphans[key] + n
          /\ \A j \in Keys \ {key} : orphans'[j] = orphans[j]
      <4>1. n \in Nat /\ orphans' = [orphans EXCEPT ![key] = @ + n] /\ orphans \in [Keys -> Nat]
        BY <1>2, <2>2, <2>5 DEF n
      <4> QED
        BY <2>1, <4>1
    <3>2. billed[key] + n = orphans'[key] + 0
      <4>1. n \in Nat /\ orphans[key] \in Nat /\ billed[key] = orphans[key] + 0
        BY <1>2, <2>3, <2>5 DEF n
      <4> QED
        BY <3>1, <4>1
    <3>3. orders' = orders /\ key \notin DOMAIN orders'
      BY <2>2, <2>5
    <3>4. billed[key] + n = orphans'[key] /\ key \notin DOMAIN orders'
      <4>1. orphans'[key] \in Nat
        BY <2>1, <3>1
      <4> QED
        BY <3>2, <3>3, <4>1
    <3>5. phase' = phase /\ \A j \in DOMAIN orders \ {key} : orders'[j] = orders[j]
      BY <1>1, <3>3
    <3>6. n \in Nat /\ billed' = [billed EXCEPT ![key] = @ + n]
      BY <1>2, <2>2 DEF n
    <3>7. BooksMove(key, n)
      BY <1>1, <3>1, <3>3, <3>4, <3>5, <3>6 DEF BooksMove
    <3> QED
      BY <1>1, <2>1, <3>6, <3>7, BooksOfOneKey
  <2> QED
    BY <2>4, <2>5
<1> QED
  BY <1>3, <1>4

LEMMA SaleRowStep ==
  ASSUME ReconInv, NEW po \in PurchaseOrders, NEW kind \in LegKinds, NEW a \in Amounts,
         NEW q \in Quantities, SaleRow(po, kind, a, q)
  PROVE  ReconInv'
<1> DEFINE book == Adopt(po)
<1>1. /\ ReconTypeOK /\ Attributed /\ a \in Int /\ q \in Nat /\ po \in Keys
      /\ Reading /\ reportRows' = reportRows + 1 /\ UNCHANGED <<phase, billed>>
      /\ orders' = [book.orders EXCEPT ![po] = AddLeg(@, kind, a, q)] /\ orphans' = book.orphans
  BY ReconAssumption DEF ReconInv, SaleRow, Keys
<1>2. /\ orphans \in [Keys -> Nat] /\ billed \in [Keys -> Nat] /\ orphans[po] \in Nat /\ billed[po] \in Nat
      /\ \A p \in DOMAIN orders : orders[p] \in Orders /\ orders[p].key = p
      /\ billed[po] = orphans[po] + IF po \in DOMAIN orders THEN Adjustments(orders[po]) ELSE 0
  <2> HIDE DEF book
  <2>1. phase = "reading"
    BY <1>1 DEF Reading
  <2>2. /\ orphans \in [Keys -> Nat] /\ billed \in [Keys -> Nat]
        /\ \A p \in DOMAIN orders : orders[p] \in Orders /\ orders[p].key = p
    BY <1>1 DEF ReconTypeOK
  <2>3. billed[po] = orphans[po] + IF po \in DOMAIN orders THEN Adjustments(orders[po]) ELSE 0
    BY <1>1, <2>1 DEF Attributed
  <2> QED
    BY <1>1, <2>2, <2>3
<1> DEFINE o == IF po \in DOMAIN orders THEN orders[po]
                ELSE [ObservedOrder(po) EXCEPT !.fulfillment = orphans[po]]
           t == AddLeg(o, kind, a, q)
<1>3. /\ DOMAIN book.orders = DOMAIN orders \cup {po} /\ book.orders[po] = o
      /\ \A j \in DOMAIN orders \ {po} : book.orders[j] = orders[j]
      /\ book.orphans = IF po \in DOMAIN orders THEN orphans ELSE [orphans EXCEPT ![po] = 0]
  BY DEF Adopt
<1>4. o \in Orders /\ o.key = po /\ (po \notin DOMAIN orders => Adjustments(o) = orphans[po])
  BY <1>1, <1>2, NewOrder
<1>5. t \in Orders /\ t.key = po /\ Adjustments(t) = Adjustments(o)
  <2> HIDE DEF o
  <2> QED
    BY <1>1, <1>4, LegTyped
<1> HIDE DEF t, book
<1>6. /\ DOMAIN orders' = DOMAIN orders \cup {po} /\ orders'[po] = t
      /\ \A j \in DOMAIN orders \ {po} : orders'[j] = orders[j]
  <2>1. orders'[po] = AddLeg(book.orders[po], kind, a, q)
    BY <1>1, <1>3
  <2> QED
    BY <1>1, <1>3, <2>1 DEF t
<1>7. /\ orphans' \in [Keys -> Nat] /\ \A j \in Keys \ {po} : orphans'[j] = orphans[j]
      /\ orphans'[po] = IF po \in DOMAIN orders THEN orphans[po] ELSE 0
  BY <1>1, <1>2, <1>3
<1>8. billed[po] + 0 = orphans'[po] + Adjustments(t)
  <2>1. CASE po \in DOMAIN orders
    BY <1>2, <1>5, <1>7, <2>1
  <2>2. CASE po \notin DOMAIN orders
    <3>1. Adjustments(t) = orphans[po] /\ orphans'[po] = 0 /\ billed[po] = orphans[po] + 0
      BY <1>2, <1>4, <1>5, <1>7, <2>2
    <3> QED
      BY <1>2, <3>1
  <2> QED
    BY <2>1, <2>2
<1>9. billed' = [billed EXCEPT ![po] = @ + 0]
  BY <1>1, <1>2
<1> HIDE DEF o
<1>10. billed[po] + 0 = orphans'[po] + Adjustments(orders'[po]) /\ po \in DOMAIN orders'
  BY <1>6, <1>8
<1>11. BooksMove(po, 0)
  BY <1>1, <1>5, <1>6, <1>7, <1>9, <1>10 DEF BooksMove
<1> QED
  BY <1>1, <1>11, BooksOfOneKey

(* At the end of the file each key's charges are one order's.              *)
LEMMA EndOfFileStep == ASSUME ReconInv, EndOfFile PROVE ReconInv'
<1> DEFINE attached == [po \in DOMAIN orders |-> [orders[po] EXCEPT !.fulfillment = @ + orphans[po]]]
           left == {k \in Keys \ DOMAIN orders : orphans[k] > 0}
<1>1. /\ ReconTypeOK /\ Attributed /\ phase = "reading" /\ phase' = "parsed"
      /\ result' = {attached[po] : po \in DOMAIN orders} \cup {SyntheticOrder(k, orphans[k]) : k \in left}
      /\ orphans' = [k \in Keys |-> IF k \in left THEN orphans[k] ELSE 0]
      /\ orders' = attached /\ UNCHANGED <<reportRows, billed>>
  BY DEF ReconInv, EndOfFile
<1>2. /\ orphans \in [Keys -> Nat] /\ billed \in [Keys -> Nat] /\ DOMAIN orders \subseteq Keys
      /\ \A p \in DOMAIN orders : orders[p] \in Orders /\ orders[p].key = p
      /\ \A k \in Keys : billed[k] = orphans[k] + IF k \in DOMAIN orders THEN Adjustments(orders[k]) ELSE 0
  BY <1>1 DEF ReconTypeOK, Attributed, Keys
<1>3. ASSUME NEW p \in DOMAIN orders
      PROVE  attached[p] \in Orders /\ attached[p].key = p /\ Adjustments(attached[p]) = billed[p]
  <2>1. orphans[p] \in Nat /\ orders[p] \in Orders /\ orders[p].key = p
        /\ billed[p] = orphans[p] + Adjustments(orders[p])
    BY <1>2
  <2>2. attached[p] = [orders[p] EXCEPT !.fulfillment = @ + orphans[p]]
    OBVIOUS
  <2> HIDE DEF attached
  <2>3. attached[p] \in Orders /\ attached[p].key = p
    BY <2>1, <2>2 DEF Orders
  <2>4. Adjustments(attached[p]) = Adjustments(orders[p]) + orphans[p] /\ Adjustments(orders[p]) \in Int
    BY <2>1, <2>2 DEF Orders, Adjustments
  <2> QED
    BY <2>1, <2>3, <2>4
<1>4. ASSUME NEW k \in left
      PROVE  /\ SyntheticOrder(k, orphans[k]).key = k
             /\ Adjustments(SyntheticOrder(k, orphans[k])) = billed[k]
  <2>1. k \in Keys /\ k \notin DOMAIN orders /\ orphans[k] \in Nat /\ billed[k] = orphans[k] + 0
    BY <1>2
  <2>2. billed[k] = orphans[k]
    BY <2>1
  <2> HIDE DEF left, attached
  <2> QED
    BY <2>1, <2>2, NewOrder
<1>5. DOMAIN attached = DOMAIN orders
  OBVIOUS
<1>6. \A o \in result' : \/ \E p \in DOMAIN orders : o = attached[p]
                         \/ \E k \in left : o = SyntheticOrder(k, orphans[k])
  BY <1>1
<1>7. \A k \in left : k \in Keys /\ k \notin DOMAIN orders
  OBVIOUS
<1>8. \A k \in Keys : billed[k] # 0 => k \in DOMAIN orders \/ k \in left
  BY <1>2
<1>9. /\ \A p \in DOMAIN orders : attached[p] \in result'
      /\ \A k \in left : SyntheticOrder(k, orphans[k]) \in result'
  BY <1>1
<1>10. orphans' \in [Keys -> Nat]
  BY <1>1, <1>2
<1> HIDE DEF attached, left
<1>11. ReconTypeOK'
  BY <1>1, <1>3, <1>5, <1>10 DEF ReconTypeOK
<1>12. \A o, p \in result' : o.key = p.key => o = p
  BY <1>3, <1>4, <1>6, <1>7
<1>13. \A o \in result' : Adjustments(o) = billed[o.key]
  BY <1>3, <1>4, <1>6
<1>14. \A k \in Keys : billed[k] # 0 => \E o \in result' : o.key = k
  BY <1>3, <1>4, <1>8, <1>9
<1> QED
  BY <1>1, <1>11, <1>12, <1>13, <1>14 DEF ReconInv, Attributed, NoFeeLost

LEMMA ReconInvStep == ReconInv /\ [ReconNext]_reconVars => ReconInv'
<1> SUFFICES ASSUME ReconInv, [ReconNext]_reconVars PROVE ReconInv'
  OBVIOUS
<1>1. ASSUME NEW line, SettlementLine(line) PROVE ReconInv'
  BY <1>1 DEF SettlementLine, ReconInv, ReconTypeOK, Attributed, NoFeeLost
<1>2. ASSUME Learn PROVE ReconInv'
  BY <1>2 DEF Learn, ReconInv, ReconTypeOK, Attributed, NoFeeLost
<1>3. CASE UNCHANGED reconVars
  BY <1>3 DEF reconVars, ReconInv, ReconTypeOK, Attributed, NoFeeLost
<1> QED
  BY <1>1, <1>2, <1>3, FeeRowStep, SaleRowStep, EndOfFileStep DEF ReconNext

(* The invariant of the import.                                            *)
LEMMA ReconInvariant == ReconSpec => []ReconInv
  BY ReconInitInv, ReconInvStep, PTL DEF ReconSpec

(* The orders, the orphans and the charges of an import have their types   *)
(* in every state: an orphaned fee is never negative, and an order is kept *)
(* under its own purchase order.                                           *)
THEOREM ReconTypes == ReconSpec => []ReconTypeOK
<1>1. ReconInv => ReconTypeOK
  BY DEF ReconInv
<1> QED
  BY <1>1, ReconInvariant, PTL

(* However the offers of a report are ordered, when it has been read every   *)
(* charge of every key is in exactly one order: no fee that came before    *)
(* its sale row, or without one, is dropped or counted twice.              *)
THEOREM EveryFeeIsInAnOrder == ReconSpec => []NoFeeLost
<1>1. ReconInv => NoFeeLost
  BY DEF ReconInv
<1> QED
  BY <1>1, ReconInvariant, PTL

(***************************************************************************)
(* DemandForecast                                                          *)
(***************************************************************************)

LEMMA SequenceParts ==
    ASSUME NEW S, NEW s \in Seq(S)
    PROVE  /\ Len(s) \in Nat /\ (s # <<>> <=> Len(s) >= 1) /\ \A i \in 1..Len(s) : s[i] \in S
           /\ \A x \in S : /\ Append(s, x) \in Seq(S) /\ Len(Append(s, x)) = Len(s) + 1
                           /\ Append(s, x) # <<>> /\ Append(s, x)[Len(s) + 1] = x
                           /\ \A i \in 1..Len(s) : Append(s, x)[i] = s[i]
  <1>1. Len(s) \in Nat /\ \A i \in 1..Len(s) : s[i] \in S
    OBVIOUS
  <1>2. s # <<>> <=> Len(s) # 0
    OBVIOUS
  <1>3. ASSUME NEW x \in S
        PROVE  /\ Append(s, x) \in Seq(S) /\ Len(Append(s, x)) = Len(s) + 1
               /\ Append(s, x) # <<>> /\ Append(s, x)[Len(s) + 1] = x
               /\ \A i \in 1..Len(s) : Append(s, x)[i] = s[i]
    OBVIOUS
  <1> QED
    BY <1>1, <1>2, <1>3

Counts == [previous : Nat, units : Nat, restocked : BOOLEAN]

LEMMA SoldBetweenTyped ==
    ASSUME NEW c \in Counts, NEW q \in Nat
    PROVE  SoldBetween(c, q) \in Counts
  <1>1. c.previous \in Nat /\ c.units \in Nat /\ c.restocked \in BOOLEAN
    BY DEF Counts
  <1> DEFINE d == IF q < c.previous /\ 4 * (c.previous - q) <= 3 * c.previous THEN c.previous - q ELSE 0
  <1>2. d \in Nat
    BY <1>1
  <1>3. SoldBetween(c, q) = [previous |-> q, units |-> c.units + d,
                             restocked |-> c.restocked \/ q > c.previous]
    BY DEF SoldBetween
  <1> HIDE DEF d
  <1> QED
    BY <1>1, <1>2, <1>3 DEF Counts

Start(snaps) == [previous |-> snaps[1].quantity, units |-> 0, restocked |-> FALSE]
StepOf(snaps) == [ci \in Counts \X (1..Len(snaps)) |-> SoldBetween(ci[1], snaps[ci[2]].quantity)]

(* The count over some snapshots is where a walk along them ends.          *)
LEMMA CountedWalks ==
    ASSUME NEW snaps \in Seq(Snapshots), snaps # <<>>
    PROVE  \E w \in Walks(Len(snaps), Counts, Start(snaps), StepOf(snaps)) : Counted(snaps) = w[Len(snaps)]
  <1> DEFINE n == Len(snaps)
             IsWalk(w) == w = [i \in 0..n |-> IF i = 0 THEN Start(snaps)
                                              ELSE SoldBetween(w[i - 1], snaps[i].quantity)]
             c == CHOOSE w : IsWalk(w)
  <1>1. n \in Nat /\ n >= 1 /\ \A i \in 1..n : snaps[i] \in Snapshots /\ snaps[i].quantity \in Nat
    <2>1. n \in Nat /\ n >= 1 /\ \A i \in 1..n : snaps[i] \in Snapshots
      BY SequenceParts
    <2> QED
      BY <2>1 DEF Snapshots
  <1>2. Start(snaps) \in Counts
    BY <1>1 DEF Start, Counts
  <1>3. StepOf(snaps) \in [Counts \X (1..n) -> Counts]
    BY <1>1, SoldBetweenTyped DEF StepOf
  <1>4. Counted(snaps) = c[n]
    BY DEF Counted, Start
  <1>5. PICK f : f \in Walks(n, Counts, Start(snaps), StepOf(snaps))
    BY <1>1, <1>2, <1>3, WalkExists
  <1>6. /\ f \in [0..n -> Counts] /\ f[0] = Start(snaps)
        /\ \A i \in 1..n : f[i] = StepOf(snaps)[<<f[i - 1], i>>]
    BY <1>5 DEF Walks
  <1>7. \A i \in 1..n : f[i] = SoldBetween(f[i - 1], snaps[i].quantity)
    <2> SUFFICES ASSUME NEW i \in 1..n PROVE f[i] = SoldBetween(f[i - 1], snaps[i].quantity)
      OBVIOUS
    <2>1. i - 1 \in 0..n
      BY <1>1
    <2>2. <<f[i - 1], i>> \in Counts \X (1..n)
      BY <1>6, <2>1
    <2> QED
      BY <1>6, <2>2 DEF StepOf
  <1>8. IsWalk(f)
    BY <1>6, <1>7
  <1>9. IsWalk(c)
    <2> HIDE DEF IsWalk
    <2> QED
      BY <1>8
  <1>10. c[0] = Start(snaps) /\ \A i \in 1..n : c[i] = SoldBetween(c[i - 1], snaps[i].quantity)
    <2> HIDE DEF c
    <2> QED
      BY <1>1, <1>9
  <1>11. \A i \in 0..n : f[i] = c[i]
    <2> DEFINE W == {c[i] : i \in 0..n}
               h == [vi \in (Counts \cup W) \X (1..n) |-> SoldBetween(vi[1], snaps[vi[2]].quantity)]
    <2>1. c = [i \in 0..n |-> IF i = 0 THEN Start(snaps) ELSE SoldBetween(c[i - 1], snaps[i].quantity)]
      <3> HIDE DEF c
      <3> QED
        BY <1>9
    <2>2. c \in [0..n -> W]
      <3> HIDE DEF c
      <3> QED
        BY <2>1
    <2>3. \A v \in Counts \cup W, i \in 1..n : h[<<v, i>>] = SoldBetween(v, snaps[i].quantity)
      <3> HIDE DEF W
      <3> QED
        OBVIOUS
    <2>4. \A i \in 1..n : i - 1 \in 0..n /\ c[i - 1] \in W
      <3> HIDE DEF c
      <3> QED
        BY <1>1
    <2> HIDE DEF c, h, W
    <2>5. c \in Walks(n, W, Start(snaps), h)
      BY <1>10, <2>2, <2>3, <2>4 DEF Walks
    <2>6. \A v \in Counts, i \in 1..n : StepOf(snaps)[<<v, i>>] = h[<<v, i>>]
      BY <2>3 DEF StepOf
    <2> QED
      BY <1>1, <1>5, <2>5, <2>6, WalksAgree
  <1> QED
    BY <1>1, <1>4, <1>5, <1>11

LEMMA CountedOne ==
    ASSUME NEW s \in Snapshots
    PROVE  LET c == Counted(Append(<<>>, s)) IN c \in Counts /\ c.previous = s.quantity /\ c.units = 0
  <1> DEFINE snaps == Append(<<>>, s)
  <1>1. snaps \in Seq(Snapshots) /\ Len(snaps) = 1 /\ snaps # <<>> /\ snaps[1] = s
    OBVIOUS
  <1> HIDE DEF snaps
  <1>2. PICK w \in Walks(1, Counts, Start(snaps), StepOf(snaps)) : Counted(snaps) = w[1]
    BY <1>1, CountedWalks
  <1>3. s.quantity \in Nat /\ 1 \in 1..1
    BY DEF Snapshots
  <1>4. Start(snaps) = [previous |-> s.quantity, units |-> 0, restocked |-> FALSE] /\ Start(snaps) \in Counts
    BY <1>1, <1>3 DEF Start, Counts
  <1>5. w[1] = StepOf(snaps)[<<Start(snaps), 1>>]
    <2>1. w[0] = Start(snaps) /\ w[1] = StepOf(snaps)[<<w[1 - 1], 1>>]
      BY <1>3 DEF Walks
    <2> QED
      BY <2>1
  <1>6. StepOf(snaps)[<<Start(snaps), 1>>] = SoldBetween(Start(snaps), s.quantity)
    BY <1>1, <1>3, <1>4 DEF StepOf
  <1>7. SoldBetween(Start(snaps), s.quantity) \in Counts
    BY <1>3, <1>4, SoldBetweenTyped
  <1>8. /\ SoldBetween(Start(snaps), s.quantity).previous = s.quantity
        /\ SoldBetween(Start(snaps), s.quantity).units = 0
    BY <1>3, <1>4 DEF SoldBetween
  <1> QED
    BY <1>2, <1>5, <1>6, <1>7, <1>8 DEF snaps

LEMMA CountedMore ==
    ASSUME NEW snaps \in Seq(Snapshots), snaps # <<>>, NEW s \in Snapshots
    PROVE  /\ Counted(snaps) \in Counts
           /\ Counted(Append(snaps, s)) = SoldBetween(Counted(snaps), s.quantity)
  <1> DEFINE more == Append(snaps, s)
             n == Len(snaps)
  <1>1. /\ n \in Nat /\ n >= 1 /\ more \in Seq(Snapshots) /\ more # <<>>
        /\ Len(more) = n + 1 /\ more[n + 1] = s /\ \A i \in 1..n : more[i] = snaps[i]
    BY SequenceParts
  <1> HIDE DEF more, n
  <1>2. PICK w \in Walks(n, Counts, Start(snaps), StepOf(snaps)) : Counted(snaps) = w[n]
    BY CountedWalks DEF n
  <1>3. PICK v \in Walks(n + 1, Counts, Start(more), StepOf(more)) : Counted(more) = v[n + 1]
    BY <1>1, CountedWalks
  <1>4. Start(more) = Start(snaps)
    <2>1. 1 \in 1..n
      BY <1>1
    <2>2. more[1] = snaps[1]
      BY <1>1, <2>1
    <2> QED
      BY <2>2 DEF Start
  <1>5. \A c \in Counts, i \in 1..n : StepOf(snaps)[<<c, i>>] = StepOf(more)[<<c, i>>]
    <2> SUFFICES ASSUME NEW c \in Counts, NEW i \in 1..n
                 PROVE  StepOf(snaps)[<<c, i>>] = StepOf(more)[<<c, i>>]
      OBVIOUS
    <2>1. i \in 1..(n + 1) /\ more[i] = snaps[i]
      BY <1>1
    <2>2. StepOf(snaps)[<<c, i>>] = SoldBetween(c, snaps[i].quantity)
      BY DEF StepOf, n
    <2>3. StepOf(more)[<<c, i>>] = SoldBetween(c, more[i].quantity)
      BY <1>1, <2>1 DEF StepOf
    <2> QED
      BY <2>1, <2>2, <2>3
  <1>6. n + 1 \in Nat /\ n <= n + 1 /\ n \in 0..n /\ n + 1 \in 1..(n + 1) /\ (n + 1) - 1 = n
    BY <1>1
  <1>7. w[n] = v[n]
    <2>1. v \in Walks(n + 1, Counts, Start(snaps), StepOf(more))
      BY <1>3, <1>4
    <2>2. \A i \in 0..n : w[i] = v[i]
      BY ONLY <1>1, <1>2, <1>5, <1>6, <2>1, WalksAgree
    <2> QED
      BY <1>6, <2>2
  <1>8. w[n] \in Counts
    BY <1>2, <1>6 DEF Walks
  <1>9. v[n + 1] = StepOf(more)[<<v[n], n + 1>>]
    BY <1>3, <1>6 DEF Walks
  <1>10. StepOf(more)[<<w[n], n + 1>>] = SoldBetween(w[n], s.quantity)
    BY <1>1, <1>6, <1>8 DEF StepOf
  <1> QED
    BY <1>2, <1>3, <1>7, <1>8, <1>9, <1>10 DEF more

(* A look at the shelf, off by `off` unless it answers 0.                  *)
LEMMA LookCounts ==
    ASSUME NEW c \in Counts, NEW q \in Nat, NEW shelf \in Nat, NEW out \in Nat, NEW off \in Nat,
           q = 0 \/ (q - shelf <= off /\ shelf - q <= off),
           c.units <= out, c.units + c.previous - shelf <= out
    PROVE  LET d == SoldBetween(c, q)
           IN  d \in Counts /\ d.units <= out + off /\ d.units + d.previous - shelf <= out + off
  <1>1. c.previous \in Nat /\ c.units \in Nat
    BY DEF Counts
  <1>2. SoldBetween(c, q) \in Counts
    BY SoldBetweenTyped
  <1>3. /\ SoldBetween(c, q).previous = q
        /\ SoldBetween(c, q).units =
              c.units + IF q < c.previous /\ 4 * (c.previous - q) <= 3 * c.previous THEN c.previous - q ELSE 0
    BY DEF SoldBetween
  <1> QED
    BY <1>1, <1>2, <1>3

LEMMA DemandInitInv == DemandInit => DepletionInv /\ ForecastInv
  <1> SUFFICES ASSUME DemandInit PROVE DepletionInv /\ ForecastInv
    OBVIOUS
  <1>1. /\ day = 0 /\ stock = MaxStock /\ snapshots = <<>> /\ sold = 0 /\ amiss = 0
        /\ forecasts = <<>> /\ window = NoWindow /\ comparisons = <<>>
    BY DEF DemandInit
  <1>2. <<>> \in Seq(Snapshots) /\ <<>> \in Seq(Forecasts) /\ <<>> \in Seq(Comparisons)
    OBVIOUS
  <1>3. 1..Len(<<>>) = {}
    OBVIOUS
  <1> QED
    BY <1>1, <1>2, <1>3, DemandAssumption DEF DepletionInv, ForecastInv

LEMMA ObserveKeeps == ASSUME DepletionInv, Observe PROVE DepletionInv'
  <1>1. /\ day \in Nat /\ stock \in Nat /\ sold \in Nat /\ amiss \in Nat
        /\ snapshots \in Seq(Snapshots) /\ MaxStock \in Nat /\ stock \in 0..MaxStock
        /\ day' = day /\ stock' = stock /\ sold' = sold
    BY DemandAssumption DEF DepletionInv, Observe
  <1>2. PICK q \in 0..MaxStock, reviews \in {0, sold} :
          /\ snapshots' = Append(snapshots, Snapshot(q, reviews))
          /\ amiss' = amiss + IF q = 0 THEN 0 ELSE Distance(q, stock)
    BY DEF Observe
  <1> DEFINE s == Snapshot(q, reviews)
             off == IF q = 0 THEN 0 ELSE Distance(q, stock)
             out == sold + amiss
  <1>3. q \in Nat /\ s \in Snapshots /\ s.quantity = q
    BY <1>1 DEF Snapshot, Snapshots
  <1>4. /\ off \in Nat /\ out \in Nat /\ amiss' \in Nat /\ sold + amiss' = out + off
        /\ q = 0 \/ (q - stock <= off /\ stock - q <= off)
    BY <1>1, <1>2, <1>3 DEF Distance
  <1> HIDE DEF s, off, out
  <1>5. /\ Counted(snapshots') \in Counts
        /\ Counted(snapshots').units <= out + off
        /\ Counted(snapshots').units + Counted(snapshots').previous - stock <= out + off
    <2>1. CASE snapshots = <<>>
      <3>1. Counted(snapshots') \in Counts /\ Counted(snapshots').previous = q /\ Counted(snapshots').units = 0
        BY <1>2, <1>3, <2>1, CountedOne DEF s
      <3>2. 0 <= out + off /\ 0 + q - stock <= out + off
        BY <1>1, <1>3, <1>4
      <3> QED
        BY <3>1, <3>2
    <2>2. CASE snapshots # <<>>
      <3> DEFINE c == Counted(snapshots)
                 d == Counted(snapshots')
      <3>1. c \in Counts /\ d = SoldBetween(c, q)
        BY <1>1, <1>2, <1>3, <2>2, CountedMore DEF s
      <3>2. c.units <= out /\ c.units + c.previous - stock <= out
        BY <2>2 DEF DepletionInv, out
      <3> HIDE DEF c, d
      <3>3. d \in Counts /\ d.units <= out + off /\ d.units + d.previous - stock <= out + off
        BY <1>1, <1>3, <1>4, <3>1, <3>2, LookCounts
      <3> QED
        BY <3>3 DEF d
    <2> QED
      BY <2>1, <2>2
  <1>6. snapshots' \in Seq(Snapshots)
    BY <1>1, <1>2, <1>3 DEF s
  <1> QED
    BY <1>1, <1>4, <1>5, <1>6 DEF DepletionInv, Counts

LEMMA NatSum == ASSUME NEW a \in Nat, NEW b \in Nat PROVE a + b \in Nat
  OBVIOUS

LEMMA StillCovered ==
    ASSUME NEW u \in Nat, NEW p \in Nat, NEW shelf \in Nat, NEW left \in Nat,
           NEW was \in Nat, NEW is \in Nat, u <= was, was <= is,
           u + p - shelf <= was, shelf - left <= is - was
    PROVE  u <= is /\ u + p - left <= is
  OBVIOUS

LEMMA TradeKeeps == ASSUME DepletionInv, Trade PROVE DepletionInv'
  <1> DEFINE out == sold + amiss
             left == sold' + amiss'
  <1>1. /\ day \in Nat /\ stock \in 0..MaxStock /\ sold \in Nat /\ amiss \in Nat
        /\ snapshots \in Seq(Snapshots)
        /\ day' = day + 1 /\ snapshots' = snapshots /\ MaxStock \in Nat
    BY DemandAssumption DEF DepletionInv, Trade
  <1>2. /\ stock' \in 0..MaxStock /\ sold' \in Nat /\ amiss' \in Nat /\ out <= left
        /\ snapshots # <<>> => stock - stock' <= left - out
    <2>1. CASE stock' = MaxStock /\ stock < MaxStock /\ UNCHANGED <<sold, amiss>>
      BY <1>1, <2>1
    <2> DEFINE Leave(n) ==
            LET counted == IF snapshots = <<>> THEN 0 ELSE n
            IN  /\ stock' = stock - n
                /\ \/ sold' = sold + counted /\ UNCHANGED amiss
                   \/ amiss' = amiss + counted /\ UNCHANGED sold
    <2>2. CASE \E n \in 0..stock : Leave(n)
      <3>1. PICK n \in 0..stock : Leave(n)
        BY <2>2
      <3>2. n \in Nat /\ n <= stock /\ stock - n \in 0..MaxStock
        BY <1>1
      <3> DEFINE m == IF snapshots = <<>> THEN 0 ELSE n
      <3>3. m \in Nat /\ (snapshots # <<>> => m = n)
        BY <3>2
      <3>4. /\ stock' = stock - n
            /\ \/ sold' = sold + m /\ amiss' = amiss
               \/ amiss' = amiss + m /\ sold' = sold
        BY <3>1
      <3> HIDE DEF m
      <3>5. m \in Nat /\ n \in Nat /\ stock \in Int /\ sold \in Nat /\ amiss \in Nat
        BY <1>1, <3>2, <3>3
      <3>6. sold' \in Nat /\ amiss' \in Nat /\ sold' + amiss' = sold + amiss + m
        BY <3>4, <3>5
      <3>7. stock - stock' = n
        BY <3>4, <3>5
      <3>8. stock' \in 0..MaxStock
        BY <3>2, <3>4
      <3>9. sold + amiss \in Nat
        BY <3>5
      <3>10. left = out + m /\ out \in Nat
        BY <3>6, <3>9, Zenon DEF out, left
      <3> HIDE DEF out, left
      <3>11. out <= left /\ m <= left - out
        BY <3>5, <3>10
      <3> QED
        BY <3>3, <3>6, <3>7, <3>8, <3>11
    <2> QED
      BY <2>1, <2>2 DEF Trade
  <1>3. ASSUME snapshots # <<>>
        PROVE  LET c == Counted(snapshots)
               IN  /\ c.units \in Nat /\ c.previous \in Nat /\ c.restocked \in BOOLEAN
                   /\ c.units <= left /\ c.units + c.previous - stock' <= left
    <2> DEFINE c == Counted(snapshots)
    <2>1. /\ c.units \in Nat /\ c.previous \in Nat /\ c.restocked \in BOOLEAN
          /\ c.units <= out /\ c.units + c.previous - stock <= out
      BY <1>3 DEF DepletionInv
    <2> HIDE DEF c
    <2> DEFINE u == c.units
               p == c.previous
    <2>2. u \in Nat /\ p \in Nat /\ u <= out /\ u + p - stock <= out
      BY <2>1
    <2> HIDE DEF u, p
    <2>3. stock - stock' <= left - out
      BY <1>2, <1>3
    <2>4. u <= left /\ u + p - stock' <= left
      <3>1. stock \in Nat /\ stock' \in Nat
        BY <1>1, <1>2
      <3>2. out <= left
        BY <1>2
      <3>3. sold + amiss \in Nat /\ sold' + amiss' \in Nat
        <4>1. sold \in Nat /\ amiss \in Nat
          BY <1>1
        <4>2. sold' \in Nat /\ amiss' \in Nat
          BY <1>2
        <4> HIDE DEF out, left
        <4>3. sold + amiss \in Nat
          BY <4>1
        <4>4. sold' + amiss' \in Nat
          BY <4>2, NatSum, Zenon
        <4> QED
          BY <4>3, <4>4
      <3>4. out \in Nat /\ left \in Nat
        BY <3>3, Zenon DEF out, left
      <3> HIDE DEF out, left
      <3> QED
        BY <2>2, <2>3, <3>1, <3>2, <3>4, StillCovered
    <2>5. c.units <= left /\ c.units + c.previous - stock' <= left
      BY <2>4 DEF u, p
    <2> QED
      BY <2>1, <2>5 DEF c
  <1>4. day' \in Nat
    BY <1>1
  <1> QED
    BY <1>1, <1>2, <1>3, <1>4 DEF DepletionInv

LEMMA DepletionKeeps == DepletionInv /\ [DemandNext]_demandVars => DepletionInv'
  <1> SUFFICES ASSUME DepletionInv, [DemandNext]_demandVars PROVE DepletionInv'
    OBVIOUS
  <1>1. CASE Predict \/ OpenWindow \/ Compare
    BY <1>1 DEF Predict, OpenWindow, Compare, DepletionInv
  <1>2. CASE SalesDay
    <2>1. day' \in Nat /\ UNCHANGED <<stock, snapshots, sold, amiss>>
      BY <1>2 DEF SalesDay, DepletionInv
    <2> QED
      BY <2>1 DEF DepletionInv
  <1>3. CASE UNCHANGED demandVars
    BY <1>3 DEF demandVars, DepletionInv
  <1> QED
    BY <1>1, <1>2, <1>3, ObserveKeeps, TradeKeeps DEF DemandNext

LEMMA RoundedRises ==
    ASSUME NEW a \in Nat, NEW c \in Nat, a <= c, NEW b \in Nat \ {0}
    PROVE  Rounded(a, b) <= Rounded(c, b) /\ Rounded(a, b) \in Nat /\ Rounded(c, b) \in Nat
  <1> DEFINE q == (2 * a + b) \div (2 * b)
             r == (2 * c + b) \div (2 * b)
  <1>1. q \in Nat /\ 2 * b * q <= 2 * a + b
    OBVIOUS
  <1>2. r \in Nat /\ 2 * c + b < 2 * b * (r + 1)
    OBVIOUS
  <1>3. Rounded(a, b) = q /\ Rounded(c, b) = r
    BY DEF Rounded
  <1> HIDE DEF q, r
  <1>4. ASSUME r + 1 <= q PROVE FALSE
    <2>1. 2 * b * (r + 1) <= 2 * b * q
      BY <1>1, <1>2, <1>4
    <2> QED
      BY <1>1, <1>2, <2>1
  <1> QED
    BY <1>1, <1>2, <1>3, <1>4

(* Only depletion gives an observed estimate, and where it gives one that  *)
(* is the estimate.                                                        *)
LEMMA ObservedIsDepletion ==
    ASSUME NEW snaps, EstimateDemand(snaps).tier = "observed"
    PROVE  EstimateDemand(snaps) \in FromInventoryDepletion(snaps)
  <1> DEFINE a == FromInventoryDepletion(snaps)
             b == FromReviewVelocity(snaps)
             c == FromReviewTotal(snaps)
             found == a \cup b \cup c
             e == EstimateDemand(snaps)
             Best(x) == \A f \in found : ConfidenceRank[f.tier] <= ConfidenceRank[x.tier]
  <1>1. /\ \A x \in a : x.tier = "observed"
        /\ \A x \in b : x.tier = "velocity"
        /\ \A x \in c : x.tier = "heuristic"
    <2>1. ASSUME NEW monthly, NEW tier PROVE Estimate(monthly, tier).tier = tier
      BY DEF Estimate
    <2>2. ASSUME NEW x \in a PROVE x.tier = "observed"
      <3>1. PICK monthly : x = Estimate(monthly, "observed")
        BY DEF FromInventoryDepletion
      <3> QED
        BY <2>1, <3>1
    <2>3. ASSUME NEW x \in b PROVE x.tier = "velocity"
      <3>1. PICK monthly : x = Estimate(monthly, "velocity")
        BY DEF FromReviewVelocity
      <3> QED
        BY <2>1, <3>1
    <2>4. ASSUME NEW x \in c PROVE x.tier = "heuristic"
      <3>1. PICK monthly : x = Estimate(monthly, "heuristic")
        BY DEF FromReviewTotal
      <3> QED
        BY <2>1, <3>1
    <2> QED
      BY <2>2, <2>3, <2>4
  <1>2. e = IF found = {} THEN Estimate(None, "unknown") ELSE CHOOSE x \in found : Best(x)
    BY DEF EstimateDemand
  <1>3. found # {}
    <2>1. Estimate(None, "unknown").tier = "unknown" /\ e.tier = "observed"
      BY DEF Estimate
    <2> HIDE DEF found, e
    <2> QED
      BY <1>2, <2>1
  <1>4. /\ ConfidenceRank["observed"] = 6 /\ ConfidenceRank["velocity"] = 3
        /\ ConfidenceRank["heuristic"] = 1
    BY DEF ConfidenceRank
  <1> HIDE DEF a, b, c, e
  <1>5. \E x \in found : Best(x)
    <2>1. CASE a # {}
      BY <1>1, <1>4, <2>1
    <2>2. CASE a = {} /\ b # {}
      BY <1>1, <1>4, <2>2
    <2>3. CASE a = {} /\ b = {}
      BY <1>1, <1>3, <1>4, <2>3
    <2> QED
      BY <2>1, <2>2, <2>3
  <1>6. e \in found
    <2> HIDE DEF found, Best
    <2> QED
      BY <1>2, <1>3, <1>5
  <1>7. e.tier = "observed"
    BY DEF e
  <1>8. e \in a
    BY <1>1, <1>6, <1>7
  <1> QED
    BY <1>8 DEF a, e

LEMMA DepletionIsSafe == DepletionInv => DepletionCountsOnce
  <1> SUFFICES ASSUME DepletionInv, EstimateDemand(snapshots).tier = "observed"
               PROVE  EstimateDemand(snapshots).monthly <= Rounded((sold + amiss) * 300, Span(snapshots))
    BY DEF DepletionCountsOnce
  <1> DEFINE e == EstimateDemand(snapshots)
             u == Counted(snapshots).units
             d == Span(snapshots)
             out == sold + amiss
  <1>1. e \in FromInventoryDepletion(snapshots)
    BY ObservedIsDepletion
  <1>2. ~(Len(snapshots) < 2) /\ ~(d < MinDepletionDays) /\ e.monthly = Rounded(u * 300, d)
    BY <1>1 DEF FromInventoryDepletion, Estimate
  <1>3. snapshots \in Seq(Snapshots) /\ out \in Nat
    BY DEF DepletionInv
  <1>4. Len(snapshots) \in Nat /\ Len(snapshots) >= 2 /\ snapshots # <<>>
    <2>1. Len(snapshots) \in Nat /\ (snapshots # <<>> <=> Len(snapshots) >= 1)
      BY <1>3, SequenceParts
    <2> HIDE DEF e, u, d
    <2> QED
      BY <1>2, <2>1
  <1>5. d \in Nat \ {0}
    <2>1. snapshots[1] \in Snapshots /\ snapshots[Len(snapshots)] \in Snapshots
      BY <1>3, <1>4, SequenceParts
    <2>2. snapshots[1].day \in Nat /\ snapshots[Len(snapshots)].day \in Nat
      BY <2>1 DEF Snapshots
    <2>3. MinDepletionDays \in Nat \ {0} /\ d \in Int
      BY <2>2, DemandAssumption DEF Span
    <2> HIDE DEF d
    <2> QED
      BY <1>2, <2>3
  <1>6. u \in Nat /\ u <= out
    BY <1>4 DEF DepletionInv
  <1> HIDE DEF e, u, d, out
  <1>7. u * 300 \in Nat /\ out * 300 \in Nat /\ u * 300 <= out * 300
    BY <1>3, <1>6
  <1>8. Rounded(u * 300, d) <= Rounded(out * 300, d)
    <2> DEFINE x == u * 300
               y == out * 300
    <2>1. x \in Nat /\ y \in Nat /\ x <= y
      BY <1>7
    <2> HIDE DEF x, y
    <2>2. Rounded(x, d) <= Rounded(y, d)
      BY <1>5, <2>1, RoundedRises
    <2> QED
      BY <2>2 DEF x, y
  <1> QED
    BY <1>2, <1>8 DEF e, d, out

(* The place of a forecast is the last one made by the day.                *)
LEMMA PairedPlace ==
    ASSUME NEW fs \in Seq(Forecasts), NEW start \in Int
    PROVE  /\ PairedForecast(fs, start) \in 0..Len(fs)
           /\ \A i \in 1..Len(fs) : fs[i].at <= start => i <= PairedForecast(fs, start)
  <1> DEFINE S == {0} \cup {i \in 1..Len(fs) : fs[i].at <= start}
  <1>1. Len(fs) \in Nat
    OBVIOUS
  <1>2. S \in SUBSET (0..Len(fs)) /\ S \in SUBSET Nat /\ S # {}
    <2>1. \A x \in S : x \in 0..Len(fs)
      BY <1>1
    <2> HIDE DEF S
    <2>2. \A x \in S : x \in Nat
      BY <1>1, <2>1
    <2>3. 0 \in S
      BY DEF S
    <2> QED
      BY <2>1, <2>2, <2>3
  <1>3. \A i \in 1..Len(fs) : fs[i].at <= start => i \in S
    OBVIOUS
  <1>4. PairedForecast(fs, start) = Max(S)
    BY DEF PairedForecast
  <1> HIDE DEF S
  <1>5. IsFiniteSet(S)
    BY <1>1, <1>2, UpToFinite, FS_Subset
  <1>6. Max(S) \in S /\ \A s \in S : Max(S) >= s
    BY <1>2, <1>5, GreatestOfFinite
  <1>7. Max(S) \in 0..Len(fs)
    BY <1>2, <1>6
  <1>8. ASSUME NEW i \in 1..Len(fs), fs[i].at <= start PROVE i <= Max(S)
    <2>1. Max(S) >= i /\ Max(S) \in Int /\ i \in Int
      BY <1>1, <1>3, <1>6, <1>7, <1>8
    <2> QED
      BY <2>1
  <1> QED
    BY <1>4, <1>7, <1>8

LEMMA RatioTyped ==
    ASSUME NEW c \in Comparisons, c.predicted > 0
    PROVE  UnitsRatio(c) \in Nat /\ (c.actual <= c.predicted => UnitsRatio(c) <= 10000)
  <1> DEFINE a == c.actual
             p == c.predicted
  <1>1. a \in Nat /\ p \in Nat \ {0}
    BY DEF Comparisons
  <1>2. UnitsRatio(c) = (2 * (a * 10000) + p) \div (2 * p)
    <2> HIDE DEF a, p
    <2>1. a * 10000 >= 0
      BY <1>1
    <2> QED
      BY <1>1, <2>1 DEF UnitsRatio, Rounded, a, p
  <1> HIDE DEF a, p
  <1> DEFINE q == (2 * (a * 10000) + p) \div (2 * p)
  <1>3. q \in Nat /\ 2 * p * q <= 2 * (a * 10000) + p
    BY <1>1
  <1> HIDE DEF q
  <1>4. ASSUME a <= p, q >= 10001 PROVE FALSE
    <2>1. 2 * p * 10001 <= 2 * p * q
      BY <1>1, <1>3, <1>4
    <2>2. 2 * p * 10001 <= 2 * (p * 10000) + p
      BY <1>1, <1>3, <1>4, <2>1
    <2> QED
      BY <1>1, <2>2
  <1>5. a <= p => q <= 10000
    BY <1>3, <1>4
  <1> QED
    BY <1>2, <1>3, <1>5 DEF q, a, p

(* The median is a mean of one or two of the ratios.                       *)
LEMMA MedianTyped ==
    ASSUME NEW cs \in Seq(Comparisons), Cardinality(Ratios(cs)) # 0
    PROVE  /\ Cardinality(Ratios(cs)) \in Nat /\ MedianRatio(cs) \in Nat
           /\ (\A i \in DOMAIN cs : cs[i].actual <= cs[i].predicted) => MedianRatio(cs) <= 10000
  <1> DEFINE S == Ratios(cs)
             n == Cardinality(S)
             u(i) == UnitsRatio(cs[i])
             r == [i \in S |-> u(i)]
             Before(i, j) == r[i] < r[j] \/ (r[i] = r[j] /\ i < j)
             Less(i, j) == u(i) < u(j) \/ (u(i) = u(j) /\ i < j)
             R == {ij \in S \X S : Less(ij[1], ij[2])}
             order == FirstOf(S, n, R)
             Over == \A i \in DOMAIN cs : cs[i].actual <= cs[i].predicted
  <1>1. DOMAIN cs = 1..Len(cs) /\ Len(cs) \in Nat /\ \A i \in 1..Len(cs) : cs[i] \in Comparisons
    OBVIOUS
  <1>2. S \in SUBSET (1..Len(cs)) /\ \A i \in S : cs[i].predicted > 0
    BY <1>1 DEF Ratios
  <1>3. IsFiniteSet(S) /\ \A i \in S : i \in Int
    BY <1>1, <1>2, UpToFinite, FS_Subset
  <1>4. ASSUME NEW i \in S PROVE r[i] \in Nat /\ (Over => r[i] <= 10000)
    <2>1. cs[i] \in Comparisons /\ cs[i].predicted > 0 /\ i \in DOMAIN cs
      BY <1>1, <1>2
    <2>2. UnitsRatio(cs[i]) \in Nat /\ (cs[i].actual <= cs[i].predicted => UnitsRatio(cs[i]) <= 10000)
      BY <2>1, RatioTyped
    <2> HIDE DEF S
    <2> QED
      BY <2>1, <2>2
  <1>5. \A i, j \in S : <<i, j>> \in R <=> Before(i, j)
    <2>1. \A i, j \in S : <<i, j>> \in R <=> Less(i, j)
      <3> HIDE DEF Less, S
      <3> QED
        OBVIOUS
    <2>2. \A i \in S : r[i] = u(i)
      <3> HIDE DEF S, u
      <3> QED
        OBVIOUS
    <2> HIDE DEF S, R, r, u
    <2> QED
      BY <2>1, <2>2
  <1>6. MedianRatio(cs) = IF n % 2 = 1 THEN u(order[(n + 1) \div 2])
                          ELSE (u(order[n \div 2]) + u(order[n \div 2 + 1])) \div 2
    BY DEF MedianRatio
  <1>15. \A i \in S : r[i] = u(i)
    <2> HIDE DEF S, u
    <2> QED
      OBVIOUS
  <1> HIDE DEF S, r, R, Over, u
  <1>7. \A i \in S : <<i, i>> \notin R
    BY <1>3, <1>4, <1>5
  <1>8. \A i, j, k \in S : <<i, j>> \in R /\ <<j, k>> \in R => <<i, k>> \in R
    <2> SUFFICES ASSUME NEW i \in S, NEW j \in S, NEW k \in S, Before(i, j), Before(j, k)
                 PROVE  Before(i, k)
      BY <1>5
    <2>1. i \in Int /\ j \in Int /\ k \in Int /\ r[i] \in Int /\ r[j] \in Int /\ r[k] \in Int
      BY <1>3, <1>4
    <2> QED
      BY <2>1
  <1>9. \A i, j \in S : i = j \/ <<i, j>> \in R \/ <<j, i>> \in R
    <2> SUFFICES ASSUME NEW i \in S, NEW j \in S, i # j PROVE Before(i, j) \/ Before(j, i)
      BY <1>5
    <2>1. i \in Int /\ j \in Int /\ r[i] \in Int /\ r[j] \in Int
      BY <1>3, <1>4
    <2> QED
      BY <2>1
  <1>10. n \in Nat /\ \A k \in 1..n : order[k] \in S
    <2>1. IsFiniteSet(S)
      BY <1>3
    <2> HIDE DEF Before
    <2>2. Cardinality(S) \in Nat /\ DOMAIN order = 1..Cardinality(S) /\ \A i \in DOMAIN order : order[i] \in S
      BY ONLY <1>7, <1>8, <1>9, <2>1, AllInOrder DEF order, n
    <2> QED
      BY <2>2
  <1>11. n # 0
    BY DEF S
  <1> HIDE DEF n, order, Before
  <1>12. ASSUME NEW k \in 1..n PROVE u(order[k]) \in Nat /\ (Over => u(order[k]) <= 10000)
    <2>1. order[k] \in S
      BY <1>10
    <2> QED
      BY <1>4, <1>15, <2>1
  <1>13. CASE n % 2 = 1
    <2>1. (n + 1) \div 2 \in 1..n
      BY <1>10, <1>11, <1>13
    <2> QED
      BY <1>6, <1>10, <1>12, <1>13, <2>1 DEF n, S, Over
  <1>14. CASE n % 2 # 1
    <2>1. n \div 2 \in 1..n /\ n \div 2 + 1 \in 1..n
      BY <1>10, <1>11, <1>14
    <2> DEFINE a == u(order[n \div 2])
               b == u(order[n \div 2 + 1])
    <2>2. a \in Nat /\ b \in Nat /\ (Over => a <= 10000 /\ b <= 10000)
      BY <1>12, <2>1
    <2>3. MedianRatio(cs) = (a + b) \div 2
      BY <1>6, <1>14
    <2> HIDE DEF a, b
    <2>4. MedianRatio(cs) \in Nat /\ (Over => MedianRatio(cs) <= 10000)
      BY <2>2, <2>3
    <2> QED
      BY <1>10, <2>4 DEF n, S, Over
  <1> QED
    BY <1>13, <1>14

LEMMA CorrectionTyped ==
    ASSUME NEW cs \in Seq(Comparisons)
    PROVE  /\ Correction(cs) \in Nat
           /\ (\A i \in DOMAIN cs : cs[i].actual <= cs[i].predicted) => Correction(cs) <= 10000
  <1> DEFINE n == Cardinality(Ratios(cs))
             m == MedianRatio(cs)
             Over == \A i \in DOMAIN cs : cs[i].actual <= cs[i].predicted
  <1>1. Correction(cs) = IF n < MinSamples THEN 10000 ELSE Clamp(2500, m, 40000)
    BY DEF Correction
  <1>2. MinSamples \in Nat \ {0}
    BY DemandAssumption
  <1>3. CASE n < MinSamples
    BY <1>1, <1>3
  <1>4. CASE ~(n < MinSamples)
    <2>1. n # 0
      <3> HIDE DEF n
      <3> QED
        BY <1>2, <1>4
    <2>2. m \in Nat /\ (Over => m <= 10000)
      BY <2>1, MedianTyped
    <2> HIDE DEF n, m
    <2>3. Min({m, 40000}) = IF m <= 40000 THEN m ELSE 40000
      BY <2>2, MinOfTwo
    <2> DEFINE k == Min({m, 40000})
    <2>4. k \in Nat /\ (Over => k <= 10000)
      <3> HIDE DEF Over
      <3> QED
        BY <2>2, <2>3
    <2> HIDE DEF k
    <2>5. Max({2500, k}) = IF 2500 >= k THEN 2500 ELSE k
      BY <2>4, MaxOfTwo
    <2>6. Correction(cs) = Max({2500, k})
      BY <1>1, <1>4 DEF Clamp, k
    <2> HIDE DEF Over
    <2>7. Correction(cs) \in Nat /\ (Over => Correction(cs) <= 10000)
      BY <2>4, <2>5, <2>6
    <2> QED
      BY <2>7 DEF Over
  <1> QED
    BY <1>3, <1>4

LEMMA AppliedTyped ==
    ASSUME NEW cs \in Seq(Comparisons), NEW u \in Levels
    PROVE  Applied(u, cs) \in Nat
  <1> DEFINE c == Correction(cs)
             x == u * c
  <1>1. u \in Nat /\ u # None /\ c \in Nat
    BY DemandAssumption, CorrectionTyped DEF None
  <1> HIDE DEF c
  <1>2. x \in Nat
    BY <1>1
  <1> HIDE DEF x
  <1>3. Rounded(x, 10000) \in Nat
    BY <1>2, RoundedRises
  <1> QED
    BY <1>1, <1>3 DEF Applied, x, c

LEMMA MonthlyTyped ==
    ASSUME NEW units \in Nat, NEW days \in Nat
    PROVE  MonthlyUnits(units, days) \in Nat
  <1> DEFINE x == units * 300
             d == Max({1, days})
  <1>1. d = IF 1 >= days THEN 1 ELSE days
    BY MaxOfTwo
  <1>2. x \in Nat /\ d \in Nat \ {0}
    BY <1>1
  <1> HIDE DEF x, d
  <1>3. Rounded(x, d) \in Nat
    BY <1>2, RoundedRises
  <1> QED
    BY <1>3 DEF MonthlyUnits, x, d

Belief(fs, start) ==
    LET i == PairedForecast(fs, start) IN IF i = 0 THEN None ELSE fs[i].units

(* A forecast made after a window opened is not the one it is judged by.   *)
LEMMA LaterForecast ==
    ASSUME NEW fs \in Seq(Forecasts), NEW f \in Forecasts, NEW start \in Int, start < f.at
    PROVE  Belief(Append(fs, f), start) = Belief(fs, start)
  <1> DEFINE more == Append(fs, f)
             n == Len(fs)
  <1>1. /\ n \in Nat /\ Len(more) = n + 1 /\ more[n + 1] = f /\ \A i \in 1..n : more[i] = fs[i]
        /\ f.at \in Nat
    BY SequenceParts DEF Forecasts
  <1> HIDE DEF more
  <1>2. {i \in 1..Len(more) : more[i].at <= start} = {i \in 1..n : fs[i].at <= start}
    <2> HIDE DEF n
    <2>1. ASSUME NEW i \in 1..Len(more), more[i].at <= start PROVE i \in 1..n /\ fs[i].at <= start
      <3>1. i \in 1..n \/ i = n + 1
        BY <1>1
      <3>2. i # n + 1
        BY <1>1, <2>1
      <3> QED
        BY <1>1, <2>1, <3>1, <3>2
    <2>2. ASSUME NEW i \in 1..n, fs[i].at <= start PROVE i \in 1..Len(more) /\ more[i].at <= start
      BY <1>1, <2>2
    <2> QED
      BY <2>1, <2>2
  <1>3. PairedForecast(more, start) = PairedForecast(fs, start)
    BY <1>2 DEF PairedForecast
  <1>4. PairedForecast(fs, start) \in 0..n
    BY PairedPlace
  <1>5. PairedForecast(fs, start) # 0 => more[PairedForecast(fs, start)] = fs[PairedForecast(fs, start)]
    BY <1>1, <1>4
  <1> QED
    BY <1>3, <1>5 DEF Belief, more

(* On the day it opens a window is judged by the latest forecast.          *)
LEMMA LatestForecast ==
    ASSUME ForecastInv
    PROVE  Belief(forecasts, day) = Latest /\ Latest \in Int
  <1> DEFINE i == PairedForecast(forecasts, day)
             n == Len(forecasts)
  <1>1. /\ day \in Nat /\ forecasts \in Seq(Forecasts) /\ n \in Nat
        /\ \A k \in 1..n : forecasts[k].at <= day /\ forecasts[k] \in Forecasts
    BY SequenceParts DEF ForecastInv
  <1>2. i \in 0..n /\ \A k \in 1..n : k <= i
    <2>1. day \in Int
      BY <1>1
    <2>2. i \in 0..n /\ \A k \in 1..n : forecasts[k].at <= day => k <= i
      BY <1>1, <2>1, PairedPlace
    <2> HIDE DEF i, n
    <2> QED
      BY <1>1, <2>2
  <1> HIDE DEF i
  <1>3. i = n
    <2> HIDE DEF n
    <2>1. n = 0 \/ n \in 1..n
      BY <1>1
    <2> QED
      BY <1>1, <1>2, <2>1
  <1>4. forecasts = <<>> <=> n = 0
    BY <1>1
  <1>5. n # 0 => forecasts[n].units \in Nat
    <2> HIDE DEF n
    <2>1. n # 0 => n \in 1..n
      BY <1>1
    <2> QED
      BY <1>1, <2>1 DEF Forecasts
  <1>6. Belief(forecasts, day) = IF n = 0 THEN None ELSE forecasts[n].units
    BY <1>3 DEF Belief, i
  <1>7. Latest = IF n = 0 THEN None ELSE forecasts[n].units
    BY <1>4 DEF Latest
  <1> HIDE DEF n
  <1> QED
    BY <1>5, <1>6, <1>7 DEF None

LEMMA PredictKeeps == ASSUME ForecastInv, Predict PROVE ForecastInv'
  <1>1. /\ day \in Nat /\ forecasts \in Seq(Forecasts) /\ comparisons \in Seq(Comparisons)
        /\ \A i \in 1..Len(forecasts) : forecasts[i].at <= day
        /\ UNCHANGED <<day, window, comparisons>> /\ window.start # day
    BY DEF ForecastInv, Predict
  <1>2. PICK u \in Levels : forecasts' = Append(forecasts, [at |-> day, units |-> Applied(u, comparisons)])
    BY DEF Predict
  <1> DEFINE f == [at |-> day, units |-> Applied(u, comparisons)]
             n == Len(forecasts)
  <1>3. f \in Forecasts /\ f.at = day
    BY <1>1, AppliedTyped DEF Forecasts
  <1> HIDE DEF f
  <1>4. /\ forecasts' \in Seq(Forecasts) /\ n \in Nat /\ Len(forecasts') = n + 1 /\ forecasts'[n + 1] = f
        /\ \A i \in 1..n : forecasts'[i] = forecasts[i]
    BY <1>1, <1>2, <1>3, SequenceParts DEF f
  <1>5. \A i \in 1..Len(forecasts') : forecasts'[i].at <= day
    <2> SUFFICES ASSUME NEW i \in 1..Len(forecasts') PROVE forecasts'[i].at <= day
      OBVIOUS
    <2> HIDE DEF n
    <2>1. i = n + 1 \/ i \in 1..n
      BY <1>4
    <2>2. CASE i = n + 1
      BY <1>1, <1>3, <1>4, <2>2
    <2>3. CASE i \in 1..n
      BY <1>1, <1>4, <2>3 DEF n
    <2> QED
      BY <2>1, <2>2, <2>3
  <1>6. ASSUME window # NoWindow
        PROVE  /\ window \in [start : 0..day, sold : Nat, belief : Int]
               /\ window.belief = Belief(forecasts', window.start)
    <2>1. /\ window \in [start : 0..day, sold : Nat, belief : Int]
          /\ window.belief = Belief(forecasts, window.start)
      BY <1>6 DEF ForecastInv, Belief
    <2>2. window.start \in Int /\ window.start < f.at
      BY <1>1, <1>3, <2>1
    <2>3. Belief(forecasts', window.start) = Belief(forecasts, window.start)
      BY <1>1, <1>2, <1>3, <2>2, LaterForecast DEF f
    <2> QED
      BY <2>1, <2>3
  <1>7. \A i \in 1..Len(comparisons) : comparisons[i].predicted = comparisons[i].belief
    BY DEF ForecastInv
  <1> QED
    BY <1>1, <1>4, <1>5, <1>6, <1>7 DEF ForecastInv, Belief

LEMMA OpenWindowKeeps == ASSUME ForecastInv, OpenWindow PROVE ForecastInv'
  <1>1. /\ UNCHANGED <<day, forecasts, comparisons>>
        /\ window' = [start |-> day, sold |-> 0, belief |-> Latest]
    BY DEF OpenWindow
  <1>2. day \in Nat /\ Belief(forecasts, day) = Latest /\ Latest \in Int
    BY LatestForecast DEF ForecastInv
  <1>3. /\ window' \in [start : 0..day, sold : Nat, belief : Int]
        /\ window'.belief = Belief(forecasts, window'.start)
    BY <1>1, <1>2
  <1> QED
    BY <1>1, <1>3 DEF ForecastInv, Belief

LEMMA DayPasses ==
    ASSUME ForecastInv, day' = day + 1, UNCHANGED <<forecasts, comparisons>>,
           \/ window' = window
           \/ window # NoWindow /\ \E n \in 0..1 : window' = [window EXCEPT !.sold = @ + n]
    PROVE  ForecastInv'
  <1>1. day \in Nat /\ day' \in Nat /\ forecasts \in Seq(Forecasts)
    BY DEF ForecastInv
  <1>2. ASSUME window' # NoWindow
        PROVE  /\ window' \in [start : 0..day', sold : Nat, belief : Int]
               /\ window'.belief = Belief(forecasts, window'.start)
    <2>1. window # NoWindow
      BY <1>2
    <2>2. /\ window \in [start : 0..day, sold : Nat, belief : Int]
          /\ window.belief = Belief(forecasts, window.start)
      BY <2>1 DEF ForecastInv, Belief
    <2>3. PICK n \in 0..1 : window' = window \/ window' = [window EXCEPT !.sold = @ + n]
      OBVIOUS
    <2>4. window' \in [start : 0..day, sold : Nat, belief : Int]
      BY <2>2, <2>3
    <2>5. window'.start = window.start /\ window'.belief = window.belief
      BY <2>2, <2>3
    <2>6. window' \in [start : 0..day', sold : Nat, belief : Int]
      BY <1>1, <2>4
    <2> QED
      BY <2>2, <2>5, <2>6
  <1>3. \A i \in 1..Len(forecasts) : forecasts[i].at <= day'
    <2> SUFFICES ASSUME NEW i \in 1..Len(forecasts) PROVE forecasts[i].at <= day'
      OBVIOUS
    <2>1. forecasts[i].at <= day
      BY DEF ForecastInv
    <2>2. forecasts[i].at \in Nat
      <3>1. forecasts[i] \in Forecasts
        BY <1>1, SequenceParts
      <3> QED
        BY <3>1 DEF Forecasts
    <2> QED
      BY <1>1, <2>1, <2>2
  <1>4. comparisons \in Seq(Comparisons) /\ \A i \in 1..Len(comparisons) : comparisons[i].predicted = comparisons[i].belief
    BY DEF ForecastInv
  <1> QED
    BY <1>1, <1>2, <1>3, <1>4 DEF ForecastInv, Belief

LEMMA CompareKeeps == ASSUME ForecastInv, Compare PROVE ForecastInv'
  <1> DEFINE i == PairedForecast(forecasts, window.start)
  <1>1. /\ day \in Nat /\ forecasts \in Seq(Forecasts) /\ comparisons \in Seq(Comparisons)
        /\ window # NoWindow /\ window.start < day /\ UNCHANGED <<day, forecasts>>
        /\ window' = NoWindow
        /\ window \in [start : 0..day, sold : Nat, belief : Int]
        /\ window.belief = IF i = 0 THEN None ELSE forecasts[i].units
        /\ comparisons' = IF i = 0 THEN comparisons
                          ELSE Append(comparisons,
                                 [predicted |-> forecasts[i].units, belief |-> window.belief,
                                  actual |-> MonthlyUnits(window.sold, day - window.start)])
    BY DEF ForecastInv, Compare
  <1>2. window.start \in Nat /\ window.sold \in Nat /\ day - window.start \in Nat
    BY <1>1
  <1>3. i \in 0..Len(forecasts)
    BY <1>1, <1>2, PairedPlace
  <1>4. \A k \in 1..Len(comparisons) : comparisons[k].predicted = comparisons[k].belief
    BY DEF ForecastInv
  <1> HIDE DEF i
  <1>5. /\ comparisons' \in Seq(Comparisons)
        /\ \A k \in 1..Len(comparisons') : comparisons'[k].predicted = comparisons'[k].belief
    <2>1. CASE i = 0
      BY <1>1, <1>4, <2>1
    <2>2. CASE i # 0
      <3> DEFINE c == [predicted |-> forecasts[i].units, belief |-> window.belief,
                       actual |-> MonthlyUnits(window.sold, day - window.start)]
                 n == Len(comparisons)
      <3>1. forecasts[i].units \in Nat
        <4>1. Len(forecasts) \in Nat /\ \A k \in 1..Len(forecasts) : forecasts[k] \in Forecasts
          BY <1>1, SequenceParts
        <4>2. forecasts[i] \in Forecasts
          BY <1>3, <2>2, <4>1
        <4> QED
          BY <4>2 DEF Forecasts
      <3>2. MonthlyUnits(window.sold, day - window.start) \in Nat
        BY <1>2, MonthlyTyped
      <3>3. c \in Comparisons /\ c.predicted = c.belief
        BY <1>1, <2>2, <3>1, <3>2 DEF Comparisons
      <3>4. comparisons' = Append(comparisons, c)
        BY <1>1, <2>2
      <3> HIDE DEF c
      <3>5. /\ comparisons' \in Seq(Comparisons) /\ n \in Nat /\ Len(comparisons') = n + 1
            /\ comparisons'[n + 1] = c /\ \A k \in 1..n : comparisons'[k] = comparisons[k]
        BY <1>1, <3>3, <3>4, SequenceParts
      <3>6. ASSUME NEW k \in 1..Len(comparisons') PROVE comparisons'[k].predicted = comparisons'[k].belief
        <4>1. k = n + 1 \/ k \in 1..n
          <5> HIDE DEF n
          <5> QED
            BY <3>5
        <4> QED
          BY <1>4, <3>3, <3>5, <4>1
      <3> QED
        BY <3>5, <3>6
    <2> QED
      BY <2>1, <2>2
  <1>6. \A k \in 1..Len(forecasts) : forecasts[k].at <= day
    BY DEF ForecastInv
  <1> QED
    BY <1>1, <1>5, <1>6 DEF ForecastInv

LEMMA ForecastKeeps == ForecastInv /\ [DemandNext]_demandVars => ForecastInv'
  <1> SUFFICES ASSUME ForecastInv, [DemandNext]_demandVars PROVE ForecastInv'
    OBVIOUS
  <1>1. CASE Observe
    BY <1>1 DEF Observe, ForecastInv
  <1>2. CASE UNCHANGED demandVars
    BY <1>2 DEF demandVars, ForecastInv
  <1>3. CASE Trade \/ SalesDay
    BY <1>3, DayPasses DEF Trade, SalesDay
  <1> QED
    BY <1>1, <1>2, <1>3, PredictKeeps, OpenWindowKeeps, CompareKeeps DEF DemandNext

(* The invariants of the listing and of its forecasts.                     *)
LEMMA DemandInvariant == DemandSpec => [](DepletionInv /\ ForecastInv)
  <1>1. DepletionInv /\ ForecastInv /\ [DemandNext]_demandVars => (DepletionInv /\ ForecastInv)'
    BY DepletionKeeps, ForecastKeeps
  <1> QED
    BY <1>1, DemandInitInv, PTL DEF DemandSpec

(* Whatever the looks answer and whatever is sold, taken back or           *)
(* delivered between them, for every size of shelf and every distance of   *)
(* the looks: the depletion estimate is at most that of the units sold,    *)
(* taken back, and misread other than as none, each once.                  *)
THEOREM DepletionCountsUnitsOnce == DemandSpec => []DepletionCountsOnce
  BY DemandInvariant, DepletionIsSafe, PTL

(* However many forecasts are made while a window is open, it is judged by *)
(* the one there was when it opened; and a median of ratios of which none  *)
(* is above 1 does not raise the next forecast.                            *)
THEOREM ForecastsAreJudgedFairly == DemandSpec => []ForecastsJudgedFairly
  <1>1. ForecastInv => ForecastsJudgedFairly
    <2> SUFFICES ASSUME ForecastInv PROVE ForecastsJudgedFairly
      OBVIOUS
    <2>1. /\ comparisons \in Seq(Comparisons) /\ DOMAIN comparisons = 1..Len(comparisons)
          /\ \A i \in 1..Len(comparisons) : comparisons[i].predicted = comparisons[i].belief
      BY DEF ForecastInv
    <2> QED
      BY <2>1, CorrectionTyped DEF ForecastsJudgedFairly
  <1> QED
    BY <1>1, DemandInvariant, PTL

(***************************************************************************)
(* PriceListIngest: a heading is read by name, so the columns of a list    *)
(* are worked out field by field, in the order in which the fields claim.  *)
(***************************************************************************)

Fields == {Order[n] : n \in 1..8}
HeaderRows == Seq(Headings)
Claims(row) == UNION {[D -> DOMAIN row] : D \in SUBSET Fields}

Free(row, cols) == DOMAIN row \ {cols[f] : f \in DOMAIN cols}

LEMMA OrderIs ==
    /\ Len(Order) = 8 /\ Order[1] = "upc" /\ Order[2] = "case_pack" /\ Order[3] = "case_cost"
    /\ Order[4] = "msrp" /\ Order[5] = "unit_cost" /\ Order[6] = "moq" /\ Order[7] = "sku"
    /\ Order[8] = "description"
  BY DEF Order, ResolutionOrder

LEMMA FieldsAre ==
    Fields = {"upc", "case_pack", "case_cost", "msrp", "unit_cost", "moq", "sku", "description"}
  <1>1. \A n : n \in 1..8 <=> n \in {1, 2, 3, 4, 5, 6, 7, 8}
    OBVIOUS
  <1> QED
    BY <1>1, OrderIs DEF Fields

LEMMA ScoresAreSmall ==
    ASSUME NEW h \in Headings, NEW field \in Fields
    PROVE  HeaderScore(h, field) \in Nat /\ HeaderScore(h, field) <= 1016
  <1> DEFINE Small(g) == HeaderScore(h, g) \in Nat /\ HeaderScore(h, g) <= 1016
  <1>1. Small("upc") /\ Small("case_pack") /\ Small("msrp")
    BY DEF HeaderScore
  <1>2. Small("case_cost")
    BY DEF HeaderScore
  <1>3. Small("unit_cost")
    BY DEF HeaderScore
  <1>4. Small("moq") /\ Small("sku") /\ Small("description")
    BY DEF HeaderScore
  <1> HIDE DEF Small
  <1>5. Small(field)
    BY FieldsAre, <1>1, <1>2, <1>3, <1>4
  <1> QED
    BY <1>5 DEF Small

LEMMA BestOfFree ==
    ASSUME NEW row \in HeaderRows, NEW field \in Fields, NEW free \in SUBSET (DOMAIN row),
           NEW k \in free, HeaderScore(row[k], field) >= 200
    PROVE  \E i \in free : /\ HeaderScore(row[i], field) >= 200
                           /\ \A j \in free : HeaderScore(row[i], field) >= HeaderScore(row[j], field)
  <1> DEFINE score == [i \in free |-> HeaderScore(row[i], field)]
             Short == {1016 - score[i] : i \in free}
  <1>1. score \in [free -> Nat] /\ \A i \in free : score[i] <= 1016
    <2>1. \A i \in DOMAIN row : row[i] \in Headings
      BY DEF HeaderRows
    <2> QED
      BY <2>1, ScoresAreSmall
  <1>2. \A i \in free : score[i] = HeaderScore(row[i], field)
    OBVIOUS
  <1>3. score[k] >= 200
    OBVIOUS
  <1> HIDE DEF score
  <1>4. \A i \in free : score[i] \in Nat /\ score[i] <= 1016
    BY <1>1
  <1>5. Short \in SUBSET Nat /\ Short # {}
    BY <1>4
  <1>6. Min(Short) \in Short /\ \A s \in Short : Min(Short) <= s
    <2> HIDE DEF Short
    <2> QED
      BY <1>5, FirstInstant
  <1>7. PICK i \in free : Min(Short) = 1016 - score[i]
    BY <1>6
  <1>8. ASSUME NEW j \in free PROVE score[i] >= score[j]
    <2>1. 1016 - score[i] <= 1016 - score[j]
      BY <1>6, <1>7
    <2>2. score[i] \in Int /\ score[j] \in Int
      BY <1>4
    <2> QED
      BY <2>1, <2>2
  <1>9. score[i] >= 200
    BY <1>3, <1>4, <1>8
  <1> QED
    BY <1>2, <1>8, <1>9

Names(h, field) == HeaderScore(h, field) >= 200
NoWorse(g, h, field) == HeaderScore(g, field) >= HeaderScore(h, field)

(* What a field's claim c makes of the claims before it.                    *)
Extends(row, cols, field, c) ==
    /\ c \in Claims(row)
    /\ DOMAIN cols \subseteq DOMAIN c /\ DOMAIN c \subseteq DOMAIN cols \cup {field}
    /\ \A f \in DOMAIN cols : c[f] = cols[f]
    /\ (\E k \in Free(row, cols) : Names(row[k], field)) => field \in DOMAIN c
    /\ field \in DOMAIN c => /\ c[field] \in Free(row, cols)
                            /\ Names(row[c[field]], field)
                            /\ \A j \in Free(row, cols) : NoWorse(row[c[field]], row[j], field)

LEMMA ClaimIs ==
    ASSUME NEW row \in HeaderRows, NEW field \in Fields, NEW cols \in Claims(row),
           field \notin DOMAIN cols
    PROVE  Extends(row, cols, field, Claim(row, cols, field))
  <1> DEFINE best == {i \in Free(row, cols) :
                        /\ HeaderScore(row[i], field) >= 200
                        /\ \A j \in Free(row, cols) : HeaderScore(row[i], field) >= HeaderScore(row[j], field)}
             first == CHOOSE i \in best : \A j \in best : i <= j
             c == Claim(row, cols, field)
  <1>1. c = IF best = {} THEN cols
            ELSE [f \in DOMAIN cols \cup {field} |-> IF f = field THEN first ELSE cols[f]]
    BY DEF Claim, Free
  <1>2. (\E k \in Free(row, cols) : HeaderScore(row[k], field) >= 200) => best # {}
    BY BestOfFree DEF Free
  <1>3. best # {} => first \in best
    <2>1. DOMAIN row \in SUBSET Nat
      BY DEF HeaderRows
    <2>2. best \in SUBSET Nat
      BY <2>1 DEF Free
    <2> HIDE DEF best
    <2> QED
      BY <2>2, FirstInstant
  <1>4. DOMAIN cols \in SUBSET Fields /\ cols \in [DOMAIN cols -> DOMAIN row]
    BY DEF Claims
  <1>5. \A i \in best : /\ i \in Free(row, cols) /\ i \in DOMAIN row
                        /\ HeaderScore(row[i], field) >= 200
                        /\ \A j \in Free(row, cols) : HeaderScore(row[i], field) >= HeaderScore(row[j], field)
    BY DEF Free
  <1> HIDE DEF best, first, c
  <1>6. CASE best = {}
    <2>1. c = cols
      BY <1>1, <1>6
    <2> QED
      BY <1>2, <1>6, <2>1 DEF c, Extends, Names, NoWorse
  <1>7. CASE best # {}
    <2>1. c = [f \in DOMAIN cols \cup {field} |-> IF f = field THEN first ELSE cols[f]]
      BY <1>1, <1>7
    <2>2. first \in DOMAIN row /\ DOMAIN cols \cup {field} \in SUBSET Fields
      BY <1>3, <1>4, <1>5, <1>7
    <2>3. c \in [DOMAIN cols \cup {field} -> DOMAIN row]
      BY <1>4, <2>1, <2>2
    <2>4. c \in Claims(row)
      BY <2>2, <2>3 DEF Claims
    <2>5. c[field] = first /\ DOMAIN c = DOMAIN cols \cup {field} /\ \A f \in DOMAIN cols : c[f] = cols[f]
      BY <2>1
    <2> QED
      BY <1>3, <1>5, <1>7, <2>4, <2>5 DEF c, Extends, Names, NoWorse
  <1> QED
    BY <1>6, <1>7

(* The claims as they stand after the first n fields.                      *)
LEMMA MapColumnsIs ==
    ASSUME NEW row
    PROVE  \E c : /\ MapColumns(row) = c[8] /\ c[0] = [f \in {} |-> 0]
                  /\ \A n \in 1..8 : c[n] = Claim(row, c[n - 1], Order[n])
  <1> DEFINE IsMap(w) == w = [n \in 0..8 |-> IF n = 0 THEN [f \in {} |-> 0]
                                             ELSE Claim(row, w[n - 1], Order[n])]
             c == CHOOSE w : IsMap(w)
             c0 == [f \in {} |-> 0]
             c1 == Claim(row, c0, Order[1])
             c2 == Claim(row, c1, Order[2])
             c3 == Claim(row, c2, Order[3])
             c4 == Claim(row, c3, Order[4])
             c5 == Claim(row, c4, Order[5])
             c6 == Claim(row, c5, Order[6])
             c7 == Claim(row, c6, Order[7])
             c8 == Claim(row, c7, Order[8])
             w == <<c1, c2, c3, c4, c5, c6, c7, c8>>
             e == [n \in 0..8 |-> IF n = 0 THEN c0 ELSE w[n]]
  <1>1. MapColumns(row) = c[8]
    BY OrderIs DEF MapColumns
  <1>2. \A n \in 0..8 : e[n] = IF n = 0 THEN c0 ELSE Claim(row, e[n - 1], Order[n])
    <2>1. e[0] = c0 /\ e[1] = c1 /\ e[2] = c2 /\ e[3] = c3 /\ e[4] = c4 /\ e[5] = c5 /\ e[6] = c6
          /\ e[7] = c7 /\ e[8] = c8
      <3> HIDE DEF c0, c1, c2, c3, c4, c5, c6, c7, c8
      <3> QED
        OBVIOUS
    <2>2. \A n \in 0..8 : n \in {0, 1, 2, 3, 4, 5, 6, 7, 8}
      OBVIOUS
    <2>3. /\ c1 = Claim(row, c0, Order[1]) /\ c2 = Claim(row, c1, Order[2])
          /\ c3 = Claim(row, c2, Order[3]) /\ c4 = Claim(row, c3, Order[4])
          /\ c5 = Claim(row, c4, Order[5]) /\ c6 = Claim(row, c5, Order[6])
          /\ c7 = Claim(row, c6, Order[7]) /\ c8 = Claim(row, c7, Order[8])
      OBVIOUS
    <2> HIDE DEF c0, c1, c2, c3, c4, c5, c6, c7, c8, w, e
    <2> QED
      BY <2>1, <2>2, <2>3
  <1>3. IsMap(e)
    <2>1. e = [n \in 0..8 |-> e[n]]
      OBVIOUS
    <2> HIDE DEF e
    <2> QED
      BY <1>2, <2>1
  <1>4. IsMap(c)
    <2> HIDE DEF IsMap, e
    <2> QED
      BY <1>3
  <1>5. c[0] = [f \in {} |-> 0] /\ \A n \in 1..8 : c[n] = Claim(row, c[n - 1], Order[n])
    <2> HIDE DEF c
    <2> QED
      BY <1>4
  <1> QED
    BY <1>1, <1>5

(* What headings the fields up to the unit cost can claim.  A case price    *)
(* outscores "Case Pack" as the case cost.                                  *)
PacksAndCodes == {"UPC", "Case Pack"}
CaseCosts == {"Case Cost", "Case Price"}
OtherPrices == {"Case Cost", "Case Price", "Retail Price"}

HighScores == {1009, 1010, 1012}

LEMMA PricesScoreHigh ==
    /\ HeaderScore("Case Cost", "case_cost") \in HighScores
    /\ HeaderScore("Case Price", "case_cost") \in HighScores
    /\ HeaderScore("Retail Price", "msrp") \in HighScores
  <1>1. 1009 \in HighScores /\ 1010 \in HighScores /\ 1012 \in HighScores
    BY DEF HighScores
  <1>2. HeaderScore("Case Cost", "case_cost") \in HighScores
    BY <1>1, Zenon DEF HeaderScore
  <1>3. HeaderScore("Case Price", "case_cost") \in HighScores
    BY <1>1, Zenon DEF HeaderScore
  <1>4. HeaderScore("Retail Price", "msrp") \in HighScores
    BY <1>1, Zenon DEF HeaderScore
  <1> QED
    BY <1>2, <1>3, <1>4

LEMMA EnoughNames ==
    ASSUME NEW h, NEW field, HeaderScore(h, field) \in HighScores
    PROVE  Names(h, field)
  BY DEF Names, HighScores

LEMMA LessIsWorse ==
    ASSUME NEW g, NEW h, NEW field, HeaderScore(g, field) = 504,
           HeaderScore(h, field) \in HighScores
    PROVE  ~ NoWorse(g, h, field)
  BY DEF NoWorse, HighScores

LEMMA CaseCostsScore ==
    ASSUME NEW h \in CaseCosts
    PROVE  HeaderScore(h, "case_cost") \in HighScores
  <1>1. h = "Case Cost" \/ h = "Case Price"
    BY DEF CaseCosts
  <1> QED
    BY <1>1, PricesScoreHigh, Zenon

LEMMA NoughtNamesNothing ==
    ASSUME NEW h, NEW field, HeaderScore(h, field) = 0
    PROVE  ~ Names(h, field)
  BY DEF Names

LEMMA HeadingsNamed ==
    ASSUME NEW h \in Headings
    PROVE  /\ Names(h, "upc") => h \in PacksAndCodes
           /\ Names(h, "case_pack") => h \in PacksAndCodes
           /\ Names(h, "case_cost") => h \in PacksAndCodes \cup CaseCosts
           /\ Names(h, "msrp") => Meaning[h] = "msrp"
           /\ Names(h, "unit_cost") => Meaning[h] = "unit_cost" \/ h \in OtherPrices
           /\ h \in CaseCosts => Names(h, "case_cost") /\ Meaning[h] = "case_cost"
           /\ h \in OtherPrices /\ h \notin CaseCosts => Names(h, "msrp") /\ Meaning[h] = "msrp"
           /\ h \in OtherPrices => h \notin PacksAndCodes
           /\ h \in CaseCosts => h \in OtherPrices
  <1>1. Names(h, "upc") => h \in PacksAndCodes
    <2>1. h = "UPC" \/ HeaderScore(h, "upc") = 0
      BY Zenon DEF HeaderScore
    <2> QED
      BY <2>1, NoughtNamesNothing DEF PacksAndCodes
  <1>2. Names(h, "case_pack") => h \in PacksAndCodes
    <2>1. h = "Case Pack" \/ HeaderScore(h, "case_pack") = 0
      BY Zenon DEF HeaderScore
    <2> QED
      BY <2>1, NoughtNamesNothing DEF PacksAndCodes
  <1>3. Names(h, "case_cost") => h \in PacksAndCodes \cup CaseCosts
    <2>1. h \in {"Case Pack", "Case Cost", "Case Price"} \/ HeaderScore(h, "case_cost") = 0
      BY Zenon DEF HeaderScore
    <2> QED
      BY <2>1, NoughtNamesNothing DEF PacksAndCodes, CaseCosts
  <1>4. Names(h, "msrp") => Meaning[h] = "msrp"
    <2>1. h = "Retail Price" \/ HeaderScore(h, "msrp") = 0
      BY Zenon DEF HeaderScore
    <2>2. h = "Retail Price" => Meaning[h] = "msrp"
      BY DEF Meaning
    <2> QED
      BY <2>1, <2>2, NoughtNamesNothing
  <1>5. Names(h, "unit_cost") => Meaning[h] = "unit_cost" \/ h \in OtherPrices
    <2> DEFINE Priced == {"Unit Cost", "Wholesale Price", "Cost", "Price", "Case Cost", "Case Price",
                         "Retail Price"}
    <2>1. h \in Priced \/ HeaderScore(h, "unit_cost") = 0
      <3>1. SUFFICES ASSUME h \notin Priced PROVE HeaderScore(h, "unit_cost") = 0
        OBVIOUS
      <3>2. /\ h # "Unit Cost" /\ h # "Wholesale Price" /\ h # "Cost" /\ h # "Price"
            /\ h # "Case Cost" /\ h \notin {"Case Price", "Retail Price"}
        BY <3>1
      <3> HIDE DEF Priced
      <3> QED
        BY <3>2, ZenonT(60) DEF HeaderScore
    <2>2. h \in {"Unit Cost", "Wholesale Price", "Cost", "Price"} => Meaning[h] = "unit_cost"
      BY DEF Meaning, Headings
    <2>3. h \in {"Case Cost", "Case Price", "Retail Price"} => h \in OtherPrices
      BY DEF OtherPrices
    <2> QED
      BY <2>1, <2>2, <2>3, NoughtNamesNothing
  <1>6. h \in CaseCosts => Names(h, "case_cost") /\ Meaning[h] = "case_cost"
    <2>1. h \in CaseCosts => Names(h, "case_cost")
      BY CaseCostsScore, EnoughNames, Zenon
    <2>2. Meaning["Case Cost"] = "case_cost" /\ Meaning["Case Price"] = "case_cost"
      BY DEF Meaning, Headings
    <2> QED
      BY <2>1, <2>2, Zenon DEF CaseCosts
  <1>7. h \in OtherPrices /\ h \notin CaseCosts => Names(h, "msrp") /\ Meaning[h] = "msrp"
    <2>1. h \in OtherPrices /\ h \notin CaseCosts => h = "Retail Price"
      BY DEF OtherPrices, CaseCosts
    <2>2. Names("Retail Price", "msrp")
      <3>1. HeaderScore("Retail Price", "msrp") \in HighScores
        BY PricesScoreHigh
      <3> QED
        BY <3>1, EnoughNames, Zenon
    <2>3. Meaning["Retail Price"] = "msrp"
      BY DEF Meaning, Headings
    <2> QED
      BY <2>1, <2>2, <2>3, Zenon
  <1>8. h \in OtherPrices => h \notin PacksAndCodes
    BY DEF OtherPrices, PacksAndCodes
  <1>9. h \in CaseCosts => h \in OtherPrices
    BY DEF OtherPrices, CaseCosts
  <1> QED
    BY <1>1, <1>2, <1>3, <1>4, <1>5, <1>6, <1>7, <1>8, <1>9

LEMMA CaseCostOutscores ==
    ASSUME NEW g \in Headings, NEW h \in CaseCosts, Names(g, "case_cost"), NoWorse(g, h, "case_cost")
    PROVE  g \in CaseCosts
  <1>1. g \in {"Case Pack", "Case Cost", "Case Price"} \/ HeaderScore(g, "case_cost") = 0
    BY Zenon DEF HeaderScore
  <1>2. g = "Case Pack" \/ g \in CaseCosts
    BY <1>1, NoughtNamesNothing, Zenon DEF CaseCosts
  <1>3. g # "Case Pack"
    <2>1. HeaderScore("Case Pack", "case_cost") = 504
      BY DEF HeaderScore
    <2>2. HeaderScore(h, "case_cost") \in HighScores
      BY CaseCostsScore, Zenon
    <2>3. ~ NoWorse("Case Pack", h, "case_cost")
      BY <2>1, <2>2, LessIsWorse
    <2> QED
      BY <2>3, Zenon
  <1> QED
    BY <1>2, <1>3

(* A heading about the unit cost outscores one about anything else.        *)
UnitCosts == {"Unit Cost", "Wholesale Price", "Cost", "Price"}
TopScores == {1004, 1005, 1009, 1015}
LeftOverScores == {0, 504, 505}

LEMMA UnitCostsScore ==
    ASSUME NEW h \in UnitCosts
    PROVE  HeaderScore(h, "unit_cost") \in TopScores
  <1>1. 1004 \in TopScores /\ 1005 \in TopScores /\ 1009 \in TopScores /\ 1015 \in TopScores
    BY DEF TopScores
  <1>2. HeaderScore("Unit Cost", "unit_cost") \in TopScores
    BY <1>1, Zenon DEF HeaderScore
  <1>3. HeaderScore("Wholesale Price", "unit_cost") \in TopScores
    BY <1>1, Zenon DEF HeaderScore
  <1>4. HeaderScore("Cost", "unit_cost") \in TopScores
    BY <1>1, Zenon DEF HeaderScore
  <1>5. HeaderScore("Price", "unit_cost") \in TopScores
    BY <1>1, Zenon DEF HeaderScore
  <1> QED
    BY <1>2, <1>3, <1>4, <1>5, Zenon DEF UnitCosts

LEMMA OthersScore ==
    ASSUME NEW g \in Headings, g \notin UnitCosts
    PROVE  HeaderScore(g, "unit_cost") \in LeftOverScores
  <1>1. 0 \in LeftOverScores /\ 504 \in LeftOverScores /\ 505 \in LeftOverScores
    BY DEF LeftOverScores
  <1>2. g # "Unit Cost" /\ g # "Wholesale Price" /\ g # "Cost" /\ g # "Price"
    BY DEF UnitCosts
  <1>3. CASE g = "Case Cost"
    BY <1>1, <1>3, Zenon DEF HeaderScore
  <1>4. CASE g \in {"Case Price", "Retail Price"}
    <2>1. HeaderScore("Case Price", "unit_cost") \in LeftOverScores
      BY <1>1, Zenon DEF HeaderScore
    <2>2. HeaderScore("Retail Price", "unit_cost") \in LeftOverScores
      BY <1>1, Zenon DEF HeaderScore
    <2> QED
      BY <1>4, <2>1, <2>2, Zenon
  <1>5. CASE g # "Case Cost" /\ g \notin {"Case Price", "Retail Price"}
    <2>1. HeaderScore(g, "unit_cost") = 0
      BY <1>2, <1>5, ZenonT(60) DEF HeaderScore
    <2> QED
      BY <1>1, <2>1
  <1> QED
    BY <1>3, <1>4, <1>5

LEMMA UnitCostOutscores ==
    ASSUME NEW g \in Headings, NEW h \in Headings, Meaning[h] = "unit_cost"
    PROVE  /\ Names(h, "unit_cost")
           /\ NoWorse(g, h, "unit_cost") => Meaning[g] = "unit_cost"
  <1>1. \A x \in Headings : x \in UnitCosts <=> Meaning[x] = "unit_cost"
    BY DEF UnitCosts, Headings, Meaning
  <1>2. HeaderScore(h, "unit_cost") \in TopScores
    BY <1>1, UnitCostsScore
  <1>3. Names(h, "unit_cost")
    BY <1>2 DEF Names, TopScores
  <1>4. ASSUME g \notin UnitCosts PROVE ~NoWorse(g, h, "unit_cost")
    <2>1. HeaderScore(g, "unit_cost") \in LeftOverScores
      BY <1>4, OthersScore
    <2> QED
      BY <1>2, <2>1 DEF NoWorse, TopScores, LeftOverScores
  <1> QED
    BY <1>1, <1>3, <1>4

LEMMA OthersMean ==
    ASSUME NEW h \in Headings, h \in PacksAndCodes \cup CaseCosts \/ Meaning[h] = "msrp"
    PROVE  Meaning[h] # "unit_cost"
  BY DEF PacksAndCodes, CaseCosts, Headings, Meaning

FairColumn(row, i) ==
    \/ Meaning[row[i]] = "unit_cost"
    \/ /\ ~OneOfEach(row)
       /\ \A j \in DOMAIN row : Meaning[row[j]] # "unit_cost"

(* The columns of a list: what comes before the unit cost takes none of    *)
(* its columns, of which the best one outscores all the others; and where  *)
(* there is one column of each meaning, a case price and a retail price    *)
(* are claimed before the unit cost claims.                                *)
LEMMA MappedFairly ==
    ASSUME NEW row \in HeaderRows
    PROVE  LET m == MapColumns(row) IN
           /\ m \in Claims(row)
           /\ "unit_cost" \in DOMAIN m => FairColumn(row, m["unit_cost"])
  <1>1. PICK c : /\ MapColumns(row) = c[8] /\ c[0] = [f \in {} |-> 0]
                 /\ \A n \in 1..8 : c[n] = Claim(row, c[n - 1], Order[n])
    BY MapColumnsIs
  <1>2. /\ c[1] = Claim(row, c[0], "upc") /\ c[2] = Claim(row, c[1], "case_pack")
        /\ c[3] = Claim(row, c[2], "case_cost") /\ c[4] = Claim(row, c[3], "msrp")
        /\ c[5] = Claim(row, c[4], "unit_cost") /\ c[6] = Claim(row, c[5], "moq")
        /\ c[7] = Claim(row, c[6], "sku") /\ c[8] = Claim(row, c[7], "description")
    BY <1>1, OrderIs
  <1>3. \A i \in DOMAIN row : row[i] \in Headings
    BY DEF HeaderRows
  <1>4. OneOfEach(row) => \A i, j \in DOMAIN row : Meaning[row[i]] = Meaning[row[j]] => i = j
    BY DEF OneOfEach
  <1> DEFINE Taken(n) == {c[n][f] : f \in DOMAIN c[n]}
             Of(n, H) == \A f \in DOMAIN c[n] : c[n][f] \in DOMAIN row /\ row[c[n][f]] \in H
  <1>5. \A n : Free(row, c[n]) = DOMAIN row \ Taken(n)
    BY DEF Free
  <1>6. c[0] \in Claims(row) /\ DOMAIN c[0] = {}
    <2>1. c[0] \in [{} -> DOMAIN row] /\ {} \in SUBSET Fields
      BY <1>1
    <2> QED
      BY <1>1, <2>1 DEF Claims
  \* upc and case_pack take nothing that is a price
  <1>7. Extends(row, c[0], "upc", c[1]) /\ Of(1, PacksAndCodes) /\ DOMAIN c[1] \subseteq {"upc"}
    <2>1. Extends(row, c[0], "upc", c[1])
      BY <1>2, <1>6, ClaimIs, FieldsAre
    <2>2. ASSUME NEW f \in DOMAIN c[1] PROVE c[1][f] \in DOMAIN row /\ row[c[1][f]] \in PacksAndCodes
      <3>1. f = "upc"
        BY <1>6, <2>1 DEF Extends
      <3>2. c[1][f] \in DOMAIN row /\ Names(row[c[1][f]], "upc")
        BY <2>1, <3>1 DEF Extends, Free
      <3> QED
        BY <1>3, <3>2, HeadingsNamed
    <2> QED
      BY <1>6, <2>1, <2>2 DEF Extends
  <1>8. /\ Extends(row, c[1], "case_pack", c[2]) /\ Of(2, PacksAndCodes)
        /\ DOMAIN c[2] \subseteq {"upc", "case_pack"}
    <2>1. Extends(row, c[1], "case_pack", c[2])
      <3>1. c[1] \in Claims(row) /\ "case_pack" \notin DOMAIN c[1] /\ "case_pack" \in Fields
        BY <1>7, FieldsAre DEF Extends
      <3> QED
        BY <1>2, <3>1, ClaimIs
    <2>2. ASSUME NEW f \in DOMAIN c[2] PROVE c[2][f] \in DOMAIN row /\ row[c[2][f]] \in PacksAndCodes
      <3>1. CASE f \in DOMAIN c[1]
        BY <1>7, <2>1, <3>1 DEF Extends
      <3>2. CASE f = "case_pack"
        <4>1. c[2][f] \in DOMAIN row /\ Names(row[c[2][f]], "case_pack")
          BY <2>1, <3>2 DEF Extends, Free
        <4> QED
          BY <1>3, <4>1, HeadingsNamed
      <3> QED
        BY <2>1, <3>1, <3>2 DEF Extends
    <2> QED
      BY <1>7, <2>1, <2>2 DEF Extends
  \* a case price is claimed as what a case costs
  <1>9. /\ Extends(row, c[2], "case_cost", c[3]) /\ Of(3, PacksAndCodes \cup CaseCosts)
        /\ DOMAIN c[3] \subseteq {"upc", "case_pack", "case_cost"}
        /\ OneOfEach(row) => \A i \in DOMAIN row : row[i] \in CaseCosts => i \in Taken(3)
    <2>1. Extends(row, c[2], "case_cost", c[3])
      <3>1. c[2] \in Claims(row) /\ "case_cost" \notin DOMAIN c[2] /\ "case_cost" \in Fields
        BY <1>8, FieldsAre DEF Extends
      <3> QED
        BY <1>2, <3>1, ClaimIs
    <2>2. ASSUME NEW f \in DOMAIN c[3]
          PROVE  c[3][f] \in DOMAIN row /\ row[c[3][f]] \in PacksAndCodes \cup CaseCosts
      <3>1. CASE f \in DOMAIN c[2]
        BY <1>8, <2>1, <3>1 DEF Extends
      <3>2. CASE f = "case_cost"
        <4>1. c[3][f] \in DOMAIN row /\ Names(row[c[3][f]], "case_cost")
          BY <2>1, <3>2 DEF Extends, Free
        <4> QED
          BY <1>3, <4>1, HeadingsNamed
      <3> QED
        BY <2>1, <3>1, <3>2 DEF Extends
    <2>3. ASSUME OneOfEach(row), NEW i \in DOMAIN row, row[i] \in CaseCosts PROVE i \in Taken(3)
      <3>1. Names(row[i], "case_cost") /\ Meaning[row[i]] = "case_cost" /\ row[i] \notin PacksAndCodes
        BY <1>3, <2>3, HeadingsNamed
      <3>2. i \in Free(row, c[2])
        BY <1>5, <1>8, <3>1
      <3> DEFINE x == c[3]["case_cost"]
      <3>3. /\ "case_cost" \in DOMAIN c[3] /\ x \in DOMAIN row
            /\ Names(row[x], "case_cost") /\ NoWorse(row[x], row[i], "case_cost")
        BY <2>1, <3>1, <3>2 DEF Extends, Free
      <3>4. row[x] \in CaseCosts
        <4> HIDE DEF x
        <4> QED
          BY <1>3, <2>3, <3>3, CaseCostOutscores
      <3>5. Meaning[row[x]] = "case_cost"
        <4> HIDE DEF x
        <4> QED
          BY <1>3, <3>3, <3>4, HeadingsNamed
      <3>6. x = i
        <4> HIDE DEF x
        <4> QED
          BY <1>4, <2>3, <3>1, <3>3, <3>5
      <3> QED
        BY <3>3, <3>6
    <2> QED
      BY <1>8, <2>1, <2>2, <2>3 DEF Extends
  \* and a retail price as the retail price
  <1>10. /\ Extends(row, c[3], "msrp", c[4])
         /\ DOMAIN c[4] \subseteq {"upc", "case_pack", "case_cost", "msrp"}
         /\ OneOfEach(row) => \A i \in DOMAIN row : row[i] \in OtherPrices => i \in Taken(4)
         /\ \A i \in DOMAIN row : Meaning[row[i]] = "unit_cost" => i \in Free(row, c[4])
    <2>1. Extends(row, c[3], "msrp", c[4])
      <3>1. c[3] \in Claims(row) /\ "msrp" \notin DOMAIN c[3] /\ "msrp" \in Fields
        BY <1>9, FieldsAre DEF Extends
      <3> QED
        BY <1>2, <3>1, ClaimIs
    <2>2. Taken(3) \subseteq Taken(4)
      BY <2>1 DEF Extends
    <2>3. ASSUME OneOfEach(row), NEW i \in DOMAIN row, row[i] \in OtherPrices, row[i] \notin CaseCosts
          PROVE  i \in Taken(4)
      <3>1. Names(row[i], "msrp") /\ Meaning[row[i]] = "msrp" /\ row[i] \notin PacksAndCodes \cup CaseCosts
        BY <1>3, <2>3, HeadingsNamed
      <3>2. i \in Free(row, c[3])
        BY <1>5, <1>9, <3>1
      <3> DEFINE x == c[4]["msrp"]
      <3>3. "msrp" \in DOMAIN c[4] /\ x \in DOMAIN row /\ Names(row[x], "msrp")
        BY <2>1, <3>1, <3>2 DEF Extends, Free
      <3>4. Meaning[row[x]] = "msrp"
        <4> HIDE DEF x
        <4> QED
          BY <1>3, <3>3, HeadingsNamed
      <3>5. x = i
        <4> HIDE DEF x
        <4> QED
          BY <1>4, <2>3, <3>1, <3>3, <3>4
      <3> QED
        BY <3>3, <3>5
    <2>4. ASSUME NEW f \in DOMAIN c[4] PROVE c[4][f] \in DOMAIN row /\ Meaning[row[c[4][f]]] # "unit_cost"
      <3>1. CASE f \in DOMAIN c[3]
        <4>1. c[4][f] = c[3][f] /\ c[3][f] \in DOMAIN row /\ row[c[3][f]] \in PacksAndCodes \cup CaseCosts
          BY <1>9, <2>1, <3>1 DEF Extends
        <4> QED
          BY <1>3, <4>1, OthersMean
      <3>2. CASE f = "msrp"
        <4>1. c[4][f] \in DOMAIN row /\ Names(row[c[4][f]], "msrp")
          BY <2>1, <3>2 DEF Extends, Free
        <4>2. Meaning[row[c[4][f]]] = "msrp"
          BY <1>3, <4>1, HeadingsNamed
        <4> QED
          BY <1>3, <4>1, <4>2, OthersMean
      <3> QED
        BY <2>1, <3>1, <3>2 DEF Extends
    <2>5. \A i \in DOMAIN row : Meaning[row[i]] = "unit_cost" => i \in Free(row, c[4])
      BY <1>5, <2>4
    <2>6. DOMAIN c[4] \subseteq {"upc", "case_pack", "case_cost", "msrp"}
      BY <1>9, <2>1 DEF Extends
    <2> QED
      BY <1>9, <2>1, <2>2, <2>3, <2>5, <2>6
  <1> DEFINE Fair(n) == "unit_cost" \in DOMAIN c[n] => FairColumn(row, c[n]["unit_cost"])
  <1>11. /\ Extends(row, c[4], "unit_cost", c[5]) /\ Fair(5)
         /\ DOMAIN c[5] \subseteq {"upc", "case_pack", "case_cost", "msrp", "unit_cost"}
    <2>1. Extends(row, c[4], "unit_cost", c[5])
      <3>1. c[4] \in Claims(row) /\ "unit_cost" \notin DOMAIN c[4] /\ "unit_cost" \in Fields
        BY <1>10, FieldsAre DEF Extends
      <3> QED
        BY <1>2, <3>1, ClaimIs
    <2>2. ASSUME "unit_cost" \in DOMAIN c[5] PROVE FairColumn(row, c[5]["unit_cost"])
      <3> DEFINE x == c[5]["unit_cost"]
      <3>1. /\ x \in DOMAIN row /\ x \notin Taken(4) /\ Names(row[x], "unit_cost")
            /\ \A j \in Free(row, c[4]) : NoWorse(row[x], row[j], "unit_cost")
        BY <1>5, <2>1, <2>2 DEF Extends
      <3> HIDE DEF x
      <3>2. CASE OneOfEach(row)
        <4>1. row[x] \in Headings /\ row[x] \notin OtherPrices
          BY <1>3, <1>10, <3>1, <3>2
        <4>2. Meaning[row[x]] = "unit_cost"
          BY <3>1, <4>1, HeadingsNamed
        <4> QED
          BY <4>2 DEF FairColumn, x
      <3>3. CASE \E j \in DOMAIN row : Meaning[row[j]] = "unit_cost"
        <4>1. PICK j \in DOMAIN row : Meaning[row[j]] = "unit_cost"
          BY <3>3
        <4>2. NoWorse(row[x], row[j], "unit_cost") /\ row[x] \in Headings /\ row[j] \in Headings
          BY <1>3, <1>10, <3>1, <4>1
        <4>3. Meaning[row[x]] = "unit_cost"
          BY <4>1, <4>2, UnitCostOutscores
        <4> QED
          BY <4>3 DEF FairColumn, x
      <3> QED
        BY <3>2, <3>3 DEF FairColumn
    <2> QED
      BY <1>10, <2>1, <2>2 DEF Extends
  \* no later field moves it
  <1>12. /\ Extends(row, c[5], "moq", c[6]) /\ Fair(6)
         /\ DOMAIN c[6] \subseteq {"upc", "case_pack", "case_cost", "msrp", "unit_cost", "moq"}
    <2>1. Extends(row, c[5], "moq", c[6])
      <3>1. c[5] \in Claims(row) /\ "moq" \notin DOMAIN c[5] /\ "moq" \in Fields
        BY <1>11, FieldsAre DEF Extends
      <3> QED
        BY <1>2, <3>1, ClaimIs
    <2> QED
      BY <1>11, <2>1 DEF Extends
  <1>13. /\ Extends(row, c[6], "sku", c[7]) /\ Fair(7)
         /\ DOMAIN c[7] \subseteq {"upc", "case_pack", "case_cost", "msrp", "unit_cost", "moq", "sku"}
    <2>1. Extends(row, c[6], "sku", c[7])
      <3>1. c[6] \in Claims(row) /\ "sku" \notin DOMAIN c[6] /\ "sku" \in Fields
        BY <1>12, FieldsAre DEF Extends
      <3> QED
        BY <1>2, <3>1, ClaimIs
    <2> QED
      BY <1>12, <2>1 DEF Extends
  <1>14. Extends(row, c[7], "description", c[8]) /\ Fair(8)
    <2>1. Extends(row, c[7], "description", c[8])
      <3>1. c[7] \in Claims(row) /\ "description" \notin DOMAIN c[7] /\ "description" \in Fields
        BY <1>13, FieldsAre DEF Extends
      <3> QED
        BY <1>2, <3>1, ClaimIs
    <2> QED
      BY <1>13, <2>1 DEF Extends
  <1> QED
    BY <1>1, <1>14 DEF Extends

(* While a list is read its columns are the upload's.                      *)
IngestInv ==
    /\ header \in HeaderRows
    /\ UnitCostIsAUnitCost

(* Whatever headings a list has and in whatever order, its unit cost is    *)
(* read from a column about the unit cost if it has one, and from no other *)
(* column unless two of them have one meaning (ingest.py, _map_columns).   *)
THEOREM UnitCostsAreUnitCosts == IngestSpec => []UnitCostIsAUnitCost
  <1>1. IngestInit => IngestInv
    <2> SUFFICES ASSUME IngestInit PROVE IngestInv
      OBVIOUS
    <2>1. header \in Seq(Headings)
      BY DEF IngestInit
    <2>2. status = "new"
      BY DEF IngestInit
    <2> QED
      BY <2>1, <2>2 DEF IngestInit, IngestInv, HeaderRows, UnitCostIsAUnitCost
  <1>2. IngestInv /\ [IngestNext]_ingestVars => IngestInv'
    <2> SUFFICES ASSUME IngestInv, [IngestNext]_ingestVars PROVE IngestInv'
      OBVIOUS
    <2>1. ASSUME NEW costIsCaseCost \in BOOLEAN, Upload(costIsCaseCost) PROVE IngestInv'
      <3> DEFINE cols == MapColumns(header)
      <3>1. header' = header /\ header \in HeaderRows
        BY <2>1 DEF Upload, IngestInv
      <3>2. "unit_cost" \in DOMAIN cols => FairColumn(header, cols["unit_cost"])
        BY <3>1, MappedFairly
      <3>3. \/ columns' = cols
            \/ columns' = [f \in (DOMAIN cols \ {"unit_cost"}) \cup {"case_cost"} |->
                              IF f = "case_cost" THEN cols["unit_cost"] ELSE cols[f]]
        BY <2>1 DEF Upload
      <3> HIDE DEF cols
      <3>4. UnitCostIsAUnitCost'
        BY <3>1, <3>2, <3>3 DEF UnitCostIsAUnitCost, FairColumn, OneOfEach
      <3> QED
        BY <3>1, <3>4 DEF IngestInv
    <2>2. ASSUME UNCHANGED <<header, columns>>, status' = "reading" => status = "reading"
          PROVE  IngestInv'
      BY <2>2 DEF IngestInv, UnitCostIsAUnitCost, OneOfEach
    <2>3. ASSUME NEW row \in SheetRows, NEW usable \in BOOLEAN, NEW described \in BOOLEAN,
                 ReadRow(row, usable, described)
          PROVE  IngestInv'
      BY <2>2, <2>3 DEF ReadRow
    <2>4. ASSUME Finished PROVE IngestInv'
      BY <2>2, <2>4 DEF Finished
    <2>5. ASSUME UNCHANGED ingestVars PROVE IngestInv'
      BY <2>2, <2>5 DEF ingestVars
    <2> QED
      BY <2>1, <2>3, <2>4, <2>5 DEF IngestNext
  <1>3. IngestInv => UnitCostIsAUnitCost
    BY DEF IngestInv
  <1> QED
    BY <1>1, <1>2, <1>3, PTL DEF IngestSpec

(***************************************************************************)
(* ChannelFees                                                             *)
(***************************************************************************)

(* What the invariant asks of a quote, and of a comparison of plans.        *)
IsFees(f) ==
    /\ f.referral \in Nat /\ f.fulfillment \in Nat /\ f.storage \in Nat /\ f.perOrder \in Nat
    /\ f.shipping \in Nat /\ f.ad \in Nat /\ f.other \in Nat

GoodQuote(e) ==
    /\ e.channel \in {"walmart", "ebay"}
    /\ e.price \in Nat /\ e.cost \in Nat /\ IsFees(e.fees)
    /\ e.channel = "ebay" /\ e.base <= HighValue => e.fees.referral = Percent(e.base, e.rate)

GoodComparison(e) ==
    /\ e.channel = "plans" /\ e.of \in PlanChannels
    /\ e.from \in DOMAIN Plans[e.of] /\ e.to \in DOMAIN Plans[e.of]
    /\ e.units \in Nat /\ e.price \in Nat
    /\ e.breakeven = PlanBreakeven(e.of, e.from, e.to)
    /\ e.best = RecommendPlan(e.of, e.units, e.price)

FeesInv == answer = NoAnswer \/ GoodQuote(answer) \/ GoodComparison(answer)

(* Of nothing less than nothing there is a natural number of cents.         *)
LEMMA RoundedNat ==
    ASSUME NEW a \in Nat, NEW b \in Nat \ {0}
    PROVE  Rounded(a, b) \in Nat
  BY RoundedRises

(* A profit means that the break-even price is no higher than the price, a  *)
(* loss that it is no lower.                                                *)
LEMMA BreakevenIsBetween ==
    ASSUME NEW e, e.price \in Nat, e.cost \in Nat, IsFees(e.fees)
    PROVE  /\ NetProfit(e) > 0 => BreakevenSalePrice(e) <= e.price
           /\ NetProfit(e) < 0 => BreakevenSalePrice(e) >= e.price
  <1> DEFINE p == e.price
             r == e.fees.referral
             fixed == FeeTotal(e.fees) - e.fees.referral
             c == e.cost + fixed
  <1>1. p \in Nat /\ r \in Nat /\ c \in Nat /\ NetProfit(e) = p - c - r
    BY DEF IsFees, FeeTotal, NetProfit
  <1>2. BreakevenSalePrice(e) = IF p <= 0 THEN c ELSE IF r >= p THEN p ELSE Rounded(p * c, p - r)
    BY DEF BreakevenSalePrice
  <1> HIDE DEF p, r, c
  <1>3. CASE p <= 0 \/ r >= p
    BY <1>1, <1>2, <1>3 DEF p
  <1>4. CASE p > 0 /\ r < p
    <2> DEFINE b == p - r
               q == (2 * (p * c) + b) \div (2 * b)
    <2>1. b \in Nat \ {0} /\ p * c \in Nat
      BY <1>1, <1>4
    <2>2. BreakevenSalePrice(e) = q
      BY <1>1, <1>2, <1>4, <2>1 DEF Rounded
    <2>3. q \in Nat /\ 2 * b * q <= 2 * (p * c) + b /\ 2 * (p * c) + b < 2 * b * (q + 1)
      <3> DEFINE n == 2 * (p * c) + b
      <3>1. n \in Nat
        BY <2>1
      <3> HIDE DEF b, n
      <3>2. (n \div (2 * b)) \in Nat /\ 2 * b * (n \div (2 * b)) <= n /\ n < 2 * b * ((n \div (2 * b)) + 1)
        BY <2>1, <3>1
      <3> QED
        BY <3>2 DEF n
    <2> HIDE DEF q
    <2>4. ASSUME NetProfit(e) > 0 PROVE q <= p
      <3>1. c + 1 <= b
        BY <1>1, <2>4
      <3> HIDE DEF b
      <3>2. p * (c + 1) <= p * b
        BY <1>1, <2>1, <3>1
      <3>3. SUFFICES ASSUME p + 1 <= q PROVE FALSE
        BY <1>1, <2>3
      <3>4. b * (p + 1) <= b * q
        BY <1>1, <2>1, <2>3, <3>3
      <3>5. p * (c + 1) = p * c + p /\ b * (p + 1) = p * b + b
        BY <1>1, <2>1
      <3>6. 2 * (b * q) <= 2 * (p * c) + b
        BY <2>1, <2>3
      <3>7. p * c \in Nat /\ p * b \in Nat /\ b * q \in Nat
        BY <1>1, <2>1, <2>3
      <3> QED
        BY <1>1, <1>4, <2>1, <3>2, <3>4, <3>5, <3>6, <3>7
    <2>5. ASSUME NetProfit(e) < 0 PROVE q >= p
      <3>1. b + 1 <= c
        BY <1>1, <2>5
      <3> HIDE DEF b
      <3>2. p * (b + 1) <= p * c
        BY <1>1, <2>1, <3>1
      <3>3. SUFFICES ASSUME q + 1 <= p PROVE FALSE
        BY <1>1, <2>3
      <3>4. b * (q + 1) <= b * p
        BY <1>1, <2>1, <2>3, <3>3
      <3>5. p * (b + 1) = b * p + p
        BY <1>1, <2>1
      <3>6. 2 * (p * c) + b < 2 * (b * (q + 1))
        BY <2>1, <2>3
      <3>7. p * c \in Nat /\ b * p \in Nat /\ b * (q + 1) \in Nat
        BY <1>1, <2>1, <2>3
      <3> QED
        BY <1>1, <1>4, <2>1, <3>2, <3>4, <3>5, <3>6, <3>7
    <2> QED
      BY <2>2, <2>4, <2>5 DEF p
  <1> QED
    BY <1>1, <1>3, <1>4

(* The plans: a fee that is saved per item comes with no better rate.       *)
PlanRecords == [monthly : Nat, perItem : Nat, discount : Nat, listings : Nat, overage : Nat]

LEMMA PlanIsRecord ==
    ASSUME NEW p, NEW a \in Nat, NEW b \in Nat, NEW c \in Nat, NEW d \in Nat, NEW e \in Nat,
           p = Plan(a, b, c, d, e)
    PROVE  p \in PlanRecords /\ p.perItem = b /\ p.discount = c
  BY DEF Plan, PlanRecords

LEMMA PairIsFinite ==
    ASSUME NEW a, NEW b
    PROVE  IsFiniteSet({a, b})
  <1>1. IsFiniteSet({a}) /\ IsFiniteSet({a} \cup {b})
    BY FS_Singleton, FS_AddElement
  <1>2. {a} \cup {b} = {a, b}
    OBVIOUS
  <1> QED
    BY <1>1, <1>2

LEMMA PlansAre ==
    ASSUME NEW channel \in PlanChannels
    PROVE  /\ IsFiniteSet(DOMAIN Plans[channel])
           /\ \A k \in DOMAIN Plans[channel] : Plans[channel][k] \in PlanRecords
           /\ DefaultPlan[channel] \in DOMAIN Plans[channel]
           /\ \A j, k \in DOMAIN Plans[channel] :
                 Plans[channel][j].perItem > Plans[channel][k].perItem =>
                    Plans[channel][j].discount = Plans[channel][k].discount
  <1>1. channel = "ebay" \/ channel = "amazon" \/ channel = "walmart"
    BY DEF PlanChannels, Plans
  <1>2. CASE channel = "ebay"
    <2> DEFINE P == [none    |-> Plan(0, 0, 0, 0, 0),
                     starter |-> Plan(495, 0, 0, 250, 30),
                     basic   |-> Plan(2195, 0, 90, 1000, 25),
                     premium |-> Plan(7495, 0, 90, 10000, 10),
                     anchor  |-> Plan(29995, 0, 90, 25000, 5)]
    <2>1. Plans[channel] = P
      BY <1>2 DEF Plans
    <2>2. DOMAIN P = ({"none", "starter"} \cup {"basic", "premium"}) \cup {"anchor"}
      OBVIOUS
    <2>3. /\ P["none"] = Plan(0, 0, 0, 0, 0) /\ P["starter"] = Plan(495, 0, 0, 250, 30)
          /\ P["basic"] = Plan(2195, 0, 90, 1000, 25)
          /\ P["premium"] = Plan(7495, 0, 90, 10000, 10)
          /\ P["anchor"] = Plan(29995, 0, 90, 25000, 5)
      OBVIOUS
    <2> HIDE DEF P
    <2>4. /\ P["none"] \in PlanRecords /\ P["none"].perItem = 0
          /\ P["starter"] \in PlanRecords /\ P["starter"].perItem = 0
          /\ P["basic"] \in PlanRecords /\ P["basic"].perItem = 0
          /\ P["premium"] \in PlanRecords /\ P["premium"].perItem = 0
          /\ P["anchor"] \in PlanRecords /\ P["anchor"].perItem = 0
      <3>1. P["none"] \in PlanRecords /\ P["none"].perItem = 0
        <4>1. PICK p : p = P["none"]
          OBVIOUS
        <4>2. p = Plan(0, 0, 0, 0, 0)
          BY <2>3, <4>1
        <4>3. p \in PlanRecords /\ p.perItem = 0
          BY <4>2, PlanIsRecord
        <4> QED
          BY <4>1, <4>3
      <3>2. P["starter"] \in PlanRecords /\ P["starter"].perItem = 0
        <4>1. PICK p : p = P["starter"]
          OBVIOUS
        <4>2. p = Plan(495, 0, 0, 250, 30)
          BY <2>3, <4>1
        <4>3. p \in PlanRecords /\ p.perItem = 0
          BY <4>2, PlanIsRecord
        <4> QED
          BY <4>1, <4>3
      <3>3. P["basic"] \in PlanRecords /\ P["basic"].perItem = 0
        <4>1. PICK p : p = P["basic"]
          OBVIOUS
        <4>2. p = Plan(2195, 0, 90, 1000, 25)
          BY <2>3, <4>1
        <4>3. p \in PlanRecords /\ p.perItem = 0
          BY <4>2, PlanIsRecord
        <4> QED
          BY <4>1, <4>3
      <3>4. P["premium"] \in PlanRecords /\ P["premium"].perItem = 0
        <4>1. PICK p : p = P["premium"]
          OBVIOUS
        <4>2. p = Plan(7495, 0, 90, 10000, 10)
          BY <2>3, <4>1
        <4>3. p \in PlanRecords /\ p.perItem = 0
          BY <4>2, PlanIsRecord
        <4> QED
          BY <4>1, <4>3
      <3>5. P["anchor"] \in PlanRecords /\ P["anchor"].perItem = 0
        <4>1. PICK p : p = P["anchor"]
          OBVIOUS
        <4>2. p = Plan(29995, 0, 90, 25000, 5)
          BY <2>3, <4>1
        <4>3. p \in PlanRecords /\ p.perItem = 0
          BY <4>2, PlanIsRecord
        <4> QED
          BY <4>1, <4>3
      <3> QED
        BY <3>1, <3>2, <3>3, <3>4, <3>5
    <2>5. \A k \in DOMAIN P : k \in {"none", "starter", "basic", "premium", "anchor"}
      BY <2>2
    <2>6. \A k \in DOMAIN P : P[k] \in PlanRecords /\ P[k].perItem = 0
      BY <2>4, <2>5, Zenon
    <2>7. IsFiniteSet({"none", "starter"} \cup {"basic", "premium"})
      BY PairIsFinite, FS_Union, Zenon
    <2>8. IsFiniteSet(DOMAIN P)
      <3>1. PICK S : S = {"none", "starter"} \cup {"basic", "premium"}
        OBVIOUS
      <3>2. IsFiniteSet(S) /\ DOMAIN P = S \cup {"anchor"}
        BY <2>2, <2>7, <3>1, Zenon
      <3>3. IsFiniteSet(S \cup {"anchor"})
        BY <3>2, FS_AddElement
      <3> QED
        BY <3>2, <3>3, Zenon
    <2>9. DefaultPlan[channel] \in DOMAIN P
      <3>1. DefaultPlan[channel] = "none"
        BY <1>2 DEF DefaultPlan
      <3> QED
        BY <3>1, <2>2
    <2> QED
      BY <2>1, <2>6, <2>8, <2>9
  <1>3. CASE channel = "amazon"
    <2> DEFINE P == [individual   |-> Plan(0, 99, 0, 0, 0),
                     professional |-> Plan(3999, 0, 0, 0, 0)]
    <2>1. Plans[channel] = P
      BY <1>3 DEF Plans
    <2>2. DOMAIN P = {"individual", "professional"}
      OBVIOUS
    <2>3. P["individual"] = Plan(0, 99, 0, 0, 0) /\ P["professional"] = Plan(3999, 0, 0, 0, 0)
      OBVIOUS
    <2> HIDE DEF P
    <2>4. /\ P["individual"] \in PlanRecords /\ P["individual"].discount = 0
          /\ P["professional"] \in PlanRecords /\ P["professional"].discount = 0
      <3>1. P["individual"] \in PlanRecords /\ P["individual"].discount = 0
        <4>1. PICK p : p = P["individual"]
          OBVIOUS
        <4>2. p = Plan(0, 99, 0, 0, 0)
          BY <2>3, <4>1
        <4>3. p \in PlanRecords /\ p.discount = 0
          BY <4>2, PlanIsRecord
        <4> QED
          BY <4>1, <4>3
      <3>2. P["professional"] \in PlanRecords /\ P["professional"].discount = 0
        <4>1. PICK p : p = P["professional"]
          OBVIOUS
        <4>2. p = Plan(3999, 0, 0, 0, 0)
          BY <2>3, <4>1
        <4>3. p \in PlanRecords /\ p.discount = 0
          BY <4>2, PlanIsRecord
        <4> QED
          BY <4>1, <4>3
      <3> QED
        BY <3>1, <3>2
    <2>5. \A k \in DOMAIN P : k = "individual" \/ k = "professional"
      BY <2>2
    <2>6. \A k \in DOMAIN P : P[k] \in PlanRecords /\ P[k].discount = 0
      BY <2>4, <2>5, Zenon
    <2>7. IsFiniteSet({"individual", "professional"})
      BY PairIsFinite
    <2>8. DefaultPlan[channel] \in DOMAIN P
      <3>1. DefaultPlan[channel] = "individual"
        BY <1>3 DEF DefaultPlan
      <3> QED
        BY <3>1, <2>2
    <2> QED
      BY <2>1, <2>2, <2>6, <2>7, <2>8
  <1>4. CASE channel = "walmart"
    <2> DEFINE P == [standard |-> Plan(0, 0, 0, 0, 0)]
    <2>1. Plans[channel] = P
      BY <1>4 DEF Plans
    <2>2. DOMAIN P = {"standard"} /\ P["standard"] = Plan(0, 0, 0, 0, 0)
      OBVIOUS
    <2> HIDE DEF P
    <2>3. \A k \in DOMAIN P : P[k] \in PlanRecords /\ P[k].discount = 0
      BY <2>2, PlanIsRecord
    <2>4. IsFiniteSet({"standard"})
      BY FS_Singleton
    <2>5. DefaultPlan[channel] \in DOMAIN P
      <3>1. DefaultPlan[channel] = "standard"
        BY <1>4 DEF DefaultPlan
      <3> QED
        BY <3>1, <2>2
    <2> QED
      BY <2>1, <2>2, <2>3, <2>4, <2>5
  <1> QED
    BY <1>1, <1>2, <1>3, <1>4

Within(plan, units) == plan.listings = 0 \/ units <= plan.listings

(* A month's cost of a plan, and what it is within the listings included.   *)
LEMMA MonthCosts ==
    ASSUME NEW plan \in PlanRecords, NEW units \in Nat, NEW price \in Nat
    PROVE  TotalCost(plan, units, price) \in Int
  <1>1. /\ plan.monthly \in Nat /\ plan.perItem \in Nat /\ plan.discount \in Nat
        /\ plan.listings \in Nat /\ plan.overage \in Nat
    BY DEF PlanRecords
  <1> DEFINE over == IF plan.listings # 0 /\ units > plan.listings
                     THEN (units - plan.listings) * plan.overage ELSE 0
  <1>2. over \in Nat
    BY <1>1
  <1>3. TotalCost(plan, units, price) =
            (plan.monthly + plan.perItem * units + over) * 10000 - plan.discount * units * price
    BY DEF TotalCost
  <1> HIDE DEF over
  <1> QED
    BY <1>1, <1>2, <1>3

LEMMA MonthWithinListings ==
    ASSUME NEW plan \in PlanRecords, NEW units \in Nat, NEW price \in Nat,
           Within(plan, units), NEW gmv, gmv = units * price
    PROVE  TotalCost(plan, units, price) =
                (plan.monthly + plan.perItem * units) * 10000 - plan.discount * gmv
  <1>1. /\ plan.monthly \in Nat /\ plan.perItem \in Nat /\ plan.discount \in Nat
        /\ plan.listings \in Nat /\ plan.overage \in Nat
    BY DEF PlanRecords
  <1>2. ~(plan.listings # 0 /\ units > plan.listings)
    BY <1>1 DEF Within
  <1>3. TotalCost(plan, units, price) =
            (plan.monthly + plan.perItem * units + 0) * 10000 - plan.discount * units * price
    BY <1>2 DEF TotalCost
  <1>4. plan.discount * units * price = plan.discount * gmv
    BY <1>1
  <1>5. plan.monthly + plan.perItem * units + 0 = plan.monthly + plan.perItem * units
    BY <1>1
  <1> QED
    BY <1>3, <1>4, <1>5

(* Of finitely many numbers one is least.                                   *)
LEMMA LeastOfFinite ==
    ASSUME NEW S, IsFiniteSet(S), S # {}, NEW f, \A s \in S : f[s] \in Int
    PROVE  \E k \in S : \A j \in S : f[k] <= f[j]
  <1> DEFINE R == {ss \in S \X S : f[ss[1]] < f[ss[2]]}
  <1>1. \A x, y \in S : <<x, y>> \in R <=> f[x] < f[y]
    OBVIOUS
  <1> HIDE DEF R
  <1>2. \A x \in S : <<x, x>> \notin R
    BY <1>1
  <1>3. \A x, y, z \in S : <<x, y>> \in R /\ <<y, z>> \in R => <<x, z>> \in R
    BY <1>1
  <1>4. \E x \in S : \A y \in S : <<y, x>> \notin R
    BY <1>2, <1>3, FinitelyManyBefore
  <1>5. \A x, y \in S : <<y, x>> \notin R => f[x] <= f[y]
    BY <1>1
  <1> QED
    BY <1>4, <1>5

(* The plan recommended is among those of its channel, and none is cheaper. *)
LEMMA RecommendedIsCheapest ==
    ASSUME NEW channel \in PlanChannels, NEW units \in Nat, NEW price \in Nat,
           NEW best, best = RecommendPlan(channel, units, price)
    PROVE  /\ best \in DOMAIN Plans[channel]
           /\ \A j \in DOMAIN Plans[channel] :
                 TotalCost(Plans[channel][best], units, price) <=
                    TotalCost(Plans[channel][j], units, price)
  <1>1. PICK plans : plans = Plans[channel]
    OBVIOUS
  <1> DEFINE f == [k \in DOMAIN plans |-> TotalCost(plans[k], units, price)]
  <1>2. \A k \in DOMAIN plans : f[k] \in Int /\ f[k] = TotalCost(plans[k], units, price)
    BY <1>1, PlansAre, MonthCosts
  <1>3. IsFiniteSet(DOMAIN plans) /\ DOMAIN plans # {}
    BY <1>1, PlansAre
  <1> HIDE DEF f
  <1>4. \E k \in DOMAIN plans : \A j \in DOMAIN plans : f[k] <= f[j]
    BY <1>2, <1>3, LeastOfFinite
  <1>5. \E k \in DOMAIN plans : \A j \in DOMAIN plans :
            TotalCost(plans[k], units, price) <= TotalCost(plans[j], units, price)
    BY <1>2, <1>4
  <1>6. best = CHOOSE k \in DOMAIN plans : \A j \in DOMAIN plans :
                   TotalCost(plans[k], units, price) <= TotalCost(plans[j], units, price)
    BY <1>1 DEF RecommendPlan
  <1> QED
    BY <1>1, <1>5, <1>6

(* What rounding D / r to the nearest says of a whole number against D / r. *)
LEMMA RoundedBounds ==
    ASSUME NEW D \in Nat, NEW r \in Nat \ {0}, NEW g \in Nat
    PROVE  /\ Rounded(D, r) \in Nat
           /\ D < r * g => g >= Rounded(D, r)
           /\ g > Rounded(D, r) + 1 => D < r * g
  <1> DEFINE n == 2 * D + r
             q == n \div (2 * r)
  <1>1. n \in Nat /\ Rounded(D, r) = q
    BY DEF Rounded
  <1>2. n = 2 * D + r
    OBVIOUS
  <1> HIDE DEF n
  <1>3. q \in Nat /\ 2 * r * q <= n /\ n < 2 * r * (q + 1)
    BY <1>1
  <1> HIDE DEF q
  <1>4. ASSUME D < r * g, g + 1 <= q PROVE FALSE
    <2>1. r * (g + 1) <= r * q
      BY <1>3, <1>4
    <2>2. r * (g + 1) = r * g + r /\ r * g \in Nat /\ r * q \in Nat
      BY <1>3
    <2> QED
      BY <1>2, <1>3, <1>4, <2>1, <2>2
  <1>5. ASSUME g > q + 1 PROVE D < r * g
    <2>1. r * (q + 2) <= r * g
      BY <1>3, <1>5
    <2>2. r * (q + 2) = r * q + 2 * r /\ r * (q + 1) = r * q + r /\ r * q \in Nat /\ r * g \in Nat
      BY <1>3
    <2> QED
      BY <1>2, <1>3, <2>1, <2>2
  <1> QED
    BY <1>1, <1>3, <1>4, <1>5

LEMMA BreakevenIs ==
    ASSUME NEW channel, NEW from, NEW to, NEW a, a = GetPlan(channel, from),
           NEW b, b = GetPlan(channel, to), b.monthly - a.monthly \in Nat \ {0},
           NEW be, be = PlanBreakeven(channel, from, to)
    PROVE  /\ be.units = IF a.perItem - b.perItem > 0
                         THEN <<b.monthly - a.monthly, a.perItem - b.perItem>> ELSE <<>>
           /\ be.gmv = IF b.discount - a.discount > 0
                       THEN Rounded((b.monthly - a.monthly) * 10000, b.discount - a.discount)
                       ELSE None
  <1>1. PICK delta, item, rate : /\ delta = b.monthly - a.monthly /\ item = a.perItem - b.perItem
                                 /\ rate = b.discount - a.discount
    OBVIOUS
  <1>2. ~(delta <= 0)
    BY <1>1
  <1>3. be = IF delta <= 0 THEN [units |-> <<0, 1>>, gmv |-> 0]
             ELSE [units |-> IF item > 0 THEN <<delta, item>> ELSE <<>>,
                   gmv |-> IF rate > 0 THEN Rounded(delta * 10000, rate) ELSE None]
    BY <1>1 DEF PlanBreakeven
  <1>4. be = [units |-> IF item > 0 THEN <<delta, item>> ELSE <<>>,
              gmv |-> IF rate > 0 THEN Rounded(delta * 10000, rate) ELSE None]
    BY <1>2, <1>3
  <1>5. /\ be.units = IF item > 0 THEN <<delta, item>> ELSE <<>>
        /\ be.gmv = IF rate > 0 THEN Rounded(delta * 10000, rate) ELSE None
    BY <1>4
  <1> QED
    BY <1>1, <1>5

(* An upgrade saves money exactly past the break-even volume, and then the  *)
(* plan it leaves is not the one recommended.                               *)
LEMMA UpgradesPayPastBreakeven ==
    ASSUME NEW e, GoodComparison(e),
           NEW a, a = GetPlan(e.of, e.from), NEW b, b = GetPlan(e.of, e.to),
           NEW gmv, gmv = e.units * e.price,
           NEW saves, saves <=> TotalCost(b, e.units, e.price) < TotalCost(a, e.units, e.price),
           \A p \in {a, b} : p.listings = 0 \/ e.units <= p.listings,
           b.monthly > a.monthly, a.perItem >= b.perItem, b.discount >= a.discount
    PROVE  /\ e.breakeven.units # <<>> =>
                (saves <=> e.breakeven.units[1] < e.units * e.breakeven.units[2])
           /\ e.breakeven.units = <<>> /\ e.breakeven.gmv # None =>
                /\ saves => gmv >= e.breakeven.gmv
                /\ gmv > e.breakeven.gmv + 1 => saves
           /\ e.breakeven.units = <<>> /\ e.breakeven.gmv = None => ~saves
           /\ saves => e.best # e.from
  <1>1. e.of \in PlanChannels /\ e.units \in Nat /\ e.price \in Nat /\ gmv \in Nat
    BY DEF GoodComparison
  <1>2. a = Plans[e.of][e.from] /\ b = Plans[e.of][e.to]
    BY DEF GoodComparison, GetPlan
  <1>3. e.from \in DOMAIN Plans[e.of] /\ e.to \in DOMAIN Plans[e.of]
    BY DEF GoodComparison
  <1>4. a \in PlanRecords /\ b \in PlanRecords
        /\ (a.perItem > b.perItem => a.discount = b.discount)
    BY <1>1, <1>2, <1>3, PlansAre
  <1> DEFINE delta == b.monthly - a.monthly
             item == a.perItem - b.perItem
             rate == b.discount - a.discount
  <1>5. /\ a.monthly \in Nat /\ a.perItem \in Nat /\ a.discount \in Nat
        /\ b.monthly \in Nat /\ b.perItem \in Nat /\ b.discount \in Nat
    BY <1>4 DEF PlanRecords
  <1>6. delta \in Nat \ {0} /\ item \in Nat /\ rate \in Nat /\ (item > 0 => rate = 0)
    BY <1>4, <1>5
  <1>7. saves <=> delta * 10000 < (item * e.units) * 10000 + rate * gmv
    <2>0. Within(a, e.units) /\ Within(b, e.units)
      BY DEF Within
    <2>1. TotalCost(a, e.units, e.price) = (a.monthly + a.perItem * e.units) * 10000 - a.discount * gmv
      BY <1>1, <1>4, <2>0, MonthWithinListings
    <2>2. TotalCost(b, e.units, e.price) = (b.monthly + b.perItem * e.units) * 10000 - b.discount * gmv
      BY <1>1, <1>4, <2>0, MonthWithinListings
    <2>3. /\ item * e.units = a.perItem * e.units - b.perItem * e.units
          /\ rate * gmv = b.discount * gmv - a.discount * gmv
      BY <1>1, <1>5
    <2>4. /\ a.perItem * e.units \in Nat /\ b.perItem * e.units \in Nat
          /\ a.discount * gmv \in Nat /\ b.discount * gmv \in Nat
      BY <1>1, <1>5
    <2> QED
      BY <1>5, <2>1, <2>2, <2>3, <2>4
  <1>8. /\ e.breakeven.units = IF item > 0 THEN <<delta, item>> ELSE <<>>
        /\ e.breakeven.gmv = IF rate > 0 THEN Rounded(delta * 10000, rate) ELSE None
    <2>1. e.breakeven = PlanBreakeven(e.of, e.from, e.to)
      BY DEF GoodComparison
    <2> QED
      BY <1>6, <2>1, BreakevenIs
  <1> HIDE DEF delta, item, rate
  <1>9. saves => e.best # e.from
    <2>1. e.best = RecommendPlan(e.of, e.units, e.price)
      BY DEF GoodComparison
    <2>2. TotalCost(Plans[e.of][e.best], e.units, e.price) <= TotalCost(b, e.units, e.price)
      BY <1>1, <1>2, <1>3, <2>1, RecommendedIsCheapest
    <2>3. TotalCost(a, e.units, e.price) \in Int /\ TotalCost(b, e.units, e.price) \in Int
      BY <1>1, <1>4, MonthCosts
    <2> QED
      BY <1>2, <2>2, <2>3
  <1>10. CASE item > 0
    <2>1. e.breakeven.units # <<>> /\ e.breakeven.units[1] = delta /\ e.breakeven.units[2] = item
      BY <1>8, <1>10
    <2>2. rate * gmv = 0 /\ item * e.units \in Nat /\ item * e.units = e.units * item
      BY <1>1, <1>6, <1>10
    <2>3. saves <=> delta < e.units * item
      BY <1>6, <1>7, <2>2
    <2> QED
      BY <1>9, <2>1, <2>3
  <1>11. CASE ~(item > 0) /\ rate > 0
    <2>1. e.breakeven.units = <<>> /\ e.breakeven.gmv = Rounded(delta * 10000, rate)
      BY <1>8, <1>11
    <2>2. item * e.units = 0
      BY <1>1, <1>6, <1>11
    <2>3. rate * gmv \in Nat /\ delta * 10000 \in Nat
      BY <1>1, <1>6
    <2>4. saves <=> delta * 10000 < rate * gmv
      BY <1>7, <2>2, <2>3
    <2>5. /\ Rounded(delta * 10000, rate) \in Nat
          /\ delta * 10000 < rate * gmv => gmv >= Rounded(delta * 10000, rate)
          /\ gmv > Rounded(delta * 10000, rate) + 1 => delta * 10000 < rate * gmv
      BY <1>1, <1>6, <1>11, <2>3, RoundedBounds
    <2>6. Rounded(delta * 10000, rate) # None
      BY <2>5 DEF None
    <2> QED
      BY <1>9, <2>1, <2>4, <2>5, <2>6
  <1>12. CASE ~(item > 0) /\ ~(rate > 0)
    <2>1. e.breakeven.units = <<>> /\ e.breakeven.gmv = None
      BY <1>8, <1>12
    <2>2. item * e.units = 0 /\ rate * gmv = 0
      BY <1>1, <1>6, <1>12
    <2>3. ~saves
      BY <1>6, <1>7, <2>2
    <2> QED
      BY <1>9, <2>1, <2>3
  <1> QED
    BY <1>10, <1>11, <1>12

(* The tier a value falls in is the first that admits it.                   *)
LEMMA FirstTierFits ==
    ASSUME NEW tiers, NEW n \in Nat \ {0}, DOMAIN tiers = 1..n, NEW x,
           NEW tier, tier = FirstTier(tiers, x)
    PROVE  /\ tier \in 0..n
           /\ (tiers[n][1] = None \/ x <= tiers[n][1]) => tier # 0
  <1> DEFINE fits == {i \in DOMAIN tiers : tiers[i][1] = None \/ x <= tiers[i][1]}
  <1>1. fits \in SUBSET Nat /\ fits \subseteq 1..n
    OBVIOUS
  <1>2. tier = IF fits = {} THEN 0 ELSE Min(fits)
    BY DEF FirstTier
  <1>3. (tiers[n][1] = None \/ x <= tiers[n][1]) => n \in fits
    OBVIOUS
  <1> HIDE DEF fits
  <1>4. CASE fits = {}
    <2>1. n \notin fits /\ tier = 0
      BY <1>2, <1>4
    <2> QED
      BY <1>3, <2>1
  <1>5. CASE fits # {}
    <2>1. Min(fits) \in fits
      BY <1>1, <1>5, FirstInstant
    <2>2. tier \in 1..n
      BY <1>1, <1>2, <1>5, <2>1
    <2> QED
      BY <2>2
  <1> QED
    BY <1>4, <1>5

(* Where the last tier has no ceiling, every price has a rate.              *)
LEMMA RatesAre ==
    ASSUME NEW words, NEW price
    PROVE  WalmartReferralRate(ResolveCategory(words), price) \in Nat
  <1> DEFINE c == ResolveCategory(words)
  <1>1. c \in {"electronics_accessories", "consumer_electronics", "jewelry", "grocery",
               "furniture_decor", "default"}
    <2> DEFINE hits == {i \in DOMAIN CategoryKeywords : CategoryKeywords[i][1] \in words}
    <2>1. DOMAIN CategoryKeywords = 1..5
      BY DEF CategoryKeywords
    <2>2. \A i \in 1..5 : CategoryKeywords[i][2] \in
              {"electronics_accessories", "consumer_electronics", "jewelry", "grocery",
               "furniture_decor"}
      <3>1. /\ CategoryKeywords[1][2] = "electronics_accessories"
            /\ CategoryKeywords[2][2] = "consumer_electronics"
            /\ CategoryKeywords[3][2] = "jewelry" /\ CategoryKeywords[4][2] = "grocery"
            /\ CategoryKeywords[5][2] = "furniture_decor"
        BY DEF CategoryKeywords
      <3>2. \A i \in 1..5 : i = 1 \/ i = 2 \/ i = 3 \/ i = 4 \/ i = 5
        OBVIOUS
      <3> QED
        BY <3>1, <3>2, Zenon
    <2>3. hits \in SUBSET Nat /\ hits \subseteq 1..5
      BY <2>1
    <2>4. c = IF hits = {} THEN "default" ELSE CategoryKeywords[Min(hits)][2]
      BY DEF ResolveCategory
    <2> HIDE DEF hits, c
    <2>5. hits # {} => Min(hits) \in 1..5
      BY <2>3, FirstInstant
    <2> QED
      BY <2>2, <2>4, <2>5
  <1> HIDE DEF c
  <1>2. \E n \in Nat \ {0} :
            /\ DOMAIN ReferralRates[c] = 1..n
            /\ \A i \in 1..n : ReferralRates[c][i][2] \in Nat
            /\ ReferralRates[c][n][1] = None
    <2>1. CASE c \in {"electronics_accessories", "grocery", "furniture_decor"}
      <3>1. /\ DOMAIN ReferralRates[c] = 1..2
            /\ \A i \in 1..2 : ReferralRates[c][i][2] \in Nat
            /\ ReferralRates[c][2][1] = None
        BY <2>1 DEF ReferralRates
      <3> QED
        BY <3>1
    <2>2. CASE c \in {"consumer_electronics", "jewelry", "default"}
      <3>1. /\ DOMAIN ReferralRates[c] = 1..1
            /\ \A i \in 1..1 : ReferralRates[c][i][2] \in Nat
            /\ ReferralRates[c][1][1] = None
        BY <2>2 DEF ReferralRates
      <3> QED
        BY <3>1
    <2> QED
      BY <1>1, <2>1, <2>2
  <1> DEFINE tiers == ReferralRates[c]
  <1>3. PICK n \in Nat \ {0} : /\ DOMAIN tiers = 1..n
                               /\ \A i \in 1..n : tiers[i][2] \in Nat
                               /\ tiers[n][1] = None
    BY <1>2, Zenon
  <1>4. FirstTier(tiers, price) \in 0..n /\ FirstTier(tiers, price) # 0
    BY <1>3, FirstTierFits
  <1>5. WalmartReferralRate(c, price) = tiers[FirstTier(tiers, price)][2]
    BY DEF WalmartReferralRate
  <1> HIDE DEF tiers
  <1> QED
    BY <1>3, <1>4, <1>5 DEF c

(* What a parcel weighs.                                                    *)
LEMMA ParcelIs ==
    ASSUME NEW p \in Parcels
    PROVE  p.weight \in Nat /\ Volume(p) \in Nat /\ BillableWeight(p) \in Nat
  <1>1. p.weight \in Nat /\ (p.sides = <<>> \/ p.sides \in Nat \X Nat \X Nat)
    BY FeesAssumption
  <1>2. Volume(p) \in Nat
    <2>1. CASE p.sides = <<>>
      BY <2>1 DEF Volume
    <2>2. CASE p.sides # <<>>
      <3>1. p.sides[1] \in Nat /\ p.sides[2] \in Nat /\ p.sides[3] \in Nat
        BY <1>1, <2>2
      <3>2. Volume(p) = p.sides[1] * p.sides[2] * p.sides[3]
        BY <2>2 DEF Volume
      <3> QED
        BY <3>1, <3>2
    <2> QED
      BY <2>1, <2>2
  <1>3. BillableWeight(p) = IF p.weight >= 2 * Volume(p) THEN p.weight ELSE 2 * Volume(p)
    BY <1>1, <1>2, MaxOfTwo DEF BillableWeight
  <1> QED
    BY <1>1, <1>2, <1>3

LEMMA FulfillmentNat ==
    ASSUME NEW p \in Parcels, NEW price \in Nat
    PROVE  WfsFulfillmentFee(p, price) \in Nat
  <1> DEFINE w == IF BillableWeight(p) = Unknown THEN AssumedWeight ELSE BillableWeight(p)
             i == FirstTier(WfsTiers, w)
             t == WfsTiers[i]
             extra == IF SizeTier(p) = "oversize" THEN 3000 ELSE 0
  <1>1. BillableWeight(p) \in Nat
    BY ParcelIs
  <1>2. w \in Nat
    BY <1>1 DEF AssumedWeight, Lb
  <1>3. WfsFulfillmentFee(p, price) =
            IF price < 1000 THEN 445
            ELSE IF SizeTier(p) = "bulky" THEN 1655 + 7000
            ELSE Rounded(t[2] * Lb + t[3] * Max({0, w - t[4]}), Lb) + extra
    BY DEF WfsFulfillmentFee
  <1>4. SizeTier(p) # "bulky" => w <= 150 * Lb
    <2>1. BillableWeight(p) # Unknown /\ BillableWeight(p) >= 150 * Lb => SizeTier(p) = "bulky"
      BY <1>1 DEF SizeTier
    <2> QED
      BY <1>1, <2>1 DEF AssumedWeight, Lb
  <1>5. DOMAIN WfsTiers = 1..6 /\ WfsTiers[6][1] = 150 * Lb
    BY DEF WfsTiers
  <1>6. \A j \in 1..6 : WfsTiers[j][2] \in Nat /\ WfsTiers[j][3] \in Nat /\ WfsTiers[j][4] \in Nat
    BY DEF WfsTiers, Lb
  <1>7. extra \in Nat /\ Lb \in Nat \ {0}
    BY DEF Lb
  <1> HIDE DEF w, i, extra
  <1>8. SizeTier(p) # "bulky" => i \in 1..6
    <2>1. i \in 0..6 /\ (w <= WfsTiers[6][1] => i # 0)
      <3>1. 6 \in Nat \ {0}
        OBVIOUS
      <3> QED
        BY <1>5, <3>1, FirstTierFits, Zenon DEF i
    <2> QED
      BY <1>4, <1>5, <2>1
  <1>9. ASSUME SizeTier(p) # "bulky" PROVE Rounded(t[2] * Lb + t[3] * Max({0, w - t[4]}), Lb) \in Nat
    <2>1. t[2] \in Nat /\ t[3] \in Nat /\ t[4] \in Nat
      BY <1>6, <1>8, <1>9
    <2> HIDE DEF t
    <2>2. Max({0, w - t[4]}) \in Nat
      <3>1. w - t[4] \in Int
        BY <1>2, <2>1
      <3> QED
        BY <3>1, MaxOfTwo
    <2>3. t[2] * Lb + t[3] * Max({0, w - t[4]}) \in Nat
      BY <1>7, <2>1, <2>2
    <2> QED
      BY <1>7, <2>3, RoundedNat
  <1> QED
    BY <1>3, <1>7, <1>9

LEMMA StorageNat ==
    ASSUME NEW p \in Parcels, NEW days \in Nat, NEW q4
    PROVE  WfsStorageFee(p, days, q4) \in Nat
  <1> DEFINE rate == IF q4 THEN 150 ELSE 75
  <1>1. Volume(p) \in Nat /\ rate \in Nat
    BY ParcelIs
  <1> HIDE DEF rate
  <1>2. 5 * rate * days \in Nat /\ Volume(p) * rate * days \in Nat
    BY <1>1
  <1>3. Rounded(5 * rate * days, 3000) \in Nat /\ Rounded(Volume(p) * rate * days, 1728 * 30) \in Nat
    BY <1>2, RoundedNat
  <1> QED
    BY <1>3 DEF WfsStorageFee, rate

LEMMA ShippingNat ==
    ASSUME NEW p \in Parcels
    PROVE  EbayShippingEstimate(p) \in Nat
  <1> DEFINE w == IF BillableWeight(p) = Unknown THEN AssumedWeight ELSE BillableWeight(p)
             i == FirstTier(EbayShippingTiers, w)
  <1>1. w \in Nat
    BY ParcelIs DEF AssumedWeight, Lb
  <1>2. EbayShippingEstimate(p) =
            IF i # 0 THEN EbayShippingTiers[i][2] ELSE Rounded(4800 * Lb + (w - 50 * Lb) * 110, Lb)
    BY DEF EbayShippingEstimate
  <1>3. DOMAIN EbayShippingTiers = 1..8 /\ EbayShippingTiers[8][1] = 50 * Lb
    BY DEF EbayShippingTiers
  <1>4. \A j \in 1..8 : EbayShippingTiers[j][2] \in Nat
    BY DEF EbayShippingTiers
  <1> HIDE DEF w
  <1>5. i \in 0..8 /\ (w <= 50 * Lb => i # 0)
    <2>1. 8 \in Nat \ {0}
      OBVIOUS
    <2> QED
      BY <1>3, <2>1, FirstTierFits, Zenon
  <1> HIDE DEF i
  <1>6. CASE i # 0
    BY <1>2, <1>4, <1>5, <1>6
  <1>7. CASE i = 0
    <2>1. 4800 * Lb + (w - 50 * Lb) * 110 \in Nat /\ Lb \in Nat \ {0}
      BY <1>1, <1>5, <1>7 DEF Lb
    <2> QED
      BY <1>2, <1>7, <2>1, RoundedNat
  <1> QED
    BY <1>6, <1>7

LEMMA GetPlanIs ==
    ASSUME NEW channel \in PlanChannels, NEW key, NEW plan, plan = GetPlan(channel, key)
    PROVE  plan \in PlanRecords /\ plan.monthly \in Nat /\ plan.perItem \in Nat /\ plan.discount \in Nat
  <1>1. plan \in PlanRecords
    <2>1. CASE key \in DOMAIN Plans[channel]
      BY <2>1, PlansAre DEF GetPlan
    <2>2. CASE key \notin DOMAIN Plans[channel]
      BY <2>2, PlansAre DEF GetPlan
    <2> QED
      BY <2>1, <2>2
  <1> QED
    BY <1>1 DEF PlanRecords

LEMMA RateIsNat ==
    ASSUME NEW rate \in Int, NEW plan \in PlanRecords
    PROVE  EffectiveFeeRate(rate, plan) \in Nat
  <1>1. rate - plan.discount \in Int
    BY DEF PlanRecords
  <1> QED
    BY <1>1, MaxOfTwo DEF EffectiveFeeRate

LEMMA PercentNat ==
    ASSUME NEW base \in Nat, NEW rate \in Nat
    PROVE  Percent(base, rate) \in Nat
  BY RoundedNat DEF Percent

(* A quote of Walmart is a good one.                                        *)
LEMMA WalmartQuote ==
    ASSUME NEW price \in Nat, NEW cost \in Nat, NEW words, NEW parcel \in Parcels,
           NEW wfs \in BOOLEAN, NEW days \in Nat, NEW q4 \in BOOLEAN,
           NEW shipping \in Nat \cup {None}, NEW returns \in Nat, NEW seen \in Calibrations,
           NEW e, e = WalmartEconomics(price, cost, ResolveCategory(words), parcel, wfs, days, q4,
                                       shipping, returns, seen)
    PROVE  GoodQuote(e)
  <1>1. PICK plan : plan = GetPlan("walmart", "standard")
    OBVIOUS
  <1>2. plan \in PlanRecords /\ plan.perItem \in Nat
    <2>1. "walmart" \in PlanChannels
      BY DEF PlanChannels, Plans
    <2> QED
      BY <1>1, <2>1, GetPlanIs
  <1>3. /\ seen.rate = None \/ seen.rate \in Nat
        /\ seen.fulfillment = None \/ seen.fulfillment \in Nat
        /\ seen.storage = None \/ seen.storage \in Nat
    BY DEF Calibrations, Uncalibrated
  <1>4. PICK rate : rate = EffectiveFeeRate(IF seen.rate # None THEN seen.rate
                                  ELSE WalmartReferralRate(ResolveCategory(words), price), plan)
    OBVIOUS
  <1>5. rate \in Nat
    <2>1. WalmartReferralRate(ResolveCategory(words), price) \in Nat
      BY RatesAre
    <2>2. (IF seen.rate # None THEN seen.rate
           ELSE WalmartReferralRate(ResolveCategory(words), price)) \in Int
      BY <1>3, <2>1
    <2> QED
      BY <1>2, <1>4, <2>2, RateIsNat
  <1> DEFINE
        referral    == Percent(price, rate)
        fulfillment == IF ~wfs THEN 0
                       ELSE IF seen.fulfillment # None THEN seen.fulfillment
                       ELSE WfsFulfillmentFee(parcel, price)
        storage     == IF ~wfs THEN 0
                       ELSE IF seen.storage # None THEN seen.storage
                       ELSE WfsStorageFee(parcel, days, q4)
        shipped     == IF wfs THEN 0 ELSE IF shipping # None THEN shipping
                       ELSE EbayShippingEstimate(parcel)
        other       == plan.perItem + IF wfs THEN Percent(700, returns) ELSE 0
  <1>6. /\ referral \in Nat /\ fulfillment \in Nat /\ storage \in Nat
        /\ shipped \in Nat /\ other \in Nat
    <2>1. WfsFulfillmentFee(parcel, price) \in Nat /\ WfsStorageFee(parcel, days, q4) \in Nat
      BY FulfillmentNat, StorageNat
    <2>2. EbayShippingEstimate(parcel) \in Nat
      BY ShippingNat
    <2>3. Percent(700, returns) \in Nat
      <3>1. 700 \in Nat
        OBVIOUS
      <3> QED
        BY <3>1, PercentNat, Zenon
    <2>4. Percent(price, rate) \in Nat
      BY <1>5, PercentNat
    <2>5. referral \in Nat /\ fulfillment \in Nat /\ storage \in Nat
      BY <1>3, <2>1, <2>4
    <2>6. shipped \in Nat /\ other \in Nat
      BY <1>2, <2>2, <2>3
    <2> QED
      BY <2>5, <2>6
  <1>7. e = [channel |-> "walmart", price |-> price, cost |-> cost,
             fees |-> [referral |-> referral, fulfillment |-> fulfillment, storage |-> storage,
                       perOrder |-> 0, shipping |-> shipped, ad |-> 0, other |-> other]]
    BY <1>1, <1>4 DEF WalmartEconomics
  <1> HIDE DEF referral, fulfillment, storage, shipped, other
  <1>8. PICK f : f = [referral |-> referral, fulfillment |-> fulfillment, storage |-> storage,
                      perOrder |-> 0, shipping |-> shipped, ad |-> 0, other |-> other]
    OBVIOUS
  <1>9. IsFees(f)
    <2>1. PICK a \in Nat, b \in Nat, c \in Nat, s \in Nat, h \in Nat :
              a = referral /\ b = fulfillment /\ c = storage /\ s = shipped /\ h = other
      BY <1>6
    <2>2. f = [referral |-> a, fulfillment |-> b, storage |-> c, perOrder |-> 0,
               shipping |-> s, ad |-> 0, other |-> h]
      BY <1>8, <2>1, Zenon
    <2> QED
      <3>1. /\ f.referral = a /\ f.fulfillment = b /\ f.storage = c /\ f.perOrder = 0
            /\ f.shipping = s /\ f.ad = 0 /\ f.other = h
        BY <2>2
      <3> QED
        BY <3>1 DEF IsFees
  <1>10. e = [channel |-> "walmart", price |-> price, cost |-> cost, fees |-> f]
    BY <1>7, <1>8
  <1>11. e.channel = "walmart" /\ e.price = price /\ e.cost = cost /\ e.fees = f
    BY <1>10
  <1> QED
    BY <1>9, <1>11 DEF GoodQuote

(* A whole number of cents added before rounding can be taken off after.    *)
LEMMA RoundedShift ==
    ASSUME NEW x \in Nat, NEW k \in Nat
    PROVE  Rounded(x + k * 10000, 10000) - k = Rounded(x, 10000)
  <1>1. (2 * (x + k * 10000) + 10000) \div 20000 = (2 * x + 10000) \div 20000 + k
    OBVIOUS
  <1> QED
    BY <1>1 DEF Rounded

(* eBay's fee, less the part that is charged per order, is its percentage.  *)
LEMMA FinalValueSplit ==
    ASSUME NEW total \in Nat, NEW rate \in Nat
    PROVE  /\ EbayFinalValueFee(total, rate) - EbayPerOrderFee(total) \in Nat
           /\ total <= HighValue =>
                EbayFinalValueFee(total, rate) - EbayPerOrderFee(total) = Percent(total, rate)
  <1> DEFINE low == IF total <= HighValue THEN total ELSE HighValue
             x == low * rate + (total - low) * 235
             k == EbayPerOrderFee(total)
  <1>1. low \in Nat /\ total - low \in Nat /\ k \in Nat
    BY FeesAssumption DEF EbayPerOrderFee
  <1>2. x \in Nat
    BY <1>1
  <1>3. EbayFinalValueFee(total, rate) = Rounded(x + k * 10000, 10000)
    <2>1. Min({total, HighValue}) = low
      BY FeesAssumption, MinOfTwo
    <2> QED
      BY <2>1 DEF EbayFinalValueFee
  <1>4. total <= HighValue => x = total * rate
    BY <1>1
  <1> HIDE DEF x, k
  <1>5. EbayFinalValueFee(total, rate) - k = Rounded(x, 10000)
    BY <1>1, <1>2, <1>3, RoundedShift
  <1>6. Rounded(x, 10000) \in Nat
    BY <1>2, RoundedNat
  <1> QED
    BY <1>4, <1>5, <1>6 DEF k, Percent

(* A quote of eBay is a good one.                                           *)
LEMMA EbayQuote ==
    ASSUME NEW price \in Nat, NEW cost \in Nat, NEW parcel \in Parcels, NEW charged \in Nat,
           NEW shipping \in Nat \cup {None}, NEW ads \in Nat, NEW key, NEW tax \in Nat,
           NEW e, e = EbayEconomics(price, cost, parcel, charged, shipping, ads, key, tax)
    PROVE  GoodQuote(e)
  <1>1. PICK plan : plan = GetPlan("ebay", key)
    OBVIOUS
  <1>2. plan \in PlanRecords /\ plan.perItem \in Nat
    <2>1. "ebay" \in PlanChannels
      BY DEF PlanChannels, Plans
    <2> QED
      BY <1>1, <2>1, GetPlanIs
  <1>3. PICK base, rate : /\ base = price + charged + Percent(price, tax)
                          /\ rate = EffectiveFeeRate(1360, plan)
    OBVIOUS
  <1>4. base \in Nat /\ rate \in Nat
    <2>1. Percent(price, tax) \in Nat
      BY PercentNat
    <2>2. EffectiveFeeRate(1360, plan) \in Nat
      BY <1>2, RateIsNat
    <2> QED
      BY <1>3, <2>1, <2>2
  <1>5. PICK k, r : k = EbayPerOrderFee(base) /\ r = EbayFinalValueFee(base, rate) - k
    OBVIOUS
  <1>6. k \in Nat /\ r \in Nat /\ (base <= HighValue => r = Percent(base, rate))
    BY <1>4, <1>5, FinalValueSplit DEF EbayPerOrderFee
  <1>7. PICK shipped, ad : /\ shipped = IF shipping # None THEN shipping
                                        ELSE EbayShippingEstimate(parcel)
                           /\ ad = Percent(base, ads)
    OBVIOUS
  <1>8. shipped \in Nat /\ ad \in Nat
    BY <1>4, <1>7, ShippingNat, PercentNat
  <1>9. PICK f : f = [referral |-> r, fulfillment |-> 0, storage |-> 0, perOrder |-> k,
                      shipping |-> shipped, ad |-> ad, other |-> plan.perItem]
    OBVIOUS
  <1>10. IsFees(f) /\ f.referral = r
    <2>1. /\ f.referral = r /\ f.fulfillment = 0 /\ f.storage = 0 /\ f.perOrder = k
          /\ f.shipping = shipped /\ f.ad = ad /\ f.other = plan.perItem
      BY <1>9
    <2> QED
      BY <1>2, <1>6, <1>8, <2>1 DEF IsFees
  <1>11. e = [channel |-> "ebay", price |-> price + charged, cost |-> cost,
              base |-> base, rate |-> rate, fees |-> f]
    BY <1>1, <1>3, <1>5, <1>7, <1>9 DEF EbayEconomics
  <1>12. /\ e.channel = "ebay" /\ e.price = price + charged /\ e.cost = cost
         /\ e.base = base /\ e.rate = rate /\ e.fees = f
    BY <1>11
  <1> QED
    BY <1>6, <1>10, <1>12 DEF GoodQuote

(* What a unit costs landed is a number of cents.                           *)
LEMMA ShareIs ==
    ASSUME NEW total \in Nat, NEW units \in Nat, NEW basis, NEW mine \in Nat, NEW whole \in Nat,
           NEW share, share = AllocateShipment(total, units, basis, mine, whole)
    PROVE  share[1] \in Nat /\ share[2] \in Nat \ {0}
  <1>1. CASE units <= 0
    BY <1>1 DEF AllocateShipment
  <1>2. CASE units > 0 /\ basis # "per_unit" /\ mine > 0 /\ whole > 0
    <2>1. share = <<total * mine, whole * units>>
      BY <1>2 DEF AllocateShipment
    <2>2. total * mine \in Nat /\ whole * units \in Nat \ {0}
      BY <1>2
    <2> QED
      BY <2>1, <2>2
  <1>3. CASE units > 0 /\ ~(basis # "per_unit" /\ mine > 0 /\ whole > 0)
    BY <1>3 DEF AllocateShipment
  <1> QED
    BY <1>1, <1>2, <1>3

LEMMA FreightNat ==
    ASSUME NEW over \in Nat \cup {None}, NEW perLb \in Nat, NEW flat \in Nat, NEW p \in Parcels,
           NEW freight, freight = Freight(over, perLb, flat, p)
    PROVE  freight \in Nat
  <1>1. perLb * p.weight \in Nat /\ Lb \in Nat \ {0}
    BY ParcelIs DEF Lb
  <1>2. Rounded(perLb * p.weight, Lb) \in Nat
    BY <1>1, RoundedNat
  <1> QED
    BY <1>2 DEF Freight

LEMMA LandedNat ==
    ASSUME NEW invoice \in Nat, NEW freight \in Nat, NEW perCase \in Nat, NEW casePack \in Nat,
           NEW duty \in Nat, NEW shrink \in Nat, NEW returns \in Nat,
           NEW cost, cost = LandedTotal(invoice, freight, perCase, casePack, duty, shrink, returns)
    PROVE  cost \in Nat
  <1> DEFINE packed == IF casePack > 0 THEN Rounded(perCase, casePack) ELSE 0
             before == invoice + freight + packed + Percent(invoice, duty)
             left == ((10000 - shrink) * (10000 - returns)) \div 10000
             survival == Max({100, left})
  <1>1. packed \in Nat
    BY RoundedNat
  <1> HIDE DEF packed
  <1>2. before \in Nat
    <2>1. Percent(invoice, duty) \in Nat
      BY PercentNat
    <2> QED
      BY <1>1, <2>1
  <1>3. left \in Int
    OBVIOUS
  <1> HIDE DEF left, before
  <1>4. survival \in Nat \ {0}
    BY <1>3, MaxOfTwo
  <1>5. LandedTotal(invoice, freight, perCase, casePack, duty, shrink, returns) =
            Rounded(before * 10000, survival)
    BY DEF LandedTotal, packed, before, left
  <1> HIDE DEF survival
  <1> QED
    BY <1>2, <1>4, <1>5, RoundedNat

LEMMA LandedUnitCostNat ==
    ASSUME NEW invoice \in Nat, NEW parcel \in Parcels, NEW t \in BuyingTerms,
           NEW cost, cost = LandedUnitCost(invoice, parcel, t)
    PROVE  cost \in Nat
  <1>1. /\ t.override \in Nat \cup {None} /\ t.perLb \in Nat /\ t.units \in Nat /\ t.mine \in Nat
        /\ t.pack \in Nat /\ t.returns \in Nat
    BY DEF BuyingTerms
  <1>2. PICK total \in Nat, whole \in Nat, perCase \in Nat, duty \in Nat, shrink \in Nat :
            total = 36000 /\ whole = 700 /\ perCase = 240 /\ duty = 500 /\ shrink = 200
    OBVIOUS
  <1>3. PICK share : share = AllocateShipment(total, t.units, t.basis, t.mine, whole)
    OBVIOUS
  <1>4. share[1] \in Nat /\ share[2] \in Nat \ {0}
    BY <1>1, <1>3, ShareIs
  <1>5. PICK flat : flat = Rounded(share[1], share[2])
    OBVIOUS
  <1>6. flat \in Nat
    BY <1>4, <1>5, RoundedNat
  <1>7. PICK freight : freight = Freight(t.override, t.perLb, flat, parcel)
    OBVIOUS
  <1>8. freight \in Nat
    BY <1>1, <1>6, <1>7, FreightNat
  <1>9. cost = LandedTotal(invoice, freight, perCase, t.pack, duty, shrink, t.returns)
    BY <1>2, <1>3, <1>5, <1>7 DEF LandedUnitCost
  <1> QED
    BY <1>1, <1>8, <1>9, LandedNat

(* The cost quoted for a landed unit is of a category like any other.       *)
LEMMA LandedQuote ==
    ASSUME NEW cost \in Nat, NEW parcel \in Parcels, NEW price \in Nat, NEW wfs \in BOOLEAN,
           NEW days \in Nat, NEW q4 \in BOOLEAN, NEW seen \in Calibrations,
           NEW shipping \in Nat \cup {None}, NEW returns \in Nat,
           NEW e, e = WalmartEconomics(price, cost, "default", parcel, wfs, days, q4, shipping,
                                       returns, seen)
    PROVE  GoodQuote(e)
  <1>1. PICK c, words : c = "default" /\ words = {}
    OBVIOUS
  <1>2. c = ResolveCategory(words)
    BY <1>1 DEF ResolveCategory
  <1>3. e = WalmartEconomics(price, cost, ResolveCategory(words), parcel, wfs, days, q4, shipping,
                             returns, seen)
    BY <1>1, <1>2, Zenon
  <1> QED
    BY <1>3, WalmartQuote

(* The invariant is kept: an answer is a good quote or a good comparison.   *)
LEMMA WalmartStep == ASSUME QuoteWalmart PROVE FeesInv'
  <1>1. PICK price \in Prices, cost \in Costs, parcel \in Parcels, words \in Breadcrumbs,
             wfs \in BOOLEAN, q4 \in BOOLEAN, seen \in Calibrations, shipping \in {None, 625},
             returns \in {0, 300} :
           answer' = WalmartEconomics(price, cost, ResolveCategory(words), parcel, wfs, DaysStored,
                                      q4, shipping, returns, seen)
    BY DEF QuoteWalmart
  <1>2. /\ price \in Nat /\ cost \in Nat /\ DaysStored \in Nat /\ shipping \in Nat \cup {None}
        /\ returns \in Nat
    BY FeesAssumption DEF DaysStored
  <1>3. GoodQuote(answer')
    BY <1>1, <1>2, WalmartQuote
  <1> QED
    BY <1>3 DEF FeesInv

LEMMA EbayStep == ASSUME QuoteEbay PROVE FeesInv'
  <1>1. PICK price \in Prices, cost \in Costs, parcel \in Parcels, charged \in {0, 600},
             shipping \in {None, 625}, ads \in {0, 900}, key \in {"none", "basic"},
             tax \in {0, 700} :
           answer' = EbayEconomics(price, cost, parcel, charged, shipping, ads, key, tax)
    BY DEF QuoteEbay
  <1>2. /\ price \in Nat /\ cost \in Nat /\ charged \in Nat /\ shipping \in Nat \cup {None}
        /\ ads \in Nat /\ tax \in Nat
    BY FeesAssumption
  <1>3. GoodQuote(answer')
    BY <1>1, <1>2, EbayQuote
  <1> QED
    BY <1>3 DEF FeesInv

LEMMA LandedStep == ASSUME QuoteLanded PROVE FeesInv'
  <1>1. PICK invoice \in Costs, parcel \in Parcels, terms \in BuyingTerms :
         answer' = WalmartEconomics(LandedPrice, LandedUnitCost(invoice, parcel, terms), "default",
                                    parcel, TRUE, DaysStored, FALSE, None, 0, Uncalibrated)
    BY DEF QuoteLanded
  <1>2. PICK cost : cost = LandedUnitCost(invoice, parcel, terms)
    OBVIOUS
  <1>3. cost \in Nat
    BY <1>2, LandedUnitCostNat, FeesAssumption
  <1>4. answer' = WalmartEconomics(LandedPrice, cost, "default", parcel, TRUE, DaysStored, FALSE, None, 0,
                                   Uncalibrated)
    BY <1>1, <1>2
  <1>5. \A wfs, q4 \in BOOLEAN, shipping \in Nat \cup {None}, price, days, returns \in Nat,
           seen \in Calibrations :
            GoodQuote(WalmartEconomics(price, cost, "default", parcel, wfs, days, q4, shipping,
                                       returns, seen))
    BY <1>3, LandedQuote
  <1>6. Uncalibrated \in Calibrations
    BY DEF Calibrations
  <1>7. LandedPrice \in Nat /\ DaysStored \in Nat /\ 0 \in Nat
    BY DEF LandedPrice, DaysStored
  <1>8. GoodQuote(WalmartEconomics(LandedPrice, cost, "default", parcel, TRUE, DaysStored, FALSE, None,
                                   0, Uncalibrated))
    BY <1>5, <1>6, <1>7
  <1>9. GoodQuote(answer')
    BY <1>4, <1>8
  <1> QED
    BY <1>9 DEF FeesInv

LEMMA CompareStep == ASSUME ComparePlans PROVE FeesInv'
  <1>1. PICK channel \in PlanChannels, units \in Volumes, price \in Prices :
         \E from, to \in DOMAIN Plans[channel] :
         answer' = [channel |-> "plans", of |-> channel, from |-> from, to |-> to,
                    units |-> units, price |-> price,
                    breakeven |-> PlanBreakeven(channel, from, to),
                    best |-> RecommendPlan(channel, units, price)]
    BY DEF ComparePlans
  <1>2. PICK from \in DOMAIN Plans[channel], to \in DOMAIN Plans[channel] :
         answer' = [channel |-> "plans", of |-> channel, from |-> from, to |-> to,
                    units |-> units, price |-> price,
                    breakeven |-> PlanBreakeven(channel, from, to),
                    best |-> RecommendPlan(channel, units, price)]
    BY <1>1
  <1>3. PICK be, best : be = PlanBreakeven(channel, from, to)
                        /\ best = RecommendPlan(channel, units, price)
    OBVIOUS
  <1>4. answer' = [channel |-> "plans", of |-> channel, from |-> from, to |-> to,
                   units |-> units, price |-> price, breakeven |-> be, best |-> best]
    BY <1>2, <1>3
  <1>5. /\ answer'.channel = "plans" /\ answer'.of = channel /\ answer'.from = from
        /\ answer'.to = to /\ answer'.units = units /\ answer'.price = price
        /\ answer'.breakeven = be /\ answer'.best = best
    BY <1>4
  <1>6. units \in Nat /\ price \in Nat
    BY FeesAssumption
  <1>7. GoodComparison(answer')
    BY <1>3, <1>5, <1>6 DEF GoodComparison
  <1> QED
    BY <1>7 DEF FeesInv

LEMMA FeesInvariant == FeesSpec => []FeesInv
  <1>1. FeesInit => FeesInv
    BY DEF FeesInit, FeesInv
  <1>2. FeesInv /\ [FeesNext]_feesVars => FeesInv'
    <2>1. CASE FeesNext
      BY <2>1, WalmartStep, EbayStep, LandedStep, CompareStep DEF FeesNext
    <2>2. ASSUME FeesInv, UNCHANGED feesVars PROVE FeesInv'
      BY <2>2 DEF FeesInv, feesVars
    <2> QED
      BY <2>1, <2>2
  <1> QED
    BY <1>1, <1>2, PTL DEF FeesSpec

(* Whatever the calculators are asked: a unit makes money exactly above its *)
(* break-even price, eBay's percentage and its per-order fee add up to its  *)
(* final value fee, and a plan pays exactly past its break-even volume.     *)
THEOREM CalculatorsAgree == FeesSpec => []AnswersAgree
  <1>1. FeesInv => AnswersAgree
    <2> SUFFICES ASSUME FeesInv, answer # NoAnswer PROVE AnswersAgree
      BY DEF AnswersAgree, BreakevenSeparates, EbaySplitAgrees, PlanFlipsAtBreakeven, IsQuote
    <2>1. CASE GoodQuote(answer)
      <3>1. BreakevenSeparates
        BY <2>1, BreakevenIsBetween DEF GoodQuote, BreakevenSeparates
      <3>2. EbaySplitAgrees
        BY <2>1 DEF GoodQuote, EbaySplitAgrees
      <3>3. PlanFlipsAtBreakeven
        <4>1. answer.channel # "plans"
          BY <2>1 DEF GoodQuote
        <4> QED
          BY <4>1 DEF PlanFlipsAtBreakeven
      <3> QED
        BY <3>1, <3>2, <3>3 DEF AnswersAgree
    <2>2. CASE GoodComparison(answer)
      <3>1. answer.channel \notin {"walmart", "ebay"}
        BY <2>2 DEF GoodComparison
      <3>2. BreakevenSeparates /\ EbaySplitAgrees
        BY <3>1 DEF BreakevenSeparates, EbaySplitAgrees, IsQuote
      <3>3. PlanFlipsAtBreakeven
        <4>1. PICK a, b : a = GetPlan(answer.of, answer.from) /\ b = GetPlan(answer.of, answer.to)
          OBVIOUS
        <4>2. PICK gmv : gmv = answer.units * answer.price
          OBVIOUS
        <4>3. PICK saves : saves = (TotalCost(b, answer.units, answer.price)
                                      < TotalCost(a, answer.units, answer.price))
          OBVIOUS
        <4> QED
          BY <2>2, <4>1, <4>2, <4>3, UpgradesPayPastBreakeven DEF PlanFlipsAtBreakeven
      <3> QED
        BY <3>2, <3>3 DEF AnswersAgree
    <2> QED
      BY <2>1, <2>2 DEF FeesInv
  <1> QED
    BY <1>1, FeesInvariant, PTL
=============================================================================
