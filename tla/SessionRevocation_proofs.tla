---------------------- MODULE SessionRevocation_proofs ----------------------
(***************************************************************************)
(* Proofs about SessionRevocation for any number of processes and tokens,  *)
(* any overlap and any mix of failures; about RevocationGrace, the check   *)
(* of one request while Redis cannot be read; about LoginWindows, the      *)
(* counters that bound the guesses of a password; and about                *)
(* CallerIdentity, who a request that passes them is taken for.            *)
(***************************************************************************)
EXTENDS SessionRevocation, Sequences, FiniteSetTheorems, TLAPS

\* No transaction that is open, and no watermark, is older, respectively newer, than the overlap.
TimeInv ==
    /\ \A x \in late : x.at > clock - Overlap
    /\ \A t \in Tokens : lpc[t] = "persist" => lat[t] > clock - Overlap
    /\ \A p \in Procs : pp[p] \in {"flush", "import"} => pat[p] > clock - Overlap
    /\ \A p \in Procs : wm[p] <= clock - Overlap

\* What a process's next pull will not read, it knows.
RowInv ==
    \A p \in Procs : \A r \in db : r.at <= wm[p] => r.tok \in mirror[p] \cup expired

\* A logout whose insert is under way is durable or queued.
LogoutInv ==
    \A t \in Tokens :
        /\ lpc[t] \in {"redis", "persist"} => lproc[t] \in Procs
        /\ lpc[t] = "persist" => t \in Toks(db) \cup queue[lproc[t]] \cup expired

IndInv == TypeOK /\ TimeInv /\ RowInv /\ PullMissesNothing /\ LogoutInv /\ NothingDropped

-----------------------------------------------------------------------------
(* Types. *)

LEMMA InsertedType ==
  ASSUME TypeOK, NEW toks \in SUBSET Tokens, NEW at \in Nat
  PROVE  Inserted(toks, at) \subseteq Row
  BY DEF TypeOK, Inserted, Row

LEMMA GivesUpType ==
  ASSUME TypeOK, NEW toks \in SUBSET Tokens, NEW at \in Nat, GivesUp(toks, at)
  PROVE  late' \subseteq Insert
  BY DEF TypeOK, GivesUp, Insert

LEMMA PulledType == ASSUME TypeOK, NEW p PROVE Toks(Pulled(p)) \subseteq Tokens /\ Toks(db) \subseteq Tokens
  BY DEF TypeOK, Toks, Pulled, Row

LEMMA TypeStep == TypeOK /\ [Next]_vars => TypeOK'
  <1> SUFFICES ASSUME TypeOK, [Next]_vars PROVE TypeOK'
    OBVIOUS
  <1> USE ClockAssumption DEF Goto, Live
  <1>1. ASSUME NEW p \in Procs, NEW t \in Tokens, Logout(p, t) PROVE TypeOK'
    BY <1>1 DEF Logout, TypeOK, stores, pass, history
  <1>2. ASSUME NEW t \in Tokens, LogoutRedis(t) PROVE TypeOK'
    BY <1>2 DEF LogoutRedis, TypeOK, pass, history
  <1>3. ASSUME NEW t \in Tokens, LogoutPersist(t) PROVE TypeOK'
    <2>1. db' \subseteq Row
      BY <1>3, InsertedType DEF LogoutPersist, TypeOK
    <2> QED BY <1>3, <2>1 DEF LogoutPersist, Answered, TypeOK, pass, history
  <1>4. ASSUME NEW t \in Tokens, LogoutPersistFails(t) PROVE TypeOK'
    <2>1. late' \subseteq Insert
      BY <1>4, GivesUpType DEF LogoutPersistFails, TypeOK
    <2> QED BY <1>4, <2>1 DEF LogoutPersistFails, Answered, TypeOK, proc, pass, history
  <1>5. ASSUME NEW p \in Procs, PassBegin(p) PROVE TypeOK'
    BY <1>5 DEF PassBegin, TypeOK, stores, logouts
  <1>6. ASSUME NEW p \in Procs, Pull(p) PROVE TypeOK'
    <2>1. Watermark \in Int
      BY DEF Watermark, TypeOK
    <2> QED BY <1>6, <2>1, PulledType DEF Pull, Pending, Persists, TypeOK, stores, logouts
  <1>7. ASSUME NEW p \in Procs, PullFails(p) PROVE TypeOK'
    BY <1>7 DEF PullFails, TypeOK, stores, logouts, proc, history
  <1>8. ASSUME NEW p \in Procs, Flush(p) PROVE TypeOK'
    <2>1. db' \subseteq Row
      BY <1>8, InsertedType DEF Flush, TypeOK
    <2> QED BY <1>8, <2>1 DEF Flush, Written, Over, TypeOK, logouts, history
  <1>9. ASSUME NEW p \in Procs, FlushFails(p) PROVE TypeOK'
    <2>1. late' \subseteq Insert
      BY <1>9, GivesUpType DEF FlushFails, TypeOK
    <2> QED BY <1>9, <2>1 DEF FlushFails, Over, TypeOK, logouts, proc, history
  <1>10. ASSUME NEW p \in Procs, Rewrite(p) PROVE TypeOK'
    BY <1>10 DEF Rewrite, TypeOK, logouts, history
  <1>11. ASSUME NEW p \in Procs, ReadMarker(p) PROVE TypeOK'
    BY <1>11 DEF ReadMarker, TypeOK, stores, logouts, proc, history
  <1>12. ASSUME NEW p \in Procs, Scan(p) PROVE TypeOK'
    BY <1>12 DEF Scan, Persists, TypeOK, stores, logouts, history
  <1>13. ASSUME NEW p \in Procs, Reseed(p) PROVE TypeOK'
    BY <1>13 DEF Reseed, TypeOK, logouts, proc, history
  <1>14. ASSUME NEW p \in Procs, SetMarker(p) PROVE TypeOK'
    BY <1>14 DEF SetMarker, Persists, TypeOK, logouts, proc, history
  <1>15. ASSUME NEW p \in Procs, RedisFails(p) PROVE TypeOK'
    BY <1>15 DEF RedisFails, TypeOK, stores, logouts, proc, history
  <1>16. ASSUME NEW p \in Procs, Import(p) PROVE TypeOK'
    <2>1. db' \subseteq Row
      BY <1>16, InsertedType DEF Import, TypeOK
    <2> QED BY <1>16, <2>1 DEF Import, Written, TypeOK, logouts, history
  <1>17. ASSUME NEW p \in Procs, ImportFails(p) PROVE TypeOK'
    <2>1. late' \subseteq Insert
      BY <1>17, GivesUpType DEF ImportFails, TypeOK
    <2> QED BY <1>17, <2>1 DEF ImportFails, TypeOK, logouts, proc, history
  <1>18. ASSUME NEW p \in Procs, PassEnd(p) PROVE TypeOK'
    BY <1>18 DEF PassEnd, NoPass, Over, TypeOK, stores, logouts, history
  <1>19. ASSUME NEW p \in Procs, Start(p) PROVE TypeOK'
    BY <1>19 DEF Start, TypeOK, stores, logouts, pass, history
  <1>20. ASSUME NEW p \in Procs, Exit(p) PROVE TypeOK'
    <2>1. db' \subseteq Row /\ orphan' \subseteq Tokens
      BY <1>20, InsertedType DEF Exit, TypeOK
    <2>2. late' \subseteq Insert
      BY <1>20 DEF Exit, TypeOK, Insert
    <2>3. wm' \in [Procs -> Int]
      BY <1>20 DEF Exit, TypeOK, None
    <2> QED BY <1>20, <2>1, <2>2, <2>3 DEF Exit, NoPass, Over, TypeOK
  <1>21. ASSUME NEW x \in late, LateInsert(x) PROVE TypeOK'
    <2>1. x.toks \in SUBSET Tokens /\ x.at \in Nat
      BY DEF TypeOK, Insert
    <2>2. db' \subseteq Row
      BY <1>21, <2>1, InsertedType DEF LateInsert, TypeOK
    <2> QED BY <1>21, <2>2 DEF LateInsert, TypeOK, logouts, proc, pass, history
  <1>22. CASE Tick
    BY <1>22 DEF Tick, TypeOK, logouts, proc, pass, history
  <1>23. CASE Wipe
    BY <1>23 DEF Wipe, TypeOK, logouts, proc, pass
  <1>24. ASSUME NEW t \in Tokens, Expire(t) PROVE TypeOK'
    BY <1>24 DEF Expire, TypeOK, logouts, proc, pass, history
  <1>25. CASE UNCHANGED vars
    BY <1>25 DEF TypeOK, vars, stores, logouts, proc, pass, history
  <1> QED
    BY <1>1, <1>2, <1>3, <1>4, <1>5, <1>6, <1>7, <1>8, <1>9, <1>10, <1>11, <1>12, <1>13, <1>14, <1>15, <1>16, <1>17,
       <1>18, <1>19, <1>20, <1>21, <1>22, <1>23, <1>24, <1>25 DEF Next, PassStep, LogoutStep, Environment

-----------------------------------------------------------------------------
(* Time. *)

\* An insert given up is one its caller had opened.
LEMMA GivesUpTime ==
  ASSUME TimeInv, NEW toks, NEW at, at > clock - Overlap, GivesUp(toks, at)
  PROVE  \A x \in late' : x.at > clock - Overlap
  BY DEF TimeInv, GivesUp

LEMMA TimeStep == TypeOK /\ TimeInv /\ [Next]_vars => TimeInv'
  <1> SUFFICES ASSUME TypeOK, TimeInv, [Next]_vars PROVE TimeInv'
    OBVIOUS
  <1> USE ClockAssumption DEF Goto
  <1>1. ASSUME NEW t \in Tokens, LogoutRedis(t) PROVE TimeInv'
    BY <1>1 DEF LogoutRedis, TypeOK, TimeInv, pass
  <1>2. ASSUME NEW t \in Tokens, LogoutPersist(t) PROVE TimeInv'
    BY <1>2 DEF LogoutPersist, Answered, TypeOK, TimeInv, pass
  <1>3. ASSUME NEW t \in Tokens, LogoutPersistFails(t) PROVE TimeInv'
    <2>1. \A x \in late' : x.at > clock - Overlap
      BY <1>3, GivesUpTime DEF LogoutPersistFails, TimeInv
    <2> QED BY <1>3, <2>1 DEF LogoutPersistFails, Answered, TypeOK, TimeInv, proc, pass
  <1>4. ASSUME NEW p \in Procs, Pull(p) PROVE TimeInv'
    BY <1>4 DEF Pull, Persists, Watermark, TypeOK, TimeInv, stores, logouts
  <1>5. ASSUME NEW p \in Procs, FlushFails(p) \/ ImportFails(p) PROVE TimeInv'
    <2>1. \A x \in late' : x.at > clock - Overlap
      BY <1>5, GivesUpTime DEF FlushFails, ImportFails, TimeInv
    <2> QED BY <1>5, <2>1 DEF FlushFails, ImportFails, Over, TypeOK, TimeInv, logouts, proc
  <1>6. ASSUME NEW p \in Procs, Flush(p) \/ Import(p) PROVE TimeInv'
    BY <1>6 DEF Flush, Import, Over, TypeOK, TimeInv, logouts
  <1>7. ASSUME NEW p \in Procs, Scan(p) PROVE TimeInv'
    BY <1>7 DEF Scan, Persists, TypeOK, TimeInv, stores, logouts
  <1>8. ASSUME NEW p \in Procs, SetMarker(p) PROVE TimeInv'
    BY <1>8 DEF SetMarker, Persists, TypeOK, TimeInv, logouts, proc
  <1>9. ASSUME NEW p \in Procs, PassEnd(p) PROVE TimeInv'
    BY <1>9 DEF PassEnd, NoPass, Over, TypeOK, TimeInv, stores, logouts
  <1>10. ASSUME NEW p \in Procs, PassBegin(p) \/ PullFails(p) \/ Rewrite(p) \/ ReadMarker(p) \/ Reseed(p) \/ RedisFails(p)
         PROVE  TimeInv'
    BY <1>10 DEF PassBegin, PullFails, Rewrite, ReadMarker, Reseed, RedisFails, TypeOK, TimeInv, stores, logouts, proc
  <1>11. ASSUME NEW p \in Procs, Exit(p) PROVE TimeInv'
    <2>1. \A x \in late' : x.at > clock - Overlap
      BY <1>11 DEF Exit, TimeInv
    <2>2. \A t \in Tokens : lpc'[t] = "persist" => lat'[t] > clock - Overlap
      BY <1>11 DEF Exit, TimeInv, TypeOK
    <2>3. \A q \in Procs : wm'[q] <= clock - Overlap
      BY <1>11 DEF Exit, TimeInv, TypeOK, None
    <2>4. \A q \in Procs : pp'[q] \in {"flush", "import"} => pat'[q] > clock - Overlap
      BY <1>11 DEF Exit, NoPass, Over, TimeInv, TypeOK
    <2> QED BY <1>11, <2>1, <2>2, <2>3, <2>4 DEF Exit, TimeInv
  <1>12. CASE Tick
    <2>1. \A a \in OpenInserts : a > clock' - Overlap
      <3>1. \A a \in OpenInserts : a \in Nat /\ clock + 1 - a < Overlap
        BY <1>12 DEF Tick, OpenInserts, TypeOK, Insert
      <3> QED BY <1>12, <3>1 DEF Tick, TypeOK
    <2>2. clock' = clock + 1 /\ UNCHANGED <<late, lpc, lat, pp, pat, wm>>
      BY <1>12 DEF Tick, logouts, pass, proc
    <2>3. \A p \in Procs : wm[p] <= clock' - Overlap
      BY <2>2 DEF TimeInv, TypeOK
    <2> QED BY <2>1, <2>2, <2>3 DEF OpenInserts, TimeInv
  <1>13. CASE UNCHANGED <<clock, late, lpc, lat, pp, pat, wm>>
    BY <1>13 DEF TimeInv
  <1>14. ASSUME NEW p \in Procs, NEW t \in Tokens, Logout(p, t) PROVE TimeInv'
    BY <1>14 DEF Logout, TypeOK, TimeInv, stores, pass
  <1>15. ASSUME NEW x \in late, LateInsert(x) PROVE TimeInv'
    BY <1>15 DEF LateInsert, TypeOK, TimeInv, logouts, proc, pass
  <1>16. CASE Wipe \/ (\E t \in Tokens : Expire(t)) \/ (\E p \in Procs : Start(p)) \/ UNCHANGED vars
    BY <1>13, <1>16 DEF Wipe, Expire, Start, vars, stores, logouts, proc, pass
  <1> QED
    BY <1>1, <1>2, <1>3, <1>4, <1>5, <1>6, <1>7, <1>8, <1>9, <1>10, <1>11, <1>12, <1>14, <1>15, <1>16
    DEF Next, PassStep, LogoutStep, Environment

-----------------------------------------------------------------------------
(* The pull. *)

\* A new row is newer than every watermark.
LEMMA DbEffects ==
  ASSUME TypeOK, TimeInv, [Next]_vars
  PROVE  /\ db \subseteq db'
         /\ \A r \in db' \ db : \A p \in Procs : r.at > wm[p]
  <1>1. ASSUME NEW toks, NEW at \in Nat, at > clock - Overlap, db' = Inserted(toks, at)
        PROVE  db \subseteq db' /\ \A r \in db' \ db : \A p \in Procs : r.at > wm[p]
    <2>1. ASSUME NEW p \in Procs PROVE at > wm[p]
      BY <1>1, ClockAssumption DEF TimeInv, TypeOK
    <2>2. \A r \in db' \ db : r.at = at
      BY <1>1 DEF Inserted
    <2> QED BY <1>1, <2>1, <2>2 DEF Inserted
  <1>2. ASSUME NEW t \in Tokens, LogoutPersist(t)
        PROVE  db \subseteq db' /\ \A r \in db' \ db : \A p \in Procs : r.at > wm[p]
    BY <1>1, <1>2 DEF LogoutPersist, TimeInv, TypeOK
  <1>3. ASSUME NEW q \in Procs, Flush(q) \/ Import(q)
        PROVE  db \subseteq db' /\ \A r \in db' \ db : \A p \in Procs : r.at > wm[p]
    BY <1>1, <1>3 DEF Flush, Import, TimeInv, TypeOK
  <1>4. ASSUME NEW q \in Procs, Exit(q)
        PROVE  db \subseteq db' /\ \A r \in db' \ db : \A p \in Procs : r.at > wm[p]
    <2>1. clock \in Nat /\ clock > clock - Overlap
      BY ClockAssumption DEF TypeOK
    <2> QED BY <1>1, <1>4, <2>1 DEF Exit
  <1>5. ASSUME NEW x \in late, LateInsert(x)
        PROVE  db \subseteq db' /\ \A r \in db' \ db : \A p \in Procs : r.at > wm[p]
    <2>1. x.at \in Nat /\ x.at > clock - Overlap
      BY DEF TimeInv, TypeOK, Insert
    <2> QED BY <1>1, <1>5, <2>1 DEF LateInsert
  <1>6. CASE db' = db
    BY <1>6
  <1>7. \/ db' = db
        \/ \E t \in Tokens : LogoutPersist(t)
        \/ \E q \in Procs : Flush(q) \/ Import(q) \/ Exit(q)
        \/ \E x \in late : LateInsert(x)
    BY DEF Next, PassStep, LogoutStep, Environment, Logout, LogoutRedis, LogoutPersistFails, PassBegin, Pull, PullFails,
           FlushFails, Rewrite, ReadMarker, Scan, Reseed, SetMarker, RedisFails, ImportFails, PassEnd, Start, Tick, Wipe,
           Expire, vars, stores
  <1> QED BY <1>2, <1>3, <1>4, <1>5, <1>6, <1>7

\* A mirror loses expired entries only, unless its process is gone.
LEMMA MirrorEffects ==
  ASSUME TypeOK, [Next]_vars, NEW p \in Procs, ~Exit(p)
  PROVE  mirror[p] \ expired \subseteq mirror'[p] /\ expired \subseteq expired'
  <1>1. expired \subseteq expired'
    BY DEF Next, PassStep, LogoutStep, Environment, Logout, LogoutRedis, LogoutPersist, LogoutPersistFails, PassBegin, Pull,
           PullFails, Flush, FlushFails, Rewrite, ReadMarker, Scan, Reseed, SetMarker, RedisFails, Import, ImportFails,
           PassEnd, Start, Exit, LateInsert, Tick, Wipe, Expire, vars, stores
  <1>2. ASSUME NEW q \in Procs, PassBegin(q) \/ Pull(q) \/ Scan(q) PROVE mirror[p] \ expired \subseteq mirror'[p]
    BY <1>2 DEF PassBegin, Pull, Scan, TypeOK, Live
  <1>3. ASSUME NEW q \in Procs, NEW t \in Tokens, Logout(q, t) PROVE mirror[p] \ expired \subseteq mirror'[p]
    BY <1>3 DEF Logout, TypeOK
  <1>4. ASSUME NEW q \in Procs, Exit(q) PROVE mirror[p] \ expired \subseteq mirror'[p]
    BY <1>4 DEF Exit, TypeOK
  <1>5. \/ mirror' = mirror
        \/ \E q \in Procs : PassBegin(q) \/ Pull(q) \/ Scan(q) \/ Exit(q)
        \/ \E q \in Procs, t \in Tokens : Logout(q, t)
    BY DEF Next, PassStep, LogoutStep, Environment, LogoutRedis, LogoutPersist, LogoutPersistFails,
           PullFails, Flush, FlushFails, Rewrite, ReadMarker, Reseed, SetMarker, RedisFails, Import, ImportFails,
           PassEnd, Start, LateInsert, Tick, Wipe, Expire, vars, proc
  <1> QED BY <1>1, <1>2, <1>3, <1>4, <1>5

\* Whatever a step commits, every process knows what its next pull will not read.
LEMMA PullStep ==
  TypeOK /\ TimeInv /\ RowInv /\ PullMissesNothing /\ [Next]_vars => RowInv' /\ PullMissesNothing'
  <1> SUFFICES ASSUME TypeOK, TimeInv, RowInv, PullMissesNothing, [Next]_vars,
                      NEW p \in Procs
               PROVE  /\ \A r \in db' : r.at <= wm'[p] => r.tok \in mirror'[p] \cup expired'
                      /\ due'[p] \cap Live' \subseteq mirror'[p]
    BY DEF RowInv, PullMissesNothing
  <1>1. CASE Exit(p)
    <2>1. wm'[p] = None /\ due'[p] = {}
      BY <1>1 DEF Exit, TypeOK
    <2>2. \A r \in db' : r.at \in Nat
      BY TypeStep DEF TypeOK, Row
    <2> QED BY <2>1, <2>2, ClockAssumption DEF None
  <1>2. CASE ~Exit(p)
    <2>1. mirror[p] \ expired \subseteq mirror'[p] /\ expired \subseteq expired'
      BY <1>2, MirrorEffects
    <2>2. CASE Pull(p)
      <3>1. db' = db /\ expired' = expired /\ due'[p] = Toks(db) /\ mirror'[p] = mirror[p] \cup Toks(Pulled(p))
        BY <2>2 DEF Pull, TypeOK, stores
      <3>2. ASSUME NEW r \in db, r.tok \notin expired PROVE r.tok \in mirror'[p]
        <4>1. CASE r.at <= wm[p]
          BY <3>1, <3>2, <4>1 DEF RowInv
        <4>2. CASE ~(r.at <= wm[p])
          <5>1. r.at > wm[p] /\ r.tok \in Tokens
            BY <4>2 DEF TypeOK, Row
          <5>2. r \in Pulled(p)
            BY <3>2, <5>1 DEF Pulled, Live
          <5> QED BY <3>1, <5>2 DEF Toks
        <4> QED BY <4>1, <4>2
      <3> QED BY <3>1, <3>2 DEF Toks, Live
    <2>3. CASE ~Pull(p)
      <3>1. wm'[p] = wm[p] /\ due'[p] = due[p]
        <4>1. ASSUME NEW q \in Procs, q # p, Pull(q) \/ Exit(q) PROVE wm'[p] = wm[p] /\ due'[p] = due[p]
          BY <4>1 DEF Pull, Exit, TypeOK
        <4>2. UNCHANGED <<wm, due>> \/ \E q \in Procs : Pull(q) \/ Exit(q)
          BY DEF Next, PassStep, LogoutStep, Environment, Logout, LogoutRedis, LogoutPersist, LogoutPersistFails, PassBegin,
                 PullFails, Flush, FlushFails, Rewrite, ReadMarker, Scan, Reseed, SetMarker, RedisFails, Import, ImportFails,
                 PassEnd, Start, LateInsert, Tick, Wipe, Expire, vars, proc, history
        <4> QED BY <1>2, <2>3, <4>1, <4>2
      <3>2. ASSUME NEW r \in db', r.at <= wm'[p] PROVE r.tok \in mirror'[p] \cup expired'
        <4>1. r \in db
          <5>1. r \notin db => r.at > wm[p]
            BY DbEffects
          <5>2. r.at \in Nat /\ wm[p] \in Int
            BY TypeStep DEF TypeOK, Row
          <5> QED BY <3>1, <3>2, <5>1, <5>2
        <4> QED BY <2>1, <3>1, <3>2, <4>1 DEF RowInv
      <3>3. due[p] \cap Live' \subseteq mirror'[p]
        BY <2>1 DEF PullMissesNothing, Live
      <3> QED BY <3>1, <3>2, <3>3
    <2> QED BY <2>2, <2>3
  <1> QED BY <1>1, <1>2

-----------------------------------------------------------------------------
(* The queue. *)

\* An insert leaves a row for each of its tokens.
LEMMA InsertedCovers == ASSUME NEW toks, NEW at, NEW t \in toks PROVE t \in Toks(Inserted(toks, at))
  <1>1. CASE t \in Toks(db)
    BY <1>1 DEF Inserted, Toks
  <1>2. CASE t \notin Toks(db)
    <2>1. [tok |-> t, at |-> at] \in Inserted(toks, at)
      BY <1>2 DEF Inserted
    <2> QED BY <2>1 DEF Toks
  <1> QED BY <1>1, <1>2

\* What leaves a queue is durable or expired, or its process is gone.
LEMMA QueueEffects ==
  ASSUME TypeOK, [Next]_vars, NEW p \in Procs, NEW t \in queue[p]
  PROVE  t \in queue'[p] \cup Toks(db') \cup expired' \/ (Exit(p) /\ t \in orphan')
  <1>1. ASSUME NEW toks, NEW at, db' = Inserted(toks, at), t \in toks PROVE t \in Toks(db')
    <2>1. t \in Toks(Inserted(toks, at))
      BY <1>1, InsertedCovers
    <2> QED BY <1>1, <2>1 DEF Toks
  <1>2. ASSUME NEW u \in Tokens, LogoutPersist(u) PROVE t \in queue'[p] \cup Toks(db')
    <2>1. t # u => t \in queue'[p]
      BY <1>2 DEF LogoutPersist, TypeOK
    <2> QED BY <1>1, <1>2, <2>1 DEF LogoutPersist
  <1>3. ASSUME NEW q \in Procs, Flush(q) \/ Import(q) PROVE t \in queue'[p] \cup Toks(db')
    <2>1. t \in pend[q] \/ t \in queue'[p]
      BY <1>3 DEF Flush, Import, Written, TypeOK
    <2> QED BY <1>1, <1>3, <2>1 DEF Flush, Import
  <1>4. ASSUME NEW q \in Procs, Pull(q) \/ Rewrite(q) PROVE t \in queue'[p] \cup expired'
    BY <1>4 DEF Pull, Rewrite, Live, TypeOK, stores
  <1>5. ASSUME Exit(p) PROVE t \in Toks(db') \cup orphan'
    <2>1. PICK last \in {{}, queue[p] \cap Live} : db' = Inserted(last, clock) /\ orphan' = orphan \cup (queue[p] \ last)
      BY <1>5 DEF Exit
    <2> QED BY <1>1, <2>1
  <1>6. ASSUME NEW q \in Procs, q # p, Exit(q) PROVE t \in queue'[p]
    BY <1>6 DEF Exit, TypeOK
  <1>7. ASSUME NEW u \in Tokens, LogoutRedis(u) PROVE t \in queue'[p]
    BY <1>7 DEF LogoutRedis, TypeOK
  <1>8. ASSUME NEW q \in Procs, Scan(q) PROVE t \in queue'[p]
    BY <1>8 DEF Scan, TypeOK
  <1>9. \/ queue' = queue
        \/ \E u \in Tokens : LogoutRedis(u) \/ LogoutPersist(u)
        \/ \E q \in Procs : Flush(q) \/ Import(q) \/ Pull(q) \/ Rewrite(q) \/ Scan(q) \/ Exit(q)
    BY DEF Next, PassStep, LogoutStep, Environment, Logout, LogoutPersistFails, PassBegin,
           PullFails, FlushFails, ReadMarker, Reseed, SetMarker, RedisFails, ImportFails,
           PassEnd, Start, LateInsert, Tick, Wipe, Expire, vars, proc
  <1> QED BY <1>2, <1>3, <1>4, <1>5, <1>6, <1>7, <1>8, <1>9

\* Expired tokens, rows and orphans stay.
LEMMA Grows ==
  ASSUME TypeOK, TimeInv, [Next]_vars
  PROVE  expired \subseteq expired' /\ Toks(db) \subseteq Toks(db') /\ orphan \subseteq orphan'
  <1>1. expired \subseteq expired' /\ orphan \subseteq orphan'
    BY DEF Next, PassStep, LogoutStep, Environment, Logout, LogoutRedis, LogoutPersist, LogoutPersistFails, PassBegin, Pull,
           PullFails, Flush, FlushFails, Rewrite, ReadMarker, Scan, Reseed, SetMarker, RedisFails, Import, ImportFails,
           PassEnd, Start, Exit, LateInsert, Tick, Wipe, Expire, vars, stores, history
  <1>2. Toks(db) \subseteq Toks(db')
    BY DbEffects DEF Toks
  <1> QED BY <1>1, <1>2

\* How a logout moves on.
LEMMA LogoutEffects ==
  ASSUME TypeOK, [Next]_vars, NEW t \in Tokens
  PROVE  \/ lpc'[t] = lpc[t] /\ lproc'[t] = lproc[t]
         \/ \E p \in Procs : Logout(p, t) /\ lpc'[t] = "redis" /\ lproc'[t] = p
         \/ LogoutRedis(t) /\ lpc[t] = "redis" /\ lpc'[t] = "persist" /\ lproc'[t] = lproc[t]
         \/ LogoutPersist(t) /\ lpc'[t] = "done"
         \/ LogoutPersistFails(t) /\ lpc[t] = "persist" /\ lpc'[t] = "done"
         \/ lpc'[t] = "cut"
  <1>1. ASSUME NEW u \in Tokens, LogoutStep(u), u # t PROVE lpc'[t] = lpc[t] /\ lproc'[t] = lproc[t]
    BY <1>1 DEF LogoutStep, Logout, LogoutRedis, LogoutPersist, LogoutPersistFails, Answered, TypeOK
  <1>2. CASE LogoutStep(t)
    BY <1>2 DEF LogoutStep, Logout, LogoutRedis, LogoutPersist, LogoutPersistFails, Answered, TypeOK
  <1>3. ASSUME NEW p \in Procs, Exit(p) PROVE lpc'[t] = "cut" \/ (lpc'[t] = lpc[t] /\ lproc'[t] = lproc[t])
    BY <1>3 DEF Exit
  <1>4. UNCHANGED <<lpc, lproc>> \/ (\E u \in Tokens : LogoutStep(u)) \/ (\E p \in Procs : Exit(p))
    BY DEF Next, PassStep, Environment, PassBegin, Pull, PullFails, Flush, FlushFails, Rewrite, ReadMarker, Scan, Reseed,
           SetMarker, RedisFails, Import, ImportFails, PassEnd, Start, LateInsert, Tick, Wipe, Expire, vars, logouts
  <1> QED BY <1>1, <1>2, <1>3, <1>4

LEMMA QueueStep ==
  TypeOK /\ TimeInv /\ LogoutInv /\ NothingDropped /\ [Next]_vars => LogoutInv' /\ NothingDropped'
  <1> SUFFICES ASSUME TypeOK, TimeInv, LogoutInv, NothingDropped, [Next]_vars, NEW t \in Tokens
               PROVE  /\ lpc'[t] \in {"redis", "persist"} => lproc'[t] \in Procs
                      /\ lpc'[t] = "persist" => t \in Toks(db') \cup queue'[lproc'[t]] \cup expired'
                      /\ lpc'[t] = "done" => t \in Toks(db') \cup Queued' \cup orphan' \cup expired'
    BY DEF LogoutInv, NothingDropped, Live
  <1>1. expired \subseteq expired' /\ Toks(db) \subseteq Toks(db') /\ orphan \subseteq orphan'
    BY Grows
  <1>2. ASSUME NEW p \in Procs, t \in queue[p] PROVE t \in Toks(db') \cup Queued' \cup orphan' \cup expired'
    BY <1>2, QueueEffects DEF Queued
  <1>3. CASE lpc'[t] = lpc[t] /\ lproc'[t] = lproc[t]
    <2>1. CASE lpc[t] = "done"
      <3>1. t \in Toks(db) \cup Queued \cup orphan \cup expired
        BY <2>1 DEF NothingDropped, Live
      <3> QED BY <1>1, <1>2, <1>3, <2>1, <3>1 DEF Queued
    <2>2. CASE lpc[t] = "persist"
      <3>1. lproc[t] \in Procs /\ t \in Toks(db) \cup queue[lproc[t]] \cup expired
        BY <2>2 DEF LogoutInv
      <3>2. ~Exit(lproc[t])
        BY <1>3, <2>2 DEF Exit
      <3> QED BY <1>1, <1>3, <2>2, <3>1, <3>2, QueueEffects
    <2>3. CASE lpc[t] \notin {"done", "persist"}
      BY <1>3, <2>3 DEF LogoutInv
    <2> QED BY <2>1, <2>2, <2>3
  <1>4. CASE LogoutRedis(t) /\ lpc[t] = "redis" /\ lpc'[t] = "persist" /\ lproc'[t] = lproc[t]
    <2>1. lproc[t] \in Procs
      BY <1>4 DEF LogoutInv
    <2>2. t \in queue'[lproc[t]]
      BY <1>4, <2>1 DEF LogoutRedis, TypeOK
    <2> QED BY <1>4, <2>1, <2>2
  <1>5. CASE LogoutPersist(t) /\ lpc'[t] = "done"
    <2>1. t \in Toks(db')
      <3>1. t \in Toks(Inserted({t}, lat[t]))
        BY InsertedCovers
      <3> QED BY <1>5, <3>1 DEF LogoutPersist, Toks
    <2> QED BY <1>5, <2>1
  <1>6. CASE LogoutPersistFails(t) /\ lpc[t] = "persist" /\ lpc'[t] = "done"
    <2>1. lproc[t] \in Procs /\ t \in Toks(db) \cup queue[lproc[t]] \cup expired
      BY <1>6 DEF LogoutInv
    <2> QED BY <1>1, <1>2, <1>6, <2>1
  <1>7. CASE \E p \in Procs : lpc'[t] = "redis" /\ lproc'[t] = p
    BY <1>7
  <1>8. CASE lpc'[t] = "cut"
    BY <1>8
  <1> QED BY <1>3, <1>4, <1>5, <1>6, <1>7, <1>8, LogoutEffects

-----------------------------------------------------------------------------
(* The theorems. *)

LEMMA InitInv == Init => IndInv
  <1> SUFFICES ASSUME Init PROVE IndInv
    OBVIOUS
  <1> USE ClockAssumption
  <1>1. None \in Int
    BY DEF None
  <1>2. TypeOK
    <2>1. redis \subseteq Tokens /\ orphan \subseteq Tokens
      BY DEF Init
    <2> QED BY <1>1, <2>1 DEF Init, TypeOK
  <1>3. TimeInv
    BY DEF Init, TimeInv, None
  <1>4. RowInv /\ PullMissesNothing
    BY DEF Init, RowInv, PullMissesNothing
  <1>5. LogoutInv /\ NothingDropped
    <2>1. \A t \in Tokens : lpc[t] \in {"done", "live"} /\ (lpc[t] = "done" => t \in orphan)
      BY DEF Init
    <2> QED BY <2>1 DEF LogoutInv, NothingDropped, Live
  <1> QED BY <1>2, <1>3, <1>4, <1>5 DEF IndInv

\* The inductive invariant holds in every reachable state.
LEMMA IndInvHolds == Spec => []IndInv
  <1>1. IndInv /\ [Next]_vars => IndInv'
    BY TypeStep, TimeStep, PullStep, QueueStep DEF IndInv
  <1> QED BY InitInv, <1>1, PTL DEF Spec

\* Whatever fails, every variable of the revocation protocol keeps its shape.
THEOREM TypeCorrect == Spec => []TypeOK
  <1>1. IndInv => TypeOK
    BY DEF IndInv
  <1> QED BY <1>1, IndInvHolds, PTL

(* _pull never misses a row, for any overlap longer than one insert and    *)
(* any order of commits.                                                   *)
THEOREM PullComplete == Spec => []PullMissesNothing
  <1>1. IndInv => PullMissesNothing
    BY DEF IndInv
  <1> QED BY <1>1, IndInvHolds, PTL

(* An answered logout is durable or queued unless its process exited       *)
(* (_persist_or_queue, _flush_unpersisted).                                *)
THEOREM LogoutKept == Spec => []NothingDropped
  <1>1. IndInv => NothingDropped
    BY DEF IndInv
  <1> QED BY <1>1, IndInvHolds, PTL

-----------------------------------------------------------------------------
(***************************************************************************)
(* SessionRevocation implements Denylist, for any number of processes and  *)
(* tokens and any mix of failures.  The invariant the refinement needs is  *)
(* that no place a token can travel through, a mirror, a queue, a pass, a  *)
(* late insert or a store, holds one nobody logged out, and that only a    *)
(* process that is there has a pass.                                       *)
(***************************************************************************)

OnlyEnded ==
    /\ redis \subseteq Ended /\ Toks(db) \subseteq Ended
    /\ \A x \in late : x.toks \subseteq Ended
    /\ \A p \in Procs : mirror[p] \subseteq Ended /\ queue[p] \subseteq Ended
    /\ \A p \in Procs : pend[p] \subseteq Ended /\ seeds[p] \subseteq Ended

\* A pass belongs to a process that is there.
PassesRun == \A p \in Procs : pp[p] # "idle" => p \in Running

RefInv == TypeOK /\ OnlyEnded /\ PassesRun

-----------------------------------------------------------------------------
(* What an insert and a call that gives up leave behind. *)

LEMMA InsertedToks ==
  ASSUME TypeOK, NEW ts \in SUBSET Tokens, NEW at
  PROVE  Toks(Inserted(ts, at)) \subseteq Toks(db) \cup ts /\ db \subseteq Inserted(ts, at)
  <1>1. ASSUME NEW r \in Inserted(ts, at) PROVE r.tok \in Toks(db) \cup ts
    BY <1>1 DEF Toks, Inserted
  <1>2. Toks(Inserted(ts, at)) \subseteq Toks(db) \cup ts
    BY <1>1 DEF Toks
  <1>3. db \subseteq Inserted(ts, at)
    BY DEF Inserted
  <1> QED BY <1>2, <1>3

LEMMA GivesUpLate ==
  ASSUME NEW ts, NEW at, GivesUp(ts, at)
  PROVE  \A x \in late' : x \in late \/ x.toks = ts
  BY DEF GivesUp

LEMMA PulledToks == ASSUME NEW p PROVE Toks(Pulled(p)) \subseteq Toks(db)
  BY DEF Toks, Pulled

\* A step that begins no logout keeps the set, one that does adds its token.
LEMMA EndedGrows == TypeOK /\ [Next]_vars => Ended \subseteq Ended'
  <1> SUFFICES ASSUME TypeOK, [Next]_vars PROVE \A t \in Tokens : lpc[t] # "live" => lpc'[t] # "live"
    BY DEF Ended
  <1>1. CASE UNCHANGED lpc
    BY <1>1
  <1>2. ASSUME NEW p \in Procs, NEW t \in Tokens, Logout(p, t) PROVE \A u \in Tokens : lpc[u] # "live" => lpc'[u] # "live"
    BY <1>2 DEF Logout, TypeOK
  <1>3. ASSUME NEW t \in Tokens, LogoutRedis(t) PROVE \A u \in Tokens : lpc[u] # "live" => lpc'[u] # "live"
    BY <1>3 DEF LogoutRedis, TypeOK
  <1>4. ASSUME NEW t \in Tokens, LogoutPersist(t) \/ LogoutPersistFails(t)
        PROVE  \A u \in Tokens : lpc[u] # "live" => lpc'[u] # "live"
    BY <1>4 DEF LogoutPersist, LogoutPersistFails, Answered, TypeOK
  <1>5. ASSUME NEW p \in Procs, Exit(p) PROVE \A u \in Tokens : lpc[u] # "live" => lpc'[u] # "live"
    BY <1>5 DEF Exit, TypeOK
  <1>6. ASSUME NEW p \in Procs, PassStep(p) PROVE UNCHANGED lpc
    BY <1>6 DEF PassStep, PassBegin, Pull, PullFails, Flush, FlushFails, Rewrite, ReadMarker, Scan, Reseed, SetMarker,
                RedisFails, Import, ImportFails, PassEnd, logouts
  <1>7. ASSUME NEW p \in Procs, Start(p) PROVE UNCHANGED lpc
    BY <1>7 DEF Start, logouts
  <1>8. ASSUME NEW x \in late, LateInsert(x) PROVE UNCHANGED lpc
    BY <1>8 DEF LateInsert, logouts
  <1>9. ASSUME Tick \/ Wipe \/ \E t \in Tokens : Expire(t) PROVE UNCHANGED lpc
    BY <1>9 DEF Tick, Wipe, Expire, logouts
  <1>10. CASE UNCHANGED vars
    BY <1>10 DEF vars, logouts
  <1> QED BY <1>1, <1>2, <1>3, <1>4, <1>5, <1>6, <1>7, <1>8, <1>9, <1>10 DEF Next, LogoutStep, Environment

LEMMA RefInit == Init => RefInv
  <1> SUFFICES ASSUME Init PROVE RefInv
    OBVIOUS
  <1>1. TypeOK
    BY InitInv DEF IndInv
  <1> QED BY <1>1 DEF Init, RefInv, OnlyEnded, PassesRun, Ended, Toks

LEMMA RefStep == RefInv /\ [Next]_vars => OnlyEnded'
  <1> SUFFICES ASSUME TypeOK, OnlyEnded, [Next]_vars PROVE OnlyEnded'
    BY DEF RefInv
  <1>e. Ended \subseteq Ended' /\ Ended \subseteq Tokens
    BY EndedGrows DEF Ended
  <1>1. ASSUME NEW p \in Procs, NEW t \in Tokens, Logout(p, t) PROVE OnlyEnded'
    <2>1. t \in Ended'
      BY <1>1 DEF Logout, Ended, TypeOK
    <2> QED BY <1>1, <1>e, <2>1 DEF Logout, OnlyEnded, TypeOK, stores, pass, Toks
  <1>2. ASSUME NEW t \in Tokens, LogoutRedis(t) PROVE OnlyEnded'
    <2>1. t \in Ended'
      BY <1>2 DEF LogoutRedis, Ended, TypeOK
    <2> QED BY <1>2, <1>e, <2>1 DEF LogoutRedis, OnlyEnded, TypeOK, pass, Toks
  <1>3. ASSUME NEW t \in Tokens, LogoutPersist(t) PROVE OnlyEnded'
    <2>1. t \in Ended
      BY <1>3 DEF LogoutPersist, Ended
    <2>2. Toks(Inserted({t}, lat[t])) \subseteq Toks(db) \cup {t}
      BY InsertedToks
    <2>3. Toks(db)' \subseteq Ended'
      BY <1>3, <1>e, <2>1, <2>2 DEF LogoutPersist, OnlyEnded, Toks
    <2> QED BY <1>3, <1>e, <2>3 DEF LogoutPersist, OnlyEnded, TypeOK, pass
  <1>4. ASSUME NEW t \in Tokens, LogoutPersistFails(t) PROVE OnlyEnded'
    <2>1. t \in Ended
      BY <1>4 DEF LogoutPersistFails, Ended
    <2>2. \A x \in late' : x.toks \subseteq Ended'
      BY <1>4, <1>e, <2>1, GivesUpLate DEF LogoutPersistFails, OnlyEnded
    <2> QED BY <1>4, <1>e, <2>2 DEF LogoutPersistFails, OnlyEnded, proc, pass, Toks
  <1>5. ASSUME NEW p \in Procs, PassBegin(p) PROVE OnlyEnded'
    BY <1>5, <1>e DEF PassBegin, OnlyEnded, TypeOK, stores, Toks
  <1>6. ASSUME NEW p \in Procs, Pull(p) PROVE OnlyEnded'
    <2>1. Toks(Pulled(p)) \subseteq Ended
      BY PulledToks DEF OnlyEnded
    <2>2. Pending(p) \subseteq Ended
      BY DEF Pending, OnlyEnded
    <2>3. \A q \in Procs : pend'[q] \subseteq Ended
      BY <1>6, <2>2 DEF Pull, Persists, OnlyEnded, TypeOK
    <2> QED BY <1>6, <1>e, <2>1, <2>3 DEF Pull, OnlyEnded, TypeOK, stores, Toks
  <1>7. ASSUME NEW p \in Procs, PullFails(p) PROVE OnlyEnded'
    BY <1>7, <1>e DEF PullFails, OnlyEnded, stores, proc, Toks
  <1>8. ASSUME NEW p \in Procs, Flush(p) PROVE OnlyEnded'
    <2>1. Toks(db)' \subseteq Ended'
      BY <1>8, <1>e, InsertedToks DEF Flush, OnlyEnded, TypeOK, Toks
    <2> QED BY <1>8, <1>e, <2>1 DEF Flush, Written, Over, OnlyEnded, TypeOK
  <1>9. ASSUME NEW p \in Procs, FlushFails(p) PROVE OnlyEnded'
    <2>1. \A x \in late' : x.toks \subseteq Ended'
      BY <1>9, <1>e, GivesUpLate DEF FlushFails, OnlyEnded
    <2> QED BY <1>9, <1>e, <2>1 DEF FlushFails, Over, OnlyEnded, TypeOK, proc, Toks
  <1>10. ASSUME NEW p \in Procs, Rewrite(p) PROVE OnlyEnded'
    BY <1>10, <1>e DEF Rewrite, OnlyEnded, TypeOK, Toks
  <1>11. ASSUME NEW p \in Procs, ReadMarker(p) PROVE OnlyEnded'
    BY <1>11, <1>e DEF ReadMarker, OnlyEnded, stores, proc, Toks
  <1>12. ASSUME NEW p \in Procs, Scan(p) PROVE OnlyEnded'
    BY <1>12, <1>e DEF Scan, Persists, OnlyEnded, TypeOK, stores, Toks
  <1>13. ASSUME NEW p \in Procs, Reseed(p) PROVE OnlyEnded'
    BY <1>13, <1>e DEF Reseed, OnlyEnded, TypeOK, proc, Toks
  <1>14. ASSUME NEW p \in Procs, SetMarker(p) PROVE OnlyEnded'
    BY <1>14, <1>e DEF SetMarker, Persists, OnlyEnded, TypeOK, proc, Toks
  <1>15. ASSUME NEW p \in Procs, RedisFails(p) PROVE OnlyEnded'
    BY <1>15, <1>e DEF RedisFails, OnlyEnded, stores, proc, Toks
  <1>16. ASSUME NEW p \in Procs, Import(p) PROVE OnlyEnded'
    <2>1. Toks(db)' \subseteq Ended'
      BY <1>16, <1>e, InsertedToks DEF Import, OnlyEnded, TypeOK, Toks
    <2> QED BY <1>16, <1>e, <2>1 DEF Import, Written, OnlyEnded, TypeOK
  <1>17. ASSUME NEW p \in Procs, ImportFails(p) PROVE OnlyEnded'
    <2>1. \A x \in late' : x.toks \subseteq Ended'
      BY <1>17, <1>e, GivesUpLate DEF ImportFails, OnlyEnded
    <2> QED BY <1>17, <1>e, <2>1 DEF ImportFails, OnlyEnded, proc, Toks
  <1>18. ASSUME NEW p \in Procs, PassEnd(p) PROVE OnlyEnded'
    BY <1>18, <1>e DEF PassEnd, NoPass, Over, OnlyEnded, TypeOK, stores, Toks
  <1>19. ASSUME NEW p \in Procs, Start(p) PROVE OnlyEnded'
    BY <1>19, <1>e DEF Start, OnlyEnded, stores, pass, Toks
  <1>20. ASSUME NEW p \in Procs, Exit(p) PROVE OnlyEnded'
    <2>1. PICK last \in {{}, queue[p] \cap Live} : db' = Inserted(last, clock)
      BY <1>20 DEF Exit
    <2>2. last \in SUBSET Tokens /\ last \subseteq Ended
      BY <1>e DEF OnlyEnded, Live
    <2>3. Toks(db)' \subseteq Ended'
      BY <1>e, <2>1, <2>2, InsertedToks DEF OnlyEnded, Toks
    <2>4. \A x \in late' : x \in late \/ x.toks = pend[p]
      BY <1>20 DEF Exit
    <2>5. \A x \in late' : x.toks \subseteq Ended'
      BY <1>e, <2>4 DEF OnlyEnded
    <2> QED BY <1>20, <1>e, <2>3, <2>5 DEF Exit, NoPass, Over, OnlyEnded, TypeOK
  <1>21. ASSUME NEW x \in late, LateInsert(x) PROVE OnlyEnded'
    <2>1. x.toks \in SUBSET Tokens /\ x.toks \subseteq Ended
      BY DEF OnlyEnded, TypeOK, Insert
    <2>2. Toks(db)' \subseteq Ended'
      BY <1>21, <1>e, <2>1, InsertedToks DEF LateInsert, OnlyEnded, Toks
    <2> QED BY <1>21, <1>e, <2>2 DEF LateInsert, OnlyEnded, proc, pass
  <1>22. ASSUME Tick \/ Wipe \/ \E t \in Tokens : Expire(t) PROVE OnlyEnded'
    BY <1>22, <1>e DEF Tick, Wipe, Expire, OnlyEnded, proc, pass, Toks
  <1>23. CASE UNCHANGED vars
    BY <1>23, <1>e DEF vars, stores, proc, pass, OnlyEnded, Toks
  <1> QED
    BY <1>1, <1>2, <1>3, <1>4, <1>5, <1>6, <1>7, <1>8, <1>9, <1>10, <1>11, <1>12, <1>13, <1>14, <1>15, <1>16, <1>17,
       <1>18, <1>19, <1>20, <1>21, <1>22, <1>23 DEF Next, PassStep, LogoutStep, Environment

LEMMA PassesStep == RefInv /\ [Next]_vars => PassesRun'
  <1> SUFFICES ASSUME TypeOK, PassesRun, [Next]_vars PROVE PassesRun'
    BY DEF RefInv
  <1>1. CASE UNCHANGED <<pp, up>>
    BY <1>1 DEF PassesRun, Running
  <1>2. ASSUME NEW p \in Procs, PassBegin(p) PROVE PassesRun'
    BY <1>2 DEF PassBegin, Goto, PassesRun, Running, TypeOK
  <1>3. ASSUME NEW p \in Procs, pp[p] # "idle", UNCHANGED up, NEW l, Goto(p, l) PROVE PassesRun'
    BY <1>3 DEF Goto, PassesRun, Running, TypeOK
  <1>4. ASSUME NEW p \in Procs, Pull(p) PROVE PassesRun'
    BY <1>3, <1>4 DEF Pull
  <1>5. ASSUME NEW p \in Procs, PullFails(p) \/ Flush(p) \/ FlushFails(p) \/ Rewrite(p) PROVE PassesRun'
    BY <1>3, <1>5 DEF PullFails, Flush, FlushFails, Rewrite, proc
  <1>6. ASSUME NEW p \in Procs, ReadMarker(p) \/ Scan(p) \/ Reseed(p) \/ SetMarker(p) PROVE PassesRun'
    BY <1>3, <1>6 DEF ReadMarker, Scan, Reseed, SetMarker, proc
  <1>7. ASSUME NEW p \in Procs, RedisFails(p) \/ Import(p) \/ ImportFails(p) PROVE PassesRun'
    BY <1>3, <1>7 DEF RedisFails, Import, ImportFails, proc
  <1>8. ASSUME NEW p \in Procs, PassEnd(p) PROVE PassesRun'
    BY <1>8 DEF PassEnd, NoPass, Goto, PassesRun, Running, TypeOK
  <1>9. ASSUME NEW p \in Procs, Start(p) PROVE PassesRun'
    BY <1>9 DEF Start, pass, PassesRun, Running, TypeOK
  <1>10. ASSUME NEW p \in Procs, Exit(p) PROVE PassesRun'
    BY <1>10 DEF Exit, NoPass, Goto, PassesRun, Running, TypeOK
  <1>11. ASSUME NEW t \in Tokens, LogoutStep(t) PROVE UNCHANGED <<pp, up>>
    BY <1>11 DEF LogoutStep, Logout, LogoutRedis, LogoutPersist, LogoutPersistFails, proc, pass
  <1>12. ASSUME NEW x \in late, LateInsert(x) PROVE UNCHANGED <<pp, up>>
    BY <1>12 DEF LateInsert, proc, pass
  <1>13. ASSUME Tick \/ Wipe \/ \E t \in Tokens : Expire(t) PROVE UNCHANGED <<pp, up>>
    BY <1>13 DEF Tick, Wipe, Expire, proc, pass
  <1>14. CASE UNCHANGED vars
    BY <1>1, <1>14 DEF vars, proc, pass
  <1> QED
    BY <1>1, <1>2, <1>4, <1>5, <1>6, <1>7, <1>8, <1>9, <1>10, <1>11, <1>12, <1>13, <1>14 DEF Next, PassStep, Environment

-----------------------------------------------------------------------------
(* Every step is a step of Denylist, or leaves its variables alone. *)

\* A step that adds rows, all of tokens whose logout has begun, makes them durable.
LEMMA Persisting ==
  ASSUME OnlyEnded, OnlyEnded', db \subseteq db', UNCHANGED <<lpc, expired, up, mirror>>
  PROVE  Promised!Next
  <1>1. Ended' = Ended
    BY DEF Ended
  <1>2. Toks(db)' \in SUBSET Ended /\ Toks(db)' = Toks(db) \cup Toks(db)'
    BY <1>1 DEF OnlyEnded, Toks
  <1>3. Promised!Persist(Toks(db)')
    BY <1>1, <1>2 DEF Promised!Persist, Running
  <1> QED BY <1>2, <1>3 DEF Promised!Next

LEMMA PersistingLogout ==
  ASSUME OnlyEnded, OnlyEnded', TypeOK, db \subseteq db', UNCHANGED <<expired, up, mirror>>,
         NEW t \in Tokens, lpc[t] # "live", lpc' = [lpc EXCEPT ![t] = "done"]
  PROVE  Promised!Next
  <1>1. Ended' = Ended
    BY DEF Ended, TypeOK
  <1>2. Toks(db)' \in SUBSET Ended /\ Toks(db)' = Toks(db) \cup Toks(db)'
    BY <1>1 DEF OnlyEnded, Toks
  <1>3. Promised!Persist(Toks(db)')
    BY <1>1, <1>2 DEF Promised!Persist, Running
  <1> QED BY <1>2, <1>3 DEF Promised!Next

LEMMA Simulates == RefInv /\ OnlyEnded' /\ [Next]_vars => [Promised!Next]_(Promised!vars)
  <1> SUFFICES ASSUME TypeOK, OnlyEnded, PassesRun, OnlyEnded', [Next]_vars PROVE Promised!Next \/ UNCHANGED Promised!vars
    BY DEF RefInv
  <1>s. ASSUME UNCHANGED <<lpc, expired, db, up, mirror>> PROVE UNCHANGED Promised!vars
    BY <1>s DEF Promised!vars, Ended, Running, Toks
  <1>l. ASSUME NEW p \in Procs, NEW ts \in SUBSET Ended, mirror' = [mirror EXCEPT ![p] = @ \cup ts],
               pp[p] # "idle", UNCHANGED <<lpc, expired, db, up>>
        PROVE  Promised!Next
    <2>1. Promised!Learn(p, ts)
      BY <1>l DEF Promised!Learn, PassesRun, Ended, Running, Toks
    <2> QED BY <2>1 DEF Promised!Next
  <1>1. ASSUME NEW p \in Procs, NEW t \in Tokens, Logout(p, t) PROVE Promised!Next
    <2>1. Ended' = Ended \cup {t} /\ t \notin Ended
      BY <1>1 DEF Logout, Ended, TypeOK
    <2>2. Promised!Revoke(p, t)
      BY <1>1, <2>1 DEF Logout, Promised!Revoke, stores, Live, Running, Toks
    <2> QED BY <2>2 DEF Promised!Next
  <1>2. ASSUME NEW t \in Tokens, LogoutRedis(t) PROVE UNCHANGED Promised!vars
    <2>1. Ended' = Ended
      BY <1>2 DEF LogoutRedis, Ended, TypeOK
    <2> QED BY <1>2, <2>1 DEF LogoutRedis, Promised!vars, Running, Toks
  <1>3. ASSUME NEW t \in Tokens, LogoutPersist(t) PROVE Promised!Next
    <2>1. db \subseteq Inserted({t}, lat[t])
      BY InsertedToks
    <2> QED BY <1>3, <2>1, PersistingLogout DEF LogoutPersist, Answered
  <1>4. ASSUME NEW t \in Tokens, LogoutPersistFails(t) PROVE Promised!Next
    BY <1>4, PersistingLogout DEF LogoutPersistFails, Answered, proc
  <1>5. ASSUME NEW p \in Procs, PassBegin(p) PROVE Promised!Next
    <2>1. mirror[p] \cap Live = mirror[p] \ expired
      BY DEF Live, TypeOK
    <2>2. Promised!Prune(p)
      BY <1>5, <2>1 DEF PassBegin, Promised!Prune, stores, logouts, Ended, Running, Toks
    <2> QED BY <2>2 DEF Promised!Next
  <1>6. ASSUME NEW p \in Procs, Pull(p) PROVE Promised!Next
    <2>1. Toks(Pulled(p)) \in SUBSET Ended
      BY PulledToks DEF OnlyEnded
    <2> QED BY <1>6, <1>l, <2>1 DEF Pull, stores, logouts
  <1>7. ASSUME NEW p \in Procs, Flush(p) PROVE Promised!Next
    <2>1. db \subseteq Inserted(pend[p], pat[p])
      BY InsertedToks DEF TypeOK
    <2> QED BY <1>7, <2>1, Persisting DEF Flush, logouts
  <1>8. ASSUME NEW p \in Procs, Import(p) PROVE Promised!Next
    <2>1. db \subseteq Inserted(pend[p], pat[p])
      BY InsertedToks DEF TypeOK
    <2> QED BY <1>8, <2>1, Persisting DEF Import, logouts
  <1>9. ASSUME NEW p \in Procs, Scan(p) PROVE Promised!Next
    <2>1. redis \ mirror[p] \in SUBSET Ended
      BY DEF OnlyEnded
    <2> QED BY <1>9, <1>l, <2>1 DEF Scan, stores, logouts
  <1>10. ASSUME NEW p \in Procs,
                PullFails(p) \/ FlushFails(p) \/ Rewrite(p) \/ ReadMarker(p) \/ Reseed(p) \/ SetMarker(p) \/ RedisFails(p)
                \/ ImportFails(p)
         PROVE  UNCHANGED <<lpc, expired, db, up, mirror>>
    BY <1>10 DEF PullFails, FlushFails, Rewrite, ReadMarker, Reseed, SetMarker, RedisFails, ImportFails, stores, logouts,
                 proc
  <1>e. ASSUME NEW p \in Procs, PassEnd(p) PROVE UNCHANGED Promised!vars
    <2>1. Running' = Running
      BY <1>e DEF PassEnd, PassesRun, Running, TypeOK
    <2> QED BY <1>e, <2>1 DEF PassEnd, Promised!vars, stores, logouts, Ended, Toks
  <1>b. ASSUME NEW p \in Procs, Start(p) PROVE Promised!Next
    <2>1. Running' = Running \cup {p}
      BY <1>b DEF Start, Running, TypeOK
    <2>2. Promised!Start(p)
      BY <1>b, <2>1 DEF Start, Promised!Start, stores, logouts, Ended, Toks
    <2> QED BY <2>2 DEF Promised!Next
  <1>11. ASSUME NEW p \in Procs, Exit(p) PROVE Promised!Next
    <2>1. PICK last \in {{}, queue[p] \cap Live} : db' = Inserted(last, clock)
      BY <1>11 DEF Exit
    <2>2. last \in SUBSET Tokens
      BY DEF Live
    <2>3. db \subseteq db'
      BY <2>1, <2>2, InsertedToks
    <2>4. Ended' = Ended
      BY <1>11 DEF Exit, Ended, TypeOK
    <2>5. Toks(db)' \in SUBSET Ended /\ Toks(db)' = Toks(db) \cup Toks(db)'
      BY <2>3, <2>4 DEF OnlyEnded, Toks
    <2>6. p \in Running /\ Running' = Running \ {p}
      BY <1>11 DEF Exit, Running, TypeOK
    <2>7. Promised!Stop(p, Toks(db)')
      BY <1>11, <2>4, <2>5, <2>6 DEF Exit, Promised!Stop
    <2> QED BY <2>5, <2>7 DEF Promised!Next
  <1>12. ASSUME NEW x \in late, LateInsert(x) PROVE Promised!Next
    <2>1. db \subseteq Inserted(x.toks, x.at)
      BY InsertedToks DEF TypeOK, Insert
    <2> QED BY <1>12, <2>1, Persisting DEF LateInsert, logouts, proc
  <1>13. ASSUME Tick \/ Wipe PROVE UNCHANGED <<lpc, expired, db, up, mirror>>
    BY <1>13 DEF Tick, Wipe, logouts, proc
  <1>14. ASSUME NEW t \in Tokens, Expire(t) PROVE Promised!Next
    <2>1. Promised!Expire(t)
      BY <1>14 DEF Expire, Promised!Expire, logouts, proc, Ended, Running, Toks
    <2> QED BY <2>1 DEF Promised!Next
  <1>15. CASE UNCHANGED vars
    BY <1>s, <1>15 DEF vars, stores, logouts, proc
  <1> QED
    BY <1>s, <1>e, <1>b, <1>1, <1>2, <1>3, <1>4, <1>5, <1>6, <1>7, <1>8, <1>9, <1>10, <1>11, <1>12, <1>13, <1>14, <1>15
    DEF Next, PassStep, LogoutStep, Environment

-----------------------------------------------------------------------------
(* Logouts, passes, retries, imports and losses of any store together      *)
(* implement the denylist: session_revocation.py's revoke and sync never   *)
(* make a process refuse a token nobody logged out, nor accept again one   *)
(* it refused, short of the token's expiry or the process's end.           *)
THEOREM DenylistImplemented == Spec => ImplementsDenylist
  <1>1. Init => Promised!Init
    BY DEF Init, Promised!Init, Ended, Running, Toks
  <1>2. RefInv /\ [Next]_vars => RefInv'
    BY TypeStep, RefStep, PassesStep DEF RefInv
  <1>3. RefInv /\ RefInv' /\ [Next]_vars => [Promised!Next]_(Promised!vars)
    BY Simulates DEF RefInv
  <1> QED BY <1>1, <1>2, <1>3, RefInit, PTL DEF Spec, ImplementsDenylist, Promised!Spec

-----------------------------------------------------------------------------
(* The grace period of one process while Redis comes and goes (RevocationGrace), for any number of     *)
(* overlapping checks, any outages and any grace period.                                               *)

CONSTANTS Checks, Grace, ReadTime, MaxTime, MaxOutages
VARIABLES now, reachable, outages, since, degraded, known, check, last, firstFailed, lateAnswer, fresh

RG == INSTANCE RevocationGrace WITH up <- reachable, failed <- firstFailed, late <- lateAnswer

Readings == [at : {"reading"}, token : RG!Tokens, began : Int, sent : BOOLEAN, hit : BOOLEAN]
Answers == [token : RG!Tokens, revoked : BOOLEAN, at : Int]

\* Times are numbers that have passed; requests and answers have their types.
GraceTypes ==
    /\ now \in Int /\ since \in Int /\ degraded \in Int /\ firstFailed \in Int
    /\ since <= now /\ degraded <= now /\ firstFailed <= now /\ now >= 0
    /\ check \in [Checks -> {RG!Idle} \cup Readings]
    /\ last \in {RG!NoAnswer} \cup Answers
    /\ last \in Answers => last.at <= now

\* The clock of an outage is running once a check has failed in it, and since no later; a clock that is
\* running after an answered check is of this outage; no session was refused since that answer.
ClockInv ==
    /\ ~reachable /\ firstFailed # -1 /\ ~lateAnswer => degraded # -1 /\ degraded <= firstFailed
    /\ fresh => degraded = -1 \/ (~reachable /\ degraded >= since)
    /\ reachable /\ fresh => ~RG!GivenNow("in", TRUE)

GraceInv == GraceTypes /\ reachable \in BOOLEAN /\ ClockInv /\ RG!SustainedIsRefused /\ RG!RecentBlipsAreRidden

\* The first state: nothing has failed and nothing was answered.
LEMMA GraceInit == ASSUME Grace \in Nat PROVE RG!Init => GraceInv
<1> SUFFICES ASSUME Grace \in Nat, RG!Init PROVE GraceInv
  OBVIOUS
<1>1. last = RG!NoAnswer /\ last \notin Answers /\ last.token \notin RG!Tokens
  BY DEF RG!Init, RG!NoAnswer, Answers, RG!Tokens
<1>2. check \in [Checks -> {RG!Idle} \cup Readings]
  BY DEF RG!Init
<1>3. GraceTypes
  BY <1>1, <1>2 DEF RG!Init, GraceTypes
<1>4. ClockInv /\ RG!SustainedIsRefused /\ RG!RecentBlipsAreRidden
  BY <1>1 DEF RG!Init, ClockInv, RG!SustainedIsRefused, RG!RecentBlipsAreRidden, RG!GivenNow, RG!Tokens
<1>5. reachable \in BOOLEAN
  BY Zenon DEF RG!Init
<1> QED BY <1>3, <1>4, <1>5, Zenon DEF GraceInv

\* One step per action; those of the outage touch the clock, those of the checks the answer.
LEMMA GraceStep == ASSUME Grace \in Nat PROVE GraceInv /\ [RG!Next]_(RG!vars) => GraceInv'
<1> SUFFICES ASSUME Grace \in Nat, GraceInv, [RG!Next]_(RG!vars) PROVE GraceInv'
  OBVIOUS
<1> DEFINE Kept == /\ UNCHANGED <<now, reachable, outages, since, degraded, known, firstFailed, lateAnswer, fresh>>
<1>0. GraceTypes /\ reachable \in BOOLEAN /\ ClockInv /\ RG!SustainedIsRefused /\ RG!RecentBlipsAreRidden
  BY DEF GraceInv
<1>f. (reachable' = reachable \/ reachable' = TRUE \/ reachable' = FALSE) => reachable' \in BOOLEAN
  BY <1>0, Zenon
<1> USE DEF RG!SustainedIsRefused, RG!RecentBlipsAreRidden, RG!GivenNow
<1>1. ASSUME NEW c \in Checks, RG!Answered(c) PROVE GraceInv'
  <2>1. check[c] \in Readings /\ check[c].token \in {"in", "out"}
    BY <1>0, <1>1 DEF GraceTypes, RG!Answered, RG!Reading, RG!Idle, Readings, RG!Tokens
  <2>2. /\ last' = [token |-> check[c].token, revoked |-> check[c].token = "out", at |-> now]
        /\ check' = [check EXCEPT ![c] = RG!Idle] /\ degraded' = -1
        /\ lateAnswer' = (lateAnswer \/ firstFailed # -1) /\ fresh' = (fresh \/ reachable)
        /\ UNCHANGED <<now, reachable, outages, since, known, firstFailed>>
    BY <1>1 DEF RG!Answered, RG!Give, RG!Cleared
  <2>3. last' \in Answers /\ ~(last'.token = "in" /\ last'.revoked = TRUE) /\ ~(last'.token = "out" /\ last'.revoked = FALSE)
    BY <1>0, <2>1, <2>2 DEF Answers, RG!Tokens, GraceTypes
  <2>4. GraceTypes'
    BY <1>0, <2>2, <2>3 DEF GraceTypes
  <2>5. ClockInv' /\ RG!SustainedIsRefused' /\ RG!RecentBlipsAreRidden'
    BY <1>0, <2>2, <2>3 DEF ClockInv
  <2> QED BY <1>f, <2>2, <2>4, <2>5 DEF GraceInv
<1>2. ASSUME NEW c \in Checks, RG!ReadFails(c) PROVE GraceInv'
  <2>1. check[c] \in Readings /\ check[c].token \in {"in", "out"}
    BY <1>0, <1>2 DEF GraceTypes, RG!ReadFails, RG!Reading, RG!Idle, Readings, RG!Tokens
  <2>2. /\ last' = [token |-> check[c].token, revoked |-> now - RG!DegradedSince > Grace, at |-> now]
        /\ check' = [check EXCEPT ![c] = RG!Idle] /\ degraded' = RG!DegradedSince
        /\ firstFailed' = IF firstFailed = -1 /\ ~reachable THEN now ELSE firstFailed
        /\ fresh' = (fresh /\ ~reachable)
        /\ UNCHANGED <<now, reachable, outages, since, known, lateAnswer>>
    BY <1>2 DEF RG!ReadFails, RG!Give, RG!FailClosed
  <2>3. /\ last' \in Answers /\ last'.at = now
        /\ last'.revoked = TRUE <=> now - RG!DegradedSince > Grace
        /\ last'.revoked = FALSE <=> ~(now - RG!DegradedSince > Grace)
    <3> DEFINE closed == now - RG!DegradedSince > Grace
    <3>1. closed \in BOOLEAN /\ now \in Int
      BY <1>0 DEF GraceTypes
    <3>2. last' = [token |-> check[c].token, revoked |-> closed, at |-> now]
      BY <2>2
    <3> HIDE DEF closed
    <3>3. last' \in Answers /\ last'.at = now /\ last'.revoked = closed
      BY <2>1, <3>1, <3>2 DEF Answers, RG!Tokens
    <3> QED BY <3>1, <3>3 DEF closed
  <2>4. RG!DegradedSince \in Int /\ RG!DegradedSince <= now /\ (RG!DegradedSince = IF degraded = -1 THEN now ELSE degraded)
    BY <1>0 DEF GraceTypes, RG!DegradedSince
  <2>5. GraceTypes'
    BY <1>0, <2>2, <2>3, <2>4 DEF GraceTypes
  <2>6. ClockInv'
    BY <1>0, <2>2, <2>3, <2>4 DEF GraceTypes, ClockInv
  <2>7. RG!SustainedIsRefused' /\ RG!RecentBlipsAreRidden'
    BY <1>0, <2>2, <2>3, <2>4 DEF GraceTypes, ClockInv
  <2> QED BY <1>f, <2>2, <2>5, <2>6, <2>7 DEF GraceInv
<1>3. ASSUME NEW c \in Checks, NEW t \in RG!Tokens, RG!IsRevoked(c, t) PROVE GraceInv'
  <2>1. Kept
    BY <1>3 DEF RG!IsRevoked
  <2>2. CASE RG!InMirror(t)
    <3>1. last' = [token |-> "out", revoked |-> TRUE, at |-> now] /\ check' = check
      BY <1>3, <2>2 DEF RG!IsRevoked, RG!InMirror
    <3>2. last' \in Answers /\ last'.token = "out" /\ last'.revoked = TRUE /\ last'.at = now
      BY <1>0, <3>1 DEF Answers, RG!Tokens, GraceTypes
    <3>3. GraceTypes'
      BY <1>0, <2>1, <3>1, <3>2 DEF GraceTypes
    <3>4. ClockInv' /\ RG!SustainedIsRefused' /\ RG!RecentBlipsAreRidden'
      BY <1>0, <2>1, <3>2 DEF ClockInv
    <3> QED BY <1>f, <2>1, <3>3, <3>4 DEF GraceInv
  <2>3. CASE ~RG!InMirror(t)
    <3>1. /\ last' = last
          /\ check' = [check EXCEPT ![c] = [at |-> "reading", token |-> t, began |-> now, sent |-> reachable, hit |-> ~reachable]]
      BY <1>3, <2>3 DEF RG!IsRevoked
    <3>2. check' \in [Checks -> {RG!Idle} \cup Readings]
      BY <1>0, <3>1 DEF Readings, GraceTypes
    <3>3. GraceTypes'
      BY <1>0, <2>1, <3>1, <3>2 DEF GraceTypes
    <3>4. ClockInv' /\ RG!SustainedIsRefused' /\ RG!RecentBlipsAreRidden'
      BY <1>0, <2>1, <3>1 DEF ClockInv
    <3> QED BY <1>f, <2>1, <3>3, <3>4 DEF GraceInv
  <2> QED BY <2>2, <2>3
<1>4. CASE RG!Pull
  <2>1. GraceTypes'
    BY <1>0, <1>4 DEF RG!Pull, GraceTypes
  <2>2. ClockInv' /\ RG!SustainedIsRefused' /\ RG!RecentBlipsAreRidden'
    BY <1>0, <1>4 DEF RG!Pull, ClockInv
  <2> QED BY <1>f, <1>4, <2>1, <2>2 DEF GraceInv, RG!Pull
<1>5. CASE RG!GoDown
  <2>1. ASSUME NEW c \in Checks PROVE check'[c] \in {RG!Idle} \cup Readings
    BY <1>0, <1>5 DEF RG!GoDown, RG!Reading, RG!Idle, Readings, GraceTypes
  <2>2. check' \in [Checks -> {RG!Idle} \cup Readings]
    BY <1>5, <2>1 DEF RG!GoDown
  <2>3. GraceTypes'
    BY <1>0, <1>5, <2>2 DEF RG!GoDown, GraceTypes
  <2>4. ClockInv' /\ RG!SustainedIsRefused' /\ RG!RecentBlipsAreRidden'
    BY <1>0, <1>5 DEF RG!GoDown, ClockInv
  <2> QED BY <1>f, <1>5, <2>3, <2>4 DEF GraceInv, RG!GoDown
<1>6. CASE RG!ComeUp
  <2>1. GraceTypes'
    BY <1>0, <1>6 DEF RG!ComeUp, GraceTypes
  <2>2. ClockInv' /\ RG!SustainedIsRefused' /\ RG!RecentBlipsAreRidden'
    BY <1>0, <1>6 DEF RG!ComeUp, ClockInv
  <2> QED BY <1>f, <1>6, <2>1, <2>2 DEF GraceInv, RG!ComeUp
<1>7. CASE RG!Tick
  <2>1. now' = now + 1 /\ UNCHANGED <<reachable, outages, since, degraded, known, check, last, firstFailed, lateAnswer, fresh>>
    BY <1>7 DEF RG!Tick
  <2>2. last \in Answers => last.at # now'
    BY <1>0, <2>1 DEF GraceTypes, Answers
  <2>3. last.token \in {"in", "out"} => last \in Answers
    BY <1>0 DEF RG!NoAnswer, GraceTypes
  <2>4. GraceTypes'
    BY <1>0, <2>1 DEF GraceTypes, Answers
  <2>5. ClockInv'
    BY <1>0, <2>1, <2>2, <2>3 DEF ClockInv
  <2>6. RG!SustainedIsRefused' /\ RG!RecentBlipsAreRidden'
    BY <2>1, <2>2, <2>3
  <2> QED BY <1>f, <2>1, <2>4, <2>5, <2>6 DEF GraceInv
<1>8. CASE UNCHANGED RG!vars
  <2>1. Kept /\ check' = check /\ last' = last
    BY <1>8 DEF RG!vars
  <2>2. GraceTypes'
    BY <1>0, <2>1 DEF GraceTypes
  <2>3. ClockInv' /\ RG!SustainedIsRefused' /\ RG!RecentBlipsAreRidden'
    BY <1>0, <2>1 DEF ClockInv
  <2> QED BY <1>f, <2>1, <2>2, <2>3 DEF GraceInv
<1> QED
  BY <1>1, <1>2, <1>3, <1>4, <1>5, <1>6, <1>7, <1>8 DEF RG!Next

\* In an outage a logged-out token is let through for at most the grace period after the first check that
\* failed in it, and a session nobody ended is refused only when the outage has outlasted the grace
\* period and an earlier one was answered for (is_revoked, session_revocation.py): for any number of
\* overlapping checks and any grace period.
THEOREM OutagesBounded ==
    ASSUME Grace \in Nat PROVE RG!Spec => [](RG!SustainedIsRefused /\ RG!RecentBlipsAreRidden)
<1>1. GraceInv => RG!SustainedIsRefused /\ RG!RecentBlipsAreRidden
  BY DEF GraceInv
<1> QED BY <1>1, GraceInit, GraceStep, PTL DEF RG!Spec

-----------------------------------------------------------------------------
(* Logins, and the counters of their windows.                              *)
CONSTANTS Visitors, Sources, HttpLimit, MaxAttempts, Multiplier, MaxLogins, MaxFaults
VARIABLES counts, mortal, login, wrong, ever, stuck, logins, blips

LW == INSTANCE LoginWindows WITH Callers <- Visitors, count <- counts, faults <- blips

LoginConstants == IsFiniteSet(Visitors) /\ Visitors # {} /\ MaxAttempts \in Nat \ {0}

Attempt == [pc : LW!Pcs, from : Sources, right : BOOLEAN]

LoginTypes ==
    /\ counts \in [LW!Keys -> Nat] /\ blips \in Nat
    /\ wrong \in [Sources -> Nat] /\ ever \in [Sources -> Nat]
    /\ login \in [Visitors -> {LW!Idle} \cup Attempt]

\* The attempts of a source that its lock has let through and that have not tried their password
\* yet, and those whose wrong password has not been counted yet.
Passed(s) == {c \in Visitors : login[c].pc \in {"userLock", "verify"} /\ login[c].from = s}
Uncounted(s) == {c \in Visitors : login[c].pc = "ip" /\ login[c].from = s}

Bounds(s) ==
    /\ wrong[s] <= counts[LW!Ip(s)] + Cardinality(Uncounted(s)) + blips
    /\ wrong[s] + Cardinality(Passed(s)) <= MaxAttempts + (Cardinality(Visitors) - 1) + blips
    /\ counts[LW!Ip(s)] + Cardinality(Uncounted(s)) <= ever[s]

\* Attempt c is about to set the expiry of counter k.
Expiring(c, k) ==
    \/ login[c].pc = "httpExpire" /\ k = LW!Http(login[c].from)
    \/ login[c].pc = "ipExpire" /\ k = LW!Ip(login[c].from)
    \/ login[c].pc = "userExpire" /\ k = LW!User
EndInv == \A k \in LW!Keys : counts[k] > 0 => k \in mortal \/ k \in stuck \/ \E c \in Visitors : Expiring(c, k)

LoginInv == LoginTypes /\ EndInv /\ \A s \in Sources : Bounds(s)

-----------------------------------------------------------------------------
\* The counters of different sources, and of the user, are different counters.
LEMMA KeysApart ==
    /\ \A s \in Sources : LW!Ip(s) \in LW!Keys /\ LW!Http(s) \in LW!Keys
    /\ LW!User \in LW!Keys
    /\ \A s, t \in Sources : LW!Ip(s) # LW!Http(t) /\ (LW!Ip(s) = LW!Ip(t) => s = t)
    /\ \A s \in Sources : LW!Ip(s) # LW!User
  BY DEF LW!Keys, LW!Ip, LW!Http, LW!User

\* The instance counts as this module does.
LEMMA SameCount == ASSUME NEW S PROVE LW!Cardinality(S) = Cardinality(S)
  BY Zenon DEF LW!Cardinality, Cardinality

\* There are finitely many attempts.
LEMMA SetsFinite ==
    ASSUME LoginConstants, NEW s
    PROVE  /\ IsFiniteSet(Passed(s)) /\ IsFiniteSet(Uncounted(s))
           /\ Cardinality(Passed(s)) \in Nat /\ Cardinality(Uncounted(s)) \in Nat /\ Cardinality(Visitors) \in Nat
           /\ Cardinality(Visitors) >= 1
<1>1. Passed(s) \subseteq Visitors /\ Uncounted(s) \subseteq Visitors
  BY DEF Passed, Uncounted
<1>2. IsFiniteSet(Passed(s)) /\ IsFiniteSet(Uncounted(s))
  BY <1>1, FS_Subset DEF LoginConstants
<1>3. Cardinality(Visitors) # 0
  BY FS_EmptySet DEF LoginConstants
<1> QED BY <1>2, <1>3, FS_CardinalityType DEF LoginConstants

\* A source's attempts that passed, with those that are not counted, are no more than there are.
LEMMA SetsApart ==
    ASSUME LoginConstants, NEW s
    PROVE  Cardinality(Passed(s)) + Cardinality(Uncounted(s)) <= Cardinality(Visitors)
<1>1. Passed(s) \cup Uncounted(s) \subseteq Visitors /\ Passed(s) \cap Uncounted(s) = {}
  BY DEF Passed, Uncounted
<1>2. Cardinality(Passed(s) \cup Uncounted(s)) <= Cardinality(Visitors)
  BY <1>1, FS_Subset DEF LoginConstants
<1>3. Cardinality(Passed(s) \cup Uncounted(s)) = Cardinality(Passed(s)) + Cardinality(Uncounted(s)) - Cardinality(Passed(s) \cap Uncounted(s))
  BY SetsFinite, FS_Union
<1>4. Cardinality(Passed(s) \cap Uncounted(s)) = 0
  BY <1>1, FS_EmptySet
<1> QED BY <1>2, <1>3, <1>4, SetsFinite

\* Only attempt c changes, and becomes x.
Turned(c, x) == login' = [d \in Visitors |-> IF d = c THEN x ELSE login[d]]

\* What To does to an attempt.
LEMMA StepsTo ==
    ASSUME LoginTypes, NEW c \in Visitors, NEW pc, LW!At(c, pc), NEW next \in LW!Pcs, LW!To(c, next)
    PROVE  login[c].pc = pc /\ login[c].from \in Sources /\ \E x \in Attempt : Turned(c, x) /\ x.pc = next /\ x.from = login[c].from
<1>1. login[c] \in Attempt /\ login[c].pc = pc
  BY DEF LoginTypes, LW!At
<1> DEFINE x == [login[c] EXCEPT !.pc = next]
<1>2. x \in Attempt /\ x.pc = next /\ x.from = login[c].from
  BY <1>1 DEF Attempt
<1>3. Turned(c, x)
  BY DEF LW!To, Turned, LoginTypes
<1> QED BY <1>1, <1>2, <1>3 DEF Attempt

\* What Ends does to an attempt.
LEMMA EndsHere ==
    ASSUME LoginTypes, NEW c \in Visitors, NEW pc, LW!At(c, pc), LW!Ends(c)
    PROVE  login[c].pc = pc /\ login[c].from \in Sources /\ Turned(c, LW!Idle)
<1>1. login[c] \in Attempt /\ login[c].pc = pc
  BY DEF LoginTypes, LW!At
<1> QED BY <1>1 DEF LW!Ends, Turned, LoginTypes, Attempt

\* What becomes of the two sets of a source.
LEMMA SetsTurned ==
    ASSUME LoginTypes, NEW c \in Visitors, NEW x \in {LW!Idle} \cup Attempt, Turned(c, x), NEW s
    PROVE  /\ Passed(s)' = IF x.pc \in {"userLock", "verify"} /\ x.from = s THEN Passed(s) \cup {c} ELSE Passed(s) \ {c}
           /\ Uncounted(s)' = IF x.pc = "ip" /\ x.from = s THEN Uncounted(s) \cup {c} ELSE Uncounted(s) \ {c}
           /\ login' \in [Visitors -> {LW!Idle} \cup Attempt]
  BY DEF LoginTypes, Turned, Passed, Uncounted

\* A finite set loses at most one element.
LEMMA Loses ==
    ASSUME NEW S, IsFiniteSet(S), NEW c
    PROVE  /\ Cardinality(S \ {c}) \in Nat /\ Cardinality(S \ {c}) <= Cardinality(S)
           /\ c \in S => Cardinality(S \ {c}) = Cardinality(S) - 1
  BY FS_RemoveElement, FS_CardinalityType, FS_Subset

\* A finite set gains at most one element.
LEMMA Gains ==
    ASSUME NEW S, IsFiniteSet(S), NEW c
    PROVE  Cardinality(S \cup {c}) \in Nat /\ Cardinality(S \cup {c}) <= Cardinality(S) + 1
<1>1. IsFiniteSet(S \cup {c}) /\ (Cardinality(S \cup {c}) = Cardinality(S) \/ Cardinality(S \cup {c}) = Cardinality(S) + 1)
  BY FS_AddElement
<1>2. Cardinality(S \cup {c}) \in Nat /\ Cardinality(S) \in Nat
  BY <1>1, FS_CardinalityType
<1> QED BY <1>1, <1>2

\* Nothing that counts happens to a source.
LEMMA Quiet ==
    ASSUME LoginConstants, LoginTypes, LoginTypes', NEW s \in Sources, Bounds(s),
           Passed(s)' \subseteq Passed(s), Uncounted(s)' = Uncounted(s),
           wrong'[s] = wrong[s], ever'[s] = ever[s], counts'[LW!Ip(s)] = counts[LW!Ip(s)], blips' >= blips
    PROVE  Bounds(s)'
<1>1. Cardinality(Passed(s)') <= Cardinality(Passed(s)) /\ Cardinality(Passed(s)') \in Nat
  BY SetsFinite, FS_Subset, FS_CardinalityType
<1>2. LW!Ip(s) \in LW!Keys
  BY KeysApart
<1> QED BY <1>1, <1>2, SetsFinite DEF Bounds, LoginTypes, LoginConstants

\* Attempts go on between the steps that count.
LEMMA Moves ==
    ASSUME LoginConstants, LoginInv, LoginTypes', NEW c \in Visitors, NEW x \in {LW!Idle} \cup Attempt, Turned(c, x),
           login[c].pc # "ip", x.pc # "ip",
           x.pc \in {"userLock", "verify"} => login[c].pc \in {"userLock", "verify"} /\ x.from = login[c].from,
           UNCHANGED <<wrong, ever>>, \A s \in Sources : counts'[LW!Ip(s)] = counts[LW!Ip(s)], blips' >= blips
    PROVE  \A s \in Sources : Bounds(s)'
<1> SUFFICES ASSUME NEW s \in Sources PROVE Bounds(s)'
  OBVIOUS
<1>1. c \notin Uncounted(s)
  BY DEF Uncounted
<1>2. x.pc \in {"userLock", "verify"} /\ x.from = s => c \in Passed(s)
  BY DEF Passed
<1>3. Passed(s)' \subseteq Passed(s) /\ Uncounted(s)' = Uncounted(s)
  <2>1. LoginTypes
    BY DEF LoginInv
  <2>2. /\ Passed(s)' = IF x.pc \in {"userLock", "verify"} /\ x.from = s THEN Passed(s) \cup {c} ELSE Passed(s) \ {c}
        /\ Uncounted(s)' = IF x.pc = "ip" /\ x.from = s THEN Uncounted(s) \cup {c} ELSE Uncounted(s) \ {c}
    BY <2>1, SetsTurned
  <2> QED BY <1>1, <1>2, <2>2
<1>4. LoginTypes /\ Bounds(s)
  BY DEF LoginInv
<1> QED BY <1>3, <1>4, Quiet

\* Attempt c passes the lock of its source: the counter is low enough, or Redis does not answer.
LEMMA Passes ==
    ASSUME LoginConstants, LoginInv, LoginTypes', NEW c \in Visitors, NEW x \in Attempt, Turned(c, x),
           login[c].pc = "ipLock", x.pc = "userLock", x.from = login[c].from, UNCHANGED <<counts, wrong, ever>>,
           \/ ~LW!Locked(LW!Ip(login[c].from), MaxAttempts) /\ blips' = blips
           \/ blips' = blips + 1
    PROVE  \A s \in Sources : Bounds(s)'
<1> SUFFICES ASSUME NEW s \in Sources PROVE Bounds(s)'
  OBVIOUS
<1>0. LoginTypes /\ Bounds(s) /\ LW!Ip(s) \in LW!Keys /\ blips' >= blips
  BY KeysApart DEF LoginInv, LoginTypes
<1>1. c \notin Passed(s) /\ c \notin Uncounted(s)
  BY DEF Passed, Uncounted
<1>2. Uncounted(s)' = Uncounted(s)
  BY <1>0, <1>1, SetsTurned
<1>3. CASE x.from # s
  <2>1. Passed(s)' = Passed(s)
    BY <1>0, <1>1, <1>3, SetsTurned
  <2> QED BY <1>0, <1>2, <2>1, Quiet
<1>4. CASE x.from = s
  <2>1. Passed(s)' = Passed(s) \cup {c}
    BY <1>0, <1>4, SetsTurned
  <2>2. /\ Cardinality(Passed(s)') \in Nat /\ Cardinality(Passed(s)') <= Cardinality(Passed(s)) + 1
        /\ Cardinality(Passed(s)') + Cardinality(Uncounted(s)) <= Cardinality(Visitors)
    <3>1. LoginConstants'
      BY DEF LoginConstants
    <3>2. Passed(s)' \cup Uncounted(s) \subseteq Visitors /\ Passed(s)' \cap Uncounted(s) = {}
      BY <1>1, <2>1 DEF Passed, Uncounted
    <3>3. IsFiniteSet(Passed(s)')
      BY <2>1, SetsFinite, FS_AddElement
    <3>4. Cardinality(Passed(s)' \cup Uncounted(s)) <= Cardinality(Visitors)
      BY <3>2, FS_Subset DEF LoginConstants
    <3>5. Cardinality(Passed(s)' \cup Uncounted(s)) = Cardinality(Passed(s)') + Cardinality(Uncounted(s)) - Cardinality(Passed(s)' \cap Uncounted(s))
      BY <3>3, SetsFinite, FS_Union
    <3>6. Cardinality(Passed(s)' \cap Uncounted(s)) = 0
      BY <3>2, FS_EmptySet
    <3>7. Cardinality(Passed(s)') \in Nat
      BY <3>3, FS_CardinalityType
    <3>8. Cardinality(Passed(s)') <= Cardinality(Passed(s)) + 1
      BY <2>1, Gains, SetsFinite
    <3> QED BY <3>4, <3>5, <3>6, <3>7, <3>8, SetsFinite
  <2>3. (counts[LW!Ip(s)] <= MaxAttempts - 1 /\ blips' = blips) \/ blips' = blips + 1
    BY <1>0, <1>4 DEF LW!Locked, LoginTypes, LoginConstants
  <2> QED BY <1>0, <1>2, <2>2, <2>3, SetsFinite DEF Bounds, LoginTypes, LoginConstants
<1> QED BY <1>3, <1>4

\* A wrong password is tried.
LEMMA Guesses ==
    ASSUME LoginConstants, LoginInv, LoginTypes', NEW c \in Visitors, NEW x \in Attempt, Turned(c, x),
           login[c].pc = "verify", x.pc = "ip", x.from = login[c].from, UNCHANGED <<counts, blips>>,
           wrong' = [wrong EXCEPT ![x.from] = @ + 1], ever' = [ever EXCEPT ![x.from] = @ + 1]
    PROVE  \A s \in Sources : Bounds(s)'
<1> SUFFICES ASSUME NEW s \in Sources PROVE Bounds(s)'
  OBVIOUS
<1>0. LoginTypes /\ Bounds(s) /\ LW!Ip(s) \in LW!Keys /\ x.from \in Sources /\ blips' >= blips
  BY KeysApart DEF LoginInv, LoginTypes, Attempt
<1>1. c \notin Uncounted(s) /\ Passed(s)' = Passed(s) \ {c}
  BY <1>0, SetsTurned DEF Uncounted
<1>2. CASE x.from # s
  <2>1. Uncounted(s)' = Uncounted(s) /\ Passed(s)' \subseteq Passed(s)
    BY <1>0, <1>1, <1>2, SetsTurned
  <2>2. wrong'[s] = wrong[s] /\ ever'[s] = ever[s]
    BY <1>0, <1>2 DEF LoginTypes
  <2> QED BY <1>0, <2>1, <2>2, Quiet
<1>3. CASE x.from = s
  <2>1. c \in Passed(s) /\ Uncounted(s)' = Uncounted(s) \cup {c}
    BY <1>0, <1>3, SetsTurned DEF Passed
  <2>2. Cardinality(Passed(s)') = Cardinality(Passed(s)) - 1
    BY <1>1, <2>1, Loses, SetsFinite
  <2>3. Cardinality(Uncounted(s)') = Cardinality(Uncounted(s)) + 1
    BY <1>1, <2>1, SetsFinite, FS_AddElement
  <2>4. wrong'[s] = wrong[s] + 1 /\ ever'[s] = ever[s] + 1
    BY <1>0, <1>3 DEF LoginTypes
  <2> QED BY <1>0, <2>2, <2>3, <2>4, SetsFinite DEF Bounds, LoginTypes, LoginConstants
<1> QED BY <1>2, <1>3

\* A wrong password is counted, or Redis does not count it, or does and does not answer.
LEMMA Counts ==
    ASSUME LoginConstants, LoginInv, LoginTypes', NEW c \in Visitors, NEW x \in Attempt, Turned(c, x),
           login[c].pc = "ip", login[c].from \in Sources, x.pc \in {"user", "ipExpire"}, UNCHANGED <<wrong, ever>>,
           \/ counts' = [counts EXCEPT ![LW!Ip(login[c].from)] = @ + 1] /\ blips' \in {blips, blips + 1}
           \/ counts' = counts /\ blips' = blips + 1
    PROVE  \A s \in Sources : Bounds(s)'
<1> SUFFICES ASSUME NEW s \in Sources PROVE Bounds(s)'
  OBVIOUS
<1>0. LoginTypes /\ Bounds(s) /\ LW!Ip(s) \in LW!Keys /\ LW!Ip(login[c].from) \in LW!Keys /\ blips' >= blips
  BY KeysApart DEF LoginInv, LoginTypes
<1>1. c \notin Passed(s) /\ Passed(s)' = Passed(s) /\ Uncounted(s)' = Uncounted(s) \ {c}
  <2>1. c \notin Passed(s) /\ x.pc \notin {"userLock", "verify", "ip"}
    BY DEF Passed
  <2>2. Passed(s)' = Passed(s) \ {c} /\ Uncounted(s)' = Uncounted(s) \ {c}
    BY <1>0, <2>1, SetsTurned
  <2> QED BY <2>1, <2>2
<1>2. CASE login[c].from # s
  <2>1. Uncounted(s)' = Uncounted(s)
    BY <1>1, <1>2 DEF Uncounted
  <2>2. counts'[LW!Ip(s)] = counts[LW!Ip(s)]
    BY <1>0, <1>2, KeysApart DEF LoginTypes
  <2> QED BY <1>0, <1>1, <2>1, <2>2, Quiet
<1>3. CASE login[c].from = s
  <2>1. c \in Uncounted(s)
    BY <1>3 DEF Uncounted
  <2>2. Cardinality(Uncounted(s)') = Cardinality(Uncounted(s)) - 1
    BY <1>1, <2>1, Loses, SetsFinite
  <2>3. \/ counts'[LW!Ip(s)] = counts[LW!Ip(s)] + 1 /\ blips' \in {blips, blips + 1}
        \/ counts'[LW!Ip(s)] = counts[LW!Ip(s)] /\ blips' = blips + 1
    BY <1>0, <1>3 DEF LoginTypes
  <2> QED BY <1>0, <1>1, <2>2, <2>3, SetsFinite DEF Bounds, LoginTypes, LoginConstants
<1> QED BY <1>2, <1>3

\* A counter goes: the window of a source starts again.
LEMMA Removes ==
    ASSUME LoginConstants, LoginInv, LoginTypes', NEW k \in LW!Keys, LW!Remove(k), UNCHANGED <<ever, blips>>,
           \A s \in Sources : Passed(s)' = Passed(s) /\ Uncounted(s)' = Uncounted(s)
    PROVE  \A s \in Sources : Bounds(s)'
<1> SUFFICES ASSUME NEW s \in Sources PROVE Bounds(s)'
  OBVIOUS
<1>0. LoginTypes /\ Bounds(s) /\ LW!Ip(s) \in LW!Keys /\ blips' >= blips /\ Passed(s)' = Passed(s) /\ Uncounted(s)' = Uncounted(s)
  BY KeysApart DEF LoginInv, LoginTypes
<1>1. CASE k = LW!Ip(s)
  <2>1. counts'[LW!Ip(s)] = 0 /\ wrong'[s] = 0
    BY <1>0, <1>1 DEF LW!Remove, LoginTypes
  <2>2. Cardinality(Passed(s)) + Cardinality(Uncounted(s)) <= Cardinality(Visitors)
    BY SetsApart
  <2> QED BY <1>0, <2>1, <2>2, SetsFinite DEF Bounds, LoginTypes, LoginConstants
<1>2. CASE k # LW!Ip(s)
  <2>1. counts'[LW!Ip(s)] = counts[LW!Ip(s)] /\ wrong'[s] = wrong[s]
    BY <1>0, <1>2 DEF LW!Remove, LoginTypes
  <2> QED BY <1>0, <2>1, Quiet
<1> QED BY <1>1, <1>2

-----------------------------------------------------------------------------
\* Attempts whose step sets or resets no counter leave every counter with its expiry.
LEMMA KeepsEnds ==
    ASSUME LoginInv, NEW c \in Visitors, NEW x \in {LW!Idle} \cup Attempt, Turned(c, x),
           login[c].pc \notin {"httpExpire", "ipExpire", "userExpire"}, UNCHANGED <<counts, mortal, stuck>>
    PROVE  EndInv'
  BY DEF LoginInv, LoginTypes, EndInv, Expiring, Turned

\* Who makes a counter is about to set its expiry, or never learns that it did.
LEMMA IncrEnds ==
    ASSUME LoginInv, NEW c \in Visitors, NEW x \in {LW!Idle} \cup Attempt, Turned(c, x), NEW k \in LW!Keys,
           login[c].pc \notin {"httpExpire", "ipExpire", "userExpire"}, counts' = [counts EXCEPT ![k] = @ + 1],
           UNCHANGED mortal, stuck \subseteq stuck', counts[k] = 0 => Expiring(c, k)' \/ k \in stuck'
    PROVE  EndInv'
<1>1. \A d \in Visitors, j \in LW!Keys : Expiring(d, j) => Expiring(d, j)'
  BY DEF LoginInv, LoginTypes, Expiring, Turned
<1>2. \A j \in LW!Keys : counts'[j] > 0 => counts[j] > 0 \/ (j = k /\ counts[k] = 0)
  BY DEF LoginInv, LoginTypes
<1> QED BY <1>1, <1>2 DEF LoginInv, EndInv

\* It is set, or that fails.
LEMMA ExpireEnds ==
    ASSUME LoginInv, NEW c \in Visitors, NEW x \in {LW!Idle} \cup Attempt, Turned(c, x), NEW k \in LW!Keys,
           \A j \in LW!Keys : Expiring(c, j) => j = k, UNCHANGED counts,
           \/ (mortal' = IF counts[k] > 0 THEN mortal \cup {k} ELSE mortal) /\ UNCHANGED stuck
           \/ stuck' = stuck \cup {k} /\ UNCHANGED mortal
    PROVE  EndInv'
<1>1. \A d \in Visitors, j \in LW!Keys : Expiring(d, j) => Expiring(d, j)' \/ (d = c /\ j = k)
  BY DEF LoginInv, LoginTypes, Expiring, Turned
<1> QED BY <1>1 DEF LoginInv, EndInv

\* A counter that is gone needs no expiry.
LEMMA RemoveEnds ==
    ASSUME LoginInv, NEW k \in LW!Keys, LW!Remove(k),
           \A d \in Visitors, j \in LW!Keys : Expiring(d, j) => Expiring(d, j)'
    PROVE  EndInv'
<1>1. \A j \in LW!Keys : counts'[j] > 0 => j # k /\ counts[j] > 0
  BY DEF LoginInv, LoginTypes, LW!Remove
<1>2. \A j \in LW!Keys : j # k => (j \in mortal => j \in mortal') /\ (j \in stuck => j \in stuck')
  BY DEF LW!Remove
<1> QED BY <1>1, <1>2 DEF LoginInv, EndInv

-----------------------------------------------------------------------------
\* Everyone is idle and nothing is counted.
LEMMA LoginInit == ASSUME LoginConstants PROVE LW!Init => LoginInv
<1> SUFFICES ASSUME LW!Init PROVE LoginInv
  OBVIOUS
<1>1. LoginTypes
  BY DEF LW!Init, LoginTypes
<1>2. EndInv
  BY DEF LW!Init, EndInv
<1>3. ASSUME NEW s \in Sources PROVE Bounds(s)
  <2>1. Passed(s) = {} /\ Uncounted(s) = {}
    BY DEF LW!Init, Passed, Uncounted, LW!Idle
  <2>2. Cardinality(Passed(s)) = 0 /\ Cardinality(Uncounted(s)) = 0
    BY <2>1, FS_EmptySet
  <2>3. wrong[s] = 0 /\ ever[s] = 0 /\ counts[LW!Ip(s)] = 0 /\ blips = 0
    BY KeysApart DEF LW!Init
  <2> QED BY <2>2, <2>3, SetsFinite DEF Bounds, LoginConstants
<1> QED BY <1>1, <1>2, <1>3 DEF LoginInv

\* Attempt c sets the expiry of the counter that it made, if it is still there, or fails to.
SetsExpiry(c) ==
    \E k \in LW!Keys :
        /\ \/ (mortal' = IF counts[k] > 0 THEN mortal \cup {k} ELSE mortal) /\ UNCHANGED stuck
           \/ stuck' = stuck \cup {k} /\ UNCHANGED mortal
        /\ \A j \in LW!Keys : Expiring(c, j) => j = k

\* An attempt that goes on, or ends, without a counter.
LEMMA Walks ==
    ASSUME LoginConstants, LoginInv, NEW c \in Visitors, NEW x \in {LW!Idle} \cup Attempt, Turned(c, x),
           login[c].pc # "ip", x.pc # "ip",
           x.pc \in {"userLock", "verify"} => login[c].pc \in {"userLock", "verify"} /\ x.from = login[c].from,
           UNCHANGED <<wrong, ever, counts>>, blips' \in {blips, blips + 1},
           \/ UNCHANGED <<mortal, stuck>> /\ login[c].pc \notin {"httpExpire", "ipExpire", "userExpire"}
           \/ SetsExpiry(c)
    PROVE  LoginInv'
<1>1. LoginTypes /\ blips \in Nat
  BY DEF LoginInv, LoginTypes
<1>2. LoginTypes' /\ blips' >= blips
  BY <1>1, SetsTurned DEF LoginTypes
<1>3. \A s \in Sources : Bounds(s)'
  BY <1>2, Moves
<1>4. EndInv'
  <2>1. CASE UNCHANGED <<mortal, stuck>> /\ login[c].pc \notin {"httpExpire", "ipExpire", "userExpire"}
    BY <2>1, KeepsEnds
  <2>2. CASE SetsExpiry(c)
    <3>1. PICK k \in LW!Keys :
             /\ \/ (mortal' = IF counts[k] > 0 THEN mortal \cup {k} ELSE mortal) /\ UNCHANGED stuck
                \/ stuck' = stuck \cup {k} /\ UNCHANGED mortal
             /\ \A j \in LW!Keys : Expiring(c, j) => j = k
      BY <2>2 DEF SetsExpiry
    <3> QED BY <3>1, ExpireEnds
  <2> QED BY <2>1, <2>2
<1> QED BY <1>2, <1>3, <1>4 DEF LoginInv

\* Counters other than those of sources are incremented.
LEMMA Ticks ==
    ASSUME LoginConstants, LoginInv, NEW c \in Visitors, NEW x \in {LW!Idle} \cup Attempt, Turned(c, x),
           NEW k \in LW!Keys, \A s \in Sources : k # LW!Ip(s), counts' = [counts EXCEPT ![k] = @ + 1],
           login[c].pc \notin {"ip", "httpExpire", "ipExpire", "userExpire"}, x.pc \notin {"ip", "userLock", "verify"},
           counts[k] = 0 => Expiring(c, k)' \/ k \in stuck', stuck \subseteq stuck',
           UNCHANGED <<wrong, ever, mortal>>, blips' \in {blips, blips + 1}
    PROVE  LoginInv'
<1>1. LoginTypes /\ blips \in Nat
  BY DEF LoginInv, LoginTypes
<1>2. LoginTypes' /\ blips' >= blips
  BY <1>1, SetsTurned DEF LoginTypes
<1>3. \A s \in Sources : counts'[LW!Ip(s)] = counts[LW!Ip(s)]
  BY <1>1, KeysApart DEF LoginTypes
<1>4. \A s \in Sources : Bounds(s)'
  BY <1>2, <1>3, Moves
<1>5. EndInv'
  BY IncrEnds
<1> QED BY <1>2, <1>4, <1>5 DEF LoginInv

\* An attempt with the right password resets a counter.
LEMMA Clears ==
    ASSUME LoginConstants, LoginInv, NEW c \in Visitors, NEW x \in {LW!Idle} \cup Attempt, Turned(c, x),
           login[c].pc \in {"clearIp", "clearUser"}, x.pc \in {"clearUser", "idle"},
           NEW k \in LW!Keys, LW!Remove(k), UNCHANGED <<ever, blips>>
    PROVE  LoginInv'
<1>1. LoginTypes /\ blips \in Nat
  BY DEF LoginInv, LoginTypes
<1>2. LoginTypes'
  BY <1>1, SetsTurned DEF LoginTypes, LW!Remove
<1>3. \A s \in Sources : Passed(s)' = Passed(s) /\ Uncounted(s)' = Uncounted(s)
  BY <1>1, SetsTurned DEF Passed, Uncounted
<1>4. \A d \in Visitors, j \in LW!Keys : Expiring(d, j) => Expiring(d, j)'
  BY <1>1 DEF LoginTypes, Expiring, Turned
<1>5. (\A s \in Sources : Bounds(s)') /\ EndInv'
  BY <1>2, <1>3, <1>4, Removes, RemoveEnds
<1> QED BY <1>2, <1>5 DEF LoginInv

\* Every step of an attempt keeps the invariant.
LEMMA AttemptStep ==
    ASSUME LoginConstants, LoginInv, NEW c \in Visitors, LW!Step(c) PROVE LoginInv'
<1>0. LoginTypes /\ LW!Idle.pc = "idle"
  BY DEF LoginInv, LW!Idle
<1>1. ASSUME NEW pc \in LW!Pcs, LW!At(c, pc) PROVE login[c].pc = pc /\ login[c].from \in Sources /\ login[c] \in Attempt
  BY <1>0, <1>1 DEF LW!At, LoginTypes, Attempt
<1>2. \A s \in Sources : LW!Http(s) \in LW!Keys /\ LW!Ip(s) \in LW!Keys /\ \A r \in Sources : LW!Ip(r) # LW!Http(s) /\ LW!Ip(r) # LW!User
  BY KeysApart
<1>3. CASE LW!HttpIncr(c)
  <2>0. PICK k \in LW!Keys : k = LW!Http(login[c].from)
    <3>1. LW!At(c, "http") /\ "http" \in LW!Pcs
      BY <1>3 DEF LW!HttpIncr, LW!Incr, LW!Pcs
    <3> QED BY <1>1, <1>2, <3>1
  <2>1. /\ LW!At(c, "http") /\ counts' = [counts EXCEPT ![k] = @ + 1] /\ UNCHANGED <<wrong, ever, mortal, stuck, blips>>
        /\ (counts[k] = 0 /\ LW!To(c, "httpExpire")) \/ (counts[k] # 0 /\ (LW!To(c, "ipLock") \/ LW!Ends(c)))
    BY <1>3, <2>0 DEF LW!HttpIncr, LW!Incr, LW!history
  <2>2. login[c].pc = "http" /\ login[c].from \in Sources /\ k \in LW!Keys /\ \A s \in Sources : k # LW!Ip(s)
    BY <1>1, <1>2, <2>0, <2>1 DEF LW!Pcs
  <2>3. PICK x \in {LW!Idle} \cup Attempt :
           Turned(c, x) /\ (IF counts[k] = 0 THEN x.pc = "httpExpire" /\ x.from = login[c].from ELSE x.pc \in {"ipLock", "idle"})
    BY <1>0, <2>1, StepsTo, EndsHere DEF LW!Pcs
  <2>4. counts[k] = 0 => Expiring(c, k)'
    <3>1. login'[c] = x
      BY <2>3 DEF Turned
    <3> QED BY <2>0, <2>3, <3>1 DEF Expiring
  <2>5. x.pc \notin {"ip", "userLock", "verify"} /\ login[c].pc \notin {"ip", "httpExpire", "ipExpire", "userExpire"}
    BY <2>2, <2>3
  <2> QED BY <2>1, <2>2, <2>3, <2>4, <2>5, Ticks
<1>4. CASE LW!CountUser(c)
  <2>1. /\ LW!At(c, "user") /\ counts' = [counts EXCEPT ![LW!User] = @ + 1] /\ UNCHANGED <<wrong, ever, mortal, stuck, blips>>
        /\ (counts[LW!User] = 0 /\ LW!To(c, "userExpire")) \/ (counts[LW!User] # 0 /\ LW!Ends(c))
    BY <1>4 DEF LW!CountUser, LW!Incr, LW!history
  <2>2. login[c].pc = "user" /\ LW!User \in LW!Keys /\ \A s \in Sources : LW!User # LW!Ip(s)
    BY <1>1, <2>1, KeysApart DEF LW!Pcs
  <2>3. PICK x \in {LW!Idle} \cup Attempt : Turned(c, x) /\ (IF counts[LW!User] = 0 THEN x.pc = "userExpire" ELSE x.pc = "idle")
    BY <1>0, <2>1, StepsTo, EndsHere DEF LW!Pcs
  <2>4. counts[LW!User] = 0 => Expiring(c, LW!User)'
    <3>1. login'[c] = x
      BY <2>3 DEF Turned
    <3> QED BY <2>3, <3>1 DEF Expiring, LW!User
  <2> QED BY <2>1, <2>2, <2>3, <2>4, Ticks
<1>5. ASSUME NEW k \in LW!Keys, NEW pc \in LW!Pcs, NEW next \in {"ipLock", "user", "idle"}, LW!At(c, pc),
             IF next = "idle" THEN LW!Ends(c) ELSE LW!To(c, next),
             mortal' = IF counts[k] > 0 THEN mortal \cup {k} ELSE mortal, UNCHANGED <<counts, stuck, wrong, ever, blips>>,
             \/ pc = "httpExpire" /\ k = LW!Http(login[c].from)
             \/ pc = "ipExpire" /\ k = LW!Ip(login[c].from)
             \/ pc = "userExpire" /\ k = LW!User
      PROVE  LoginInv'
  <2>1. login[c].pc = pc /\ login[c].from \in Sources
    BY <1>1, <1>5
  <2>2. PICK x \in {LW!Idle} \cup Attempt : Turned(c, x) /\ x.pc = next
    BY <1>0, <1>5, StepsTo, EndsHere DEF LW!Pcs
  <2>3. \A j \in LW!Keys : Expiring(c, j) => j = k
    BY <1>5, <2>1 DEF Expiring
  <2>4. x.pc \notin {"ip", "userLock", "verify"} /\ login[c].pc # "ip"
    BY <1>5, <2>1, <2>2
  <2>5. SetsExpiry(c)
    BY <1>5, <2>3 DEF SetsExpiry
  <2> QED BY <1>5, <2>2, <2>4, <2>5, Walks
<1>6. CASE LW!HttpExpire(c) \/ LW!ExpireIp(c) \/ LW!ExpireUser(c)
  <2>1. CASE LW!HttpExpire(c)
    <3>1. LW!At(c, "httpExpire") /\ "httpExpire" \in LW!Pcs
      BY <2>1 DEF LW!HttpExpire, LW!Pcs
    <3>2. LW!Http(login[c].from) \in LW!Keys
      BY <1>1, <1>2, <3>1
    <3> QED BY <1>5, <2>1, <3>1, <3>2 DEF LW!HttpExpire, LW!Expire, LW!history
  <2>2. CASE LW!ExpireIp(c)
    <3>1. LW!At(c, "ipExpire") /\ "ipExpire" \in LW!Pcs
      BY <2>2 DEF LW!ExpireIp, LW!Pcs
    <3>2. LW!Ip(login[c].from) \in LW!Keys
      BY <1>1, <1>2, <3>1
    <3> QED BY <1>5, <2>2, <3>1, <3>2 DEF LW!ExpireIp, LW!Expire, LW!history
  <2>3. CASE LW!ExpireUser(c)
    <3>1. LW!At(c, "userExpire") /\ "userExpire" \in LW!Pcs /\ LW!User \in LW!Keys
      BY <2>3, KeysApart DEF LW!ExpireUser, LW!Pcs
    <3> QED BY <1>5, <2>3, <3>1 DEF LW!ExpireUser, LW!history
  <2> QED BY <1>6, <2>1, <2>2, <2>3
<1>7. CASE LW!CheckIp(c)
  <2>1. LW!At(c, "ipLock") /\ UNCHANGED <<counts, mortal, stuck, wrong, ever, blips>>
    BY <1>7 DEF LW!CheckIp, LW!history
  <2>2. CASE LW!Ends(c)
    BY <1>0, <2>1, <2>2, EndsHere, Walks
  <2>3. CASE ~LW!Locked(LW!Ip(login[c].from), MaxAttempts) /\ LW!To(c, "userLock")
    <3>1. PICK x \in Attempt : Turned(c, x) /\ x.pc = "userLock" /\ x.from = login[c].from
      BY <1>0, <2>1, <2>3, StepsTo DEF LW!Pcs
    <3>2. login[c].pc = "ipLock" /\ LoginTypes'
      BY <1>0, <1>1, <2>1, <3>1, SetsTurned DEF LW!Pcs, LoginTypes
    <3>3. \A s \in Sources : Bounds(s)'
      BY <2>1, <2>3, <3>1, <3>2, Passes
    <3>4. EndInv'
      BY <2>1, <3>1, <3>2, KeepsEnds
    <3> QED BY <3>2, <3>3, <3>4 DEF LoginInv
  <2> QED BY <1>7, <2>2, <2>3 DEF LW!CheckIp
<1>8. CASE LW!CheckUser(c)
  <2>1. LW!At(c, "userLock") /\ UNCHANGED <<counts, mortal, stuck, wrong, ever, blips>> /\ (LW!Ends(c) \/ LW!To(c, "verify"))
    BY <1>8 DEF LW!CheckUser, LW!history
  <2>2. PICK x \in {LW!Idle} \cup Attempt : Turned(c, x) /\ (x.pc = "idle" \/ (x.pc = "verify" /\ x.from = login[c].from))
    BY <1>0, <2>1, StepsTo, EndsHere DEF LW!Pcs
  <2>3. login[c].pc = "userLock"
    BY <1>1, <2>1 DEF LW!Pcs
  <2> QED BY <2>1, <2>2, <2>3, Walks
<1>9. CASE LW!Verify(c)
  <2>1. LW!At(c, "verify") /\ UNCHANGED <<counts, mortal, stuck, blips>> /\ login[c].pc = "verify"
    BY <1>1, <1>9 DEF LW!Verify, LW!Pcs
  <2>2. CASE LW!To(c, "clearIp") /\ UNCHANGED <<wrong, ever>>
    <3>1. PICK x \in Attempt : Turned(c, x) /\ x.pc = "clearIp"
      BY <1>0, <2>1, <2>2, StepsTo DEF LW!Pcs
    <3> QED BY <2>1, <2>2, <3>1, Walks
  <2>3. CASE /\ LW!To(c, "ip")
             /\ wrong' = [wrong EXCEPT ![login[c].from] = @ + 1] /\ ever' = [ever EXCEPT ![login[c].from] = @ + 1]
    <3>1. PICK x \in Attempt : Turned(c, x) /\ x.pc = "ip" /\ x.from = login[c].from
      BY <1>0, <2>1, <2>3, StepsTo DEF LW!Pcs
    <3>2. login' \in [Visitors -> {LW!Idle} \cup Attempt]
      BY <1>0, <3>1, SetsTurned
    <3>3. LoginTypes'
      <4>1. login[c].from \in Sources
        BY <3>1 DEF Attempt
      <4>2. wrong' \in [Sources -> Nat] /\ ever' \in [Sources -> Nat]
        BY <1>0, <2>3, <4>1 DEF LoginTypes
      <4> QED BY <1>0, <2>1, <3>2, <4>2 DEF LoginTypes
    <3>4. \A s \in Sources : Bounds(s)'
      BY <2>1, <2>3, <3>1, <3>3, Guesses
    <3>5. EndInv'
      BY <2>1, <3>1, KeepsEnds
    <3> QED BY <3>3, <3>4, <3>5 DEF LoginInv
  <2> QED BY <1>9, <2>2, <2>3 DEF LW!Verify, LW!history
<1>10. CASE LW!CountIp(c)
  <2>0. PICK k \in LW!Keys : k = LW!Ip(login[c].from)
    <3>1. LW!At(c, "ip") /\ "ip" \in LW!Pcs
      BY <1>10 DEF LW!CountIp, LW!Incr, LW!Pcs
    <3> QED BY <1>1, <1>2, <3>1
  <2>1. /\ LW!At(c, "ip") /\ counts' = [counts EXCEPT ![k] = @ + 1] /\ UNCHANGED <<wrong, ever, mortal, stuck, blips>>
        /\ (counts[k] = 0 /\ LW!To(c, "ipExpire")) \/ (counts[k] # 0 /\ LW!To(c, "user"))
    BY <1>10, <2>0 DEF LW!CountIp, LW!Incr, LW!history
  <2>2. login[c].pc = "ip" /\ login[c].from \in Sources /\ k \in LW!Keys
    BY <1>1, <1>2, <2>0, <2>1 DEF LW!Pcs
  <2>3. PICK x \in Attempt : Turned(c, x) /\ (IF counts[k] = 0 THEN x.pc = "ipExpire" /\ x.from = login[c].from ELSE x.pc = "user")
    BY <1>0, <2>1, StepsTo DEF LW!Pcs
  <2>4. counts[k] = 0 => Expiring(c, k)'
    <3>1. login'[c] = x
      BY <2>3 DEF Turned
    <3> QED BY <2>0, <2>3, <3>1 DEF Expiring
  <2>5. login' \in [Visitors -> {LW!Idle} \cup Attempt]
    BY <1>0, <2>3, SetsTurned
  <2>6. LoginTypes'
    BY <1>0, <2>1, <2>2, <2>5 DEF LoginTypes
  <2>7. x.pc \in {"user", "ipExpire"}
    BY <2>3
  <2>8. \A s \in Sources : Bounds(s)'
    BY <2>0, <2>1, <2>2, <2>3, <2>6, <2>7, Counts
  <2>9. EndInv'
    BY <2>1, <2>2, <2>3, <2>4, IncrEnds
  <2> QED BY <2>6, <2>8, <2>9 DEF LoginInv
<1>11. CASE LW!Clear(c)
  <2>1. UNCHANGED <<ever, blips>>
    BY <1>11 DEF LW!Clear
  <2>2. CASE LW!At(c, "clearIp") /\ LW!Remove(LW!Ip(login[c].from)) /\ LW!To(c, "clearUser")
    <3>1. PICK x \in Attempt : Turned(c, x) /\ x.pc = "clearUser"
      BY <1>0, <2>2, StepsTo DEF LW!Pcs
    <3>2. login[c].pc = "clearIp" /\ LW!Ip(login[c].from) \in LW!Keys
      BY <1>1, <1>2, <2>2 DEF LW!Pcs
    <3> QED BY <2>1, <2>2, <3>1, <3>2, Clears
  <2>3. CASE LW!At(c, "clearUser") /\ LW!Remove(LW!User) /\ LW!Ends(c)
    <3>1. login[c].pc = "clearUser" /\ Turned(c, LW!Idle)
      BY <1>0, <2>3, EndsHere
    <3> QED BY <1>0, <2>1, <2>3, <3>1, KeysApart, Clears
  <2> QED BY <1>11, <2>2, <2>3 DEF LW!Clear
<1> QED BY <1>3, <1>4, <1>6, <1>7, <1>8, <1>9, <1>10, <1>11 DEF LW!Step

\* So does a Redis command that fails, carried out or not.
LEMMA FailStep ==
    ASSUME LoginConstants, LoginInv, NEW c \in Visitors, LW!Fails(c) PROVE LoginInv'
<1>0. LoginTypes /\ LW!Idle.pc = "idle" /\ blips \in Nat
  BY DEF LoginInv, LoginTypes, LW!Idle
<1>1. blips' = blips + 1 /\ UNCHANGED <<mortal, wrong, ever>>
  BY DEF LW!Fails, LW!HttpFails, LW!CheckFails, LW!CountFails, LW!ClearFails, LW!IncrFails, LW!ExpireFails, LW!Fault, LW!history
<1>2. ASSUME NEW pc \in LW!Pcs, LW!At(c, pc) PROVE login[c].pc = pc /\ login[c].from \in Sources
  BY <1>0, <1>2 DEF LW!At, LoginTypes, Attempt
<1>3. ASSUME NEW pc \in {"http", "user"}, LW!At(c, pc), NEW k \in LW!Keys, \A s \in Sources : k # LW!Ip(s), LW!Unanswered(k),
             LW!To(c, "ipLock") \/ LW!Ends(c)
      PROVE  LoginInv'
  <2>1. PICK x \in {LW!Idle} \cup Attempt : Turned(c, x) /\ x.pc \in {"ipLock", "idle"}
    BY <1>0, <1>3, StepsTo, EndsHere DEF LW!Pcs
  <2>2. login[c].pc = pc
    BY <1>3 DEF LW!At
  <2>3. CASE UNCHANGED <<counts, stuck>>
    BY <1>1, <1>3, <2>1, <2>2, <2>3, Walks
  <2>4. CASE counts' = [counts EXCEPT ![k] = @ + 1] /\ stuck' = IF counts[k] = 0 THEN stuck \cup {k} ELSE stuck
    <3>1. stuck \subseteq stuck' /\ (counts[k] = 0 => k \in stuck')
      BY <2>4
    <3> QED BY <1>1, <1>3, <2>1, <2>2, <2>4, <3>1, Ticks
  <2> QED BY <1>3, <2>3, <2>4 DEF LW!Unanswered
<1>4. ASSUME NEW k \in LW!Keys, NEW pc \in LW!Pcs, LW!At(c, pc), LW!To(c, "ipLock") \/ LW!To(c, "user") \/ LW!Ends(c),
             stuck' = stuck \cup {k}, UNCHANGED counts,
             \/ pc = "httpExpire" /\ k = LW!Http(login[c].from)
             \/ pc = "ipExpire" /\ k = LW!Ip(login[c].from)
             \/ pc = "userExpire" /\ k = LW!User
      PROVE  LoginInv'
  <2>1. PICK x \in {LW!Idle} \cup Attempt : Turned(c, x) /\ x.pc \in {"ipLock", "user", "idle"}
    BY <1>0, <1>4, StepsTo, EndsHere DEF LW!Pcs
  <2>2. login[c].pc = pc
    BY <1>2, <1>4
  <2>3. \A j \in LW!Keys : Expiring(c, j) => j = k
    BY <1>4, <2>2 DEF Expiring
  <2>4. SetsExpiry(c)
    BY <1>1, <1>4, <2>3 DEF SetsExpiry
  <2>5. x.pc \notin {"ip", "userLock", "verify"} /\ login[c].pc # "ip"
    BY <1>4, <2>1, <2>2
  <2> QED BY <1>1, <1>4, <2>1, <2>4, <2>5, Walks
<1>5. CASE LW!HttpFails(c)
  <2>1. PICK pc \in {"http", "httpExpire"} : LW!At(c, pc)
    BY <1>5 DEF LW!HttpFails, LW!IncrFails, LW!ExpireFails
  <2>2. LW!Http(login[c].from) \in LW!Keys /\ \A s \in Sources : LW!Http(login[c].from) # LW!Ip(s)
    BY <1>2, <2>1, KeysApart DEF LW!Pcs
  <2>3. CASE LW!IncrFails(c, LW!Http(login[c].from), "http", "ipLock")
    BY <1>3, <2>2, <2>3 DEF LW!IncrFails
  <2>4. CASE LW!ExpireFails(c, LW!Http(login[c].from), "httpExpire", "ipLock")
    BY <1>4, <2>2, <2>4 DEF LW!ExpireFails, LW!Pcs
  <2> QED BY <1>5, <2>3, <2>4 DEF LW!HttpFails
<1>6. CASE LW!CheckFails(c)
  <2>0. UNCHANGED <<counts, stuck>>
    BY <1>6 DEF LW!CheckFails
  <2>1. CASE LW!At(c, "userLock") /\ LW!To(c, "verify")
    <3>1. PICK x \in Attempt : Turned(c, x) /\ x.pc = "verify" /\ x.from = login[c].from
      BY <1>0, <2>1, StepsTo DEF LW!Pcs
    <3>2. login[c].pc = "userLock"
      BY <2>1 DEF LW!At
    <3> QED BY <1>1, <2>0, <3>1, <3>2, Walks
  <2>2. CASE LW!At(c, "ipLock") /\ LW!To(c, "userLock")
    <3>1. PICK x \in Attempt : Turned(c, x) /\ x.pc = "userLock" /\ x.from = login[c].from
      BY <1>0, <2>2, StepsTo DEF LW!Pcs
    <3>2. login[c].pc = "ipLock"
      BY <2>2 DEF LW!At
    <3>3. LoginTypes'
      BY <1>0, <1>1, <2>0, <3>1, SetsTurned DEF LoginTypes
    <3>4. \A s \in Sources : Bounds(s)'
      BY <1>1, <2>0, <3>1, <3>2, <3>3, Passes
    <3>5. EndInv'
      BY <1>1, <2>0, <3>1, <3>2, KeepsEnds
    <3> QED BY <3>3, <3>4, <3>5 DEF LoginInv
  <2> QED BY <1>6, <2>1, <2>2 DEF LW!CheckFails
<1>7. CASE LW!IncrFails(c, LW!Ip(login[c].from), "ip", "user")
  <2>1. LW!At(c, "ip") /\ LW!To(c, "user") /\ LW!Unanswered(LW!Ip(login[c].from))
    BY <1>7 DEF LW!IncrFails
  <2>2. PICK x \in Attempt : Turned(c, x) /\ x.pc = "user"
    BY <1>0, <2>1, StepsTo DEF LW!Pcs
  <2>3. login[c].pc = "ip" /\ login[c].from \in Sources /\ LW!Ip(login[c].from) \in LW!Keys
    BY <1>0, <2>1, StepsTo, KeysApart DEF LW!Pcs
  <2>4. CASE UNCHANGED <<counts, stuck>>
    <3>1. LoginTypes'
      BY <1>0, <1>1, <2>2, <2>4, SetsTurned DEF LoginTypes
    <3>2. \A s \in Sources : Bounds(s)'
      BY <1>1, <2>2, <2>3, <2>4, <3>1, Counts
    <3>3. EndInv'
      BY <1>1, <2>2, <2>3, <2>4, KeepsEnds
    <3> QED BY <3>1, <3>2, <3>3 DEF LoginInv
  <2>5. CASE /\ counts' = [counts EXCEPT ![LW!Ip(login[c].from)] = @ + 1]
             /\ stuck' = IF counts[LW!Ip(login[c].from)] = 0 THEN stuck \cup {LW!Ip(login[c].from)} ELSE stuck
    <3>1. login' \in [Visitors -> {LW!Idle} \cup Attempt]
      BY <1>0, <2>2, SetsTurned
    <3>2. LoginTypes'
      BY <1>0, <1>1, <2>3, <2>5, <3>1 DEF LoginTypes
    <3>3. \A s \in Sources : Bounds(s)'
      BY <1>1, <2>2, <2>3, <2>5, <3>2, Counts
    <3>4. EndInv'
      BY <1>1, <2>2, <2>3, <2>5, IncrEnds
    <3> QED BY <3>2, <3>3, <3>4 DEF LoginInv
  <2> QED BY <2>1, <2>4, <2>5 DEF LW!Unanswered
<1>8. CASE LW!ExpireFails(c, LW!Ip(login[c].from), "ipExpire", "user")
  <2>1. LW!Ip(login[c].from) \in LW!Keys
    BY <1>2, <1>8, KeysApart DEF LW!ExpireFails, LW!Pcs
  <2> QED BY <1>4, <1>8, <2>1 DEF LW!ExpireFails, LW!Pcs
<1>9. CASE LW!At(c, "user") /\ LW!Unanswered(LW!User) /\ LW!Ends(c)
  BY <1>3, <1>9, KeysApart
<1>10. CASE LW!At(c, "userExpire") /\ stuck' = stuck \cup {LW!User} /\ UNCHANGED counts /\ LW!Ends(c)
  BY <1>4, <1>10, KeysApart DEF LW!Pcs
<1>11. CASE LW!ClearFails(c)
  <2>1. UNCHANGED <<counts, stuck>> /\ \E pc \in {"clearIp", "clearUser"} : LW!At(c, pc) /\ (LW!To(c, "clearUser") \/ LW!Ends(c))
    BY <1>11 DEF LW!ClearFails
  <2>2. PICK pc \in {"clearIp", "clearUser"} : LW!At(c, pc)
    BY <2>1
  <2>3. PICK x \in {LW!Idle} \cup Attempt : Turned(c, x) /\ x.pc \in {"clearUser", "idle"}
    BY <1>0, <2>1, StepsTo, EndsHere DEF LW!Pcs
  <2>4. login[c].pc \in {"clearIp", "clearUser"}
    BY <2>2 DEF LW!At
  <2> QED BY <1>1, <2>1, <2>3, <2>4, Walks
<1> QED BY <1>5, <1>6, <1>7, <1>8, <1>9, <1>10, <1>11 DEF LW!Fails, LW!CountFails

\* Every step keeps the invariant.
LEMMA LoginStep == ASSUME LoginConstants PROVE LoginInv /\ [LW!Next]_(LW!vars) => LoginInv'
<1> SUFFICES ASSUME LoginInv, [LW!Next]_(LW!vars) PROVE LoginInv'
  OBVIOUS
<1>0. LoginTypes /\ LW!Idle.pc = "idle"
  BY DEF LoginInv, LW!Idle
<1>1. ASSUME NEW c \in Visitors, NEW s \in Sources, NEW right \in BOOLEAN, LW!Arrive(c, s, right) PROVE LoginInv'
  <2> DEFINE x == [pc |-> "http", from |-> s, right |-> right]
  <2>1. x \in Attempt /\ x.pc = "http"
    BY DEF Attempt, LW!Pcs
  <2>2. Turned(c, x) /\ UNCHANGED <<counts, mortal, stuck, wrong, ever, blips>> /\ login[c].pc = "idle"
    BY <1>0, <1>1 DEF LW!Arrive, LoginTypes, Turned, LW!history
  <2> HIDE DEF x
  <2> QED BY <2>1, <2>2, Walks
<1>2. ASSUME NEW k \in LW!Keys, LW!WindowEnds(k) PROVE LoginInv'
  <2>1. LW!Remove(k) /\ UNCHANGED <<login, ever, blips>>
    BY <1>2 DEF LW!WindowEnds
  <2>2. \A s \in Sources : Passed(s)' = Passed(s) /\ Uncounted(s)' = Uncounted(s)
    BY <2>1 DEF Passed, Uncounted
  <2>3. \A d \in Visitors, j \in LW!Keys : Expiring(d, j) => Expiring(d, j)'
    BY <2>1 DEF Expiring
  <2>4. LoginTypes'
    BY <1>0, <2>1 DEF LoginTypes, LW!Remove
  <2> QED BY <2>1, <2>2, <2>3, <2>4, Removes, RemoveEnds DEF LoginInv
<1>3. CASE UNCHANGED LW!vars
  <2>1. UNCHANGED <<counts, mortal, stuck, login, wrong, ever, blips>>
    BY <1>3 DEF LW!vars
  <2> QED BY <2>1 DEF LoginInv, LoginTypes, EndInv, Expiring, Bounds, Passed, Uncounted
<1> QED BY <1>1, <1>2, <1>3, AttemptStep, FailStep DEF LW!Next

(* Between two ends of its window a source tries at most MaxAttempts wrong *)
(* passwords, and one more for each other login under way and each command *)
(* that Redis failed; a source is locked out only after it has tried that  *)
(* many itself; and a counter that is there expires, or its expiry is      *)
(* about to be set, or the very EXPIRE of it failed or was not sent for    *)
(* the lost answer to its INCR: for any number of logins at once, though   *)
(* the check, the password and the count are separate steps (login,        *)
(* is_locked_out, register_failure, incr_call_count).                      *)
THEOREM LoginBounds ==
    ASSUME LoginConstants PROVE LW!Spec => [](LW!GuessesBounded /\ LW!LockedByItsOwn /\ LW!WindowsEnd)
<1>1. LoginInv => LW!GuessesBounded /\ LW!LockedByItsOwn /\ LW!WindowsEnd
  <2> SUFFICES ASSUME LoginInv PROVE LW!GuessesBounded /\ LW!LockedByItsOwn /\ LW!WindowsEnd
    OBVIOUS
  <2>1. LW!GuessesBounded
    <3>1. ASSUME NEW s \in Sources PROVE wrong[s] <= MaxAttempts + (Cardinality(Visitors) - 1) + blips
      BY SetsFinite DEF LoginInv, Bounds, LoginTypes, LoginConstants
    <3> QED BY <3>1, SameCount DEF LW!GuessesBounded
  <2>2. LW!LockedByItsOwn
    <3>1. ASSUME NEW s \in Sources, LW!Locked(LW!Ip(s), MaxAttempts) PROVE ever[s] >= MaxAttempts
      <4>1. LW!Ip(s) \in LW!Keys
        BY KeysApart
      <4> QED BY <3>1, <4>1, SetsFinite DEF LoginInv, Bounds, LoginTypes, LoginConstants, LW!Locked
    <3>2. ASSUME NEW c \in Visitors, LW!At(c, "ipLock") PROVE login[c].from \in Sources
      BY <3>2 DEF LoginInv, LoginTypes, LW!At, Attempt
    <3> QED BY <3>1, <3>2 DEF LW!LockedByItsOwn
  <2>3. LW!WindowsEnd
    <3>1. \A c \in Visitors : login[c].pc # "idle" => login[c] # LW!Idle
      BY DEF LW!Idle
    <3> QED BY <3>1 DEF LoginInv, EndInv, Expiring, LW!WindowsEnd, LW!At
  <2> QED BY <2>1, <2>2, <2>3
<1> QED BY <1>1, LoginInit, LoginStep, PTL DEF LW!Spec

-----------------------------------------------------------------------------
(* Who a caller is taken for (CallerIdentity). *)

CONSTANTS Places, Classes, Workloads, Spiffe, PlaceOf(_)
VARIABLES asked, given

CI == INSTANCE CallerIdentity WITH Namespaces <- Places, Ids <- Spiffe, NamespaceOf <- PlaceOf, in <- asked, out <- given

\* Names are not empty, no namespace is the model's word for a refusal, and a namespace has an id.
IdentityConstants ==
    /\ "" \notin Places \cup Classes \cup Spiffe /\ "denied" \notin Places
    /\ \A n \in Places : \E i \in Spiffe : PlaceOf(i) = n

\* The identity a call is given is its own.
Sound(user, b) ==
    /\ b.ns = CI!Home(user)
    /\ user.class # "" => b.class = user.class
    /\ CI!Bound(user) # {} => b.workload = user.workload
    /\ user.role = "service" /\ b.id # "" => PlaceOf(b.id) \in {"", CI!Home(user)}

\* What was answered is what the functions compute.
IdentityInv ==
    /\ asked \in CI!Inputs
    /\ given # <<>> /\ asked.what = "call" =>
         /\ given.bound = CI!BindCallerIdentity(asked.cfg, asked.user, asked.body)
         /\ given.reads = {CI!ReadNamespace(asked.user, r) : r \in {"all", asked.body.ns}}
    /\ given # <<>> /\ asked.what = "sidecar" =>
         /\ given.user = CI!MintSidecarToken(asked.cfg, asked.ns, asked.class, asked.workload)
         /\ given.bound = CI!BindCallerIdentity(asked.cfg, given.user, CI!Self(given.user, CI!Svid(asked.ns)))
    /\ given # <<>> /\ asked.what = "groups" =>
         /\ given.claims = CI!ApplyGroupMapping(asked.groups)
         /\ given.swapped = CI!ApplyGroupMapping(CI!Reverse(asked.groups))

\* The namespace of an accepted call.
Decided(user, r) ==
    IF CI!AttestedNamespace(user, r) # "" THEN CI!AttestedNamespace(user, r) ELSE CI!ScopedNamespace(user, r)
\* What bind_caller_identity refuses.
Rejected(cfg, user, body) ==
    \/ CI!ScopedNamespace(user, body.ns) = "denied" \/ CI!AttestedNamespace(user, body.ns) = "denied"
    \/ CI!IdentityRefused(cfg, user, body)

\* What bind_caller_identity returns.
LEMMA BindIs ==
    ASSUME NEW cfg, NEW user, NEW body
    PROVE  /\ Rejected(cfg, user, body) => ~CI!BindCallerIdentity(cfg, user, body).ok
           /\ ~Rejected(cfg, user, body) =>
                /\ CI!BindCallerIdentity(cfg, user, body).ok
                /\ Decided(user, body.ns) # "" =>
                     CI!BindCallerIdentity(cfg, user, body).id = [CI!ScopedIdentity(user, body) EXCEPT !.ns = Decided(user, body.ns)]
<1>1. CASE Rejected(cfg, user, body)
  <2>1. CI!BindCallerIdentity(cfg, user, body) = [ok |-> FALSE]
    BY <1>1 DEF CI!BindCallerIdentity, CI!Denied, Rejected
  <2> QED BY <1>1, <2>1
<1>2. CASE ~Rejected(cfg, user, body)
  <2>1. PICK x : x = IF Decided(user, body.ns) # "" THEN [CI!ScopedIdentity(user, body) EXCEPT !.ns = Decided(user, body.ns)] ELSE CI!ScopedIdentity(user, body)
    OBVIOUS
  <2>2. CI!BindCallerIdentity(cfg, user, body) = [ok |-> TRUE, id |-> x]
    BY <1>2, <2>1, Zenon DEF CI!BindCallerIdentity, CI!Denied, Rejected, Decided
  <2>3. CI!BindCallerIdentity(cfg, user, body).ok /\ CI!BindCallerIdentity(cfg, user, body).id = x
    BY <2>2
  <2> QED BY <1>2, <2>1, <2>3
<1> QED BY <1>1, <1>2

\* A namespace that is granted is the caller's own.
LEMMA NamespaceIsHome ==
    ASSUME NEW user \in CI!Users, NEW r, user.role # "admin", CI!Home(user) # "",
           CI!ScopedNamespace(user, r) # "denied", CI!AttestedNamespace(user, r) # "denied"
    PROVE  /\ Decided(user, r) = CI!Home(user)
           /\ user.role = "service" /\ user.id # "" => PlaceOf(user.id) \in {"", CI!Home(user)}
<1>1. CASE user.ns # ""
  <2>1. CI!Home(user) = user.ns /\ CI!ScopedNamespace(user, r) = user.ns
    BY <1>1 DEF CI!Home, CI!ScopedNamespace, CI!Denied
  <2>2. CI!AttestedNamespace(user, r) \in {"", user.ns}
    BY <1>1 DEF CI!AttestedNamespace, CI!Denied
  <2>3. user.role = "service" /\ user.id # "" => PlaceOf(user.id) \in {"", user.ns}
    BY <1>1 DEF CI!AttestedNamespace, CI!Denied
  <2> QED BY <2>1, <2>2, <2>3 DEF Decided
<1>2. CASE user.ns = ""
  <2>1. user.role = "service" /\ user.id # "" /\ CI!Home(user) = PlaceOf(user.id)
    BY <1>2 DEF CI!Home
  <2>2. CI!AttestedNamespace(user, r) = PlaceOf(user.id)
    BY <2>1 DEF CI!AttestedNamespace, CI!Denied
  <2> QED BY <2>1, <2>2 DEF Decided
<1> QED BY <1>1, <1>2

\* An identity that is bound is the one the caller proved.
LEMMA BindIsSound ==
   ASSUME NEW cfg, NEW user \in CI!Users, NEW body \in CI!Bodies, user.role # "admin", CI!Home(user) # "",
          NEW b, b = CI!BindCallerIdentity(cfg, user, body), b.ok
   PROVE  Sound(user, b.id)
<1>1. PICK d : d = CI!ScopedIdentity(user, body)
  OBVIOUS
<1>2. ~Rejected(cfg, user, body)
  BY BindIs
<1>3. /\ Decided(user, body.ns) = CI!Home(user)
      /\ user.role = "service" /\ user.id # "" => PlaceOf(user.id) \in {"", CI!Home(user)}
  BY <1>2, NamespaceIsHome DEF Rejected
<1>4. b.id = [d EXCEPT !.ns = CI!Home(user)]
  BY <1>1, <1>2, <1>3, BindIs
<1>5. DOMAIN body = {"ns", "class", "id", "workload"}
  BY DEF CI!Bodies
<1>6. /\ d = [f \in {"ns", "class", "id", "workload"} |->
               IF f \in CI!Bound(user) THEN user[f] ELSE IF f = "workload" /\ CI!Bound(user) # {} THEN "" ELSE body[f]]
  BY <1>1, <1>5 DEF CI!ScopedIdentity
<1>7. b.id.ns = CI!Home(user) /\ b.id.class = d.class /\ b.id.id = d.id /\ b.id.workload = d.workload
  BY <1>4, <1>6
<1>8. user.class # "" => d.class = user.class
  BY <1>6 DEF CI!Bound
<1>9. CI!Bound(user) # {} => d.workload = user.workload
  BY <1>6 DEF CI!Bound
<1>10. ASSUME user.role = "service", d.id # "" PROVE PlaceOf(d.id) \in {"", CI!Home(user)}
  <2>1. CASE user.id # ""
    <3>1. d.id = user.id
      BY <1>6, <2>1 DEF CI!Bound
    <3> QED BY <1>3, <1>10, <2>1, <3>1
  <2>2. CASE user.id = ""
    <3>1. "id" \notin CI!Bound(user)
      BY <2>2 DEF CI!Bound
    <3>2. d.id = body.id /\ ~CI!CrossNamespaceId(user, body.id)
      BY <1>2, <1>6, <3>1 DEF CI!IdentityRefused, Rejected
    <3>3. user.ns # "" /\ CI!Home(user) = user.ns
      BY <2>2 DEF CI!Home
    <3> QED BY <1>10, <3>2, <3>3 DEF CI!CrossNamespaceId
  <2> QED BY <2>1, <2>2
<1> QED BY <1>7, <1>8, <1>9, <1>10 DEF Sound

\* A reader is shown its own namespace.
LEMMA ReadsAreHome ==
    ASSUME NEW user \in CI!Users, NEW r, user.role # "admin", user.ns \notin {"", "*"} PROVE CI!ReadNamespace(user, r) \in {user.ns, "denied"}
  BY DEF CI!ReadNamespace, CI!ScopedNamespace, CI!Denied

\* A sidecar's call is accepted unless a class is required and missing, and then as it was sent.
AsSent(cfg, c, b, sent) == (b.ok <=> (cfg.strict => c # "")) /\ (b.ok => b.id = sent)

\* What the sidecar sends for its own agent is bound as sent.
LEMMA SidecarBinds ==
    ASSUME IdentityConstants, NEW cfg \in CI!Configs, NEW n \in Places, NEW c \in Classes \cup {""}, NEW w \in Workloads \cup {""},
           NEW user, user = CI!MintSidecarToken(cfg, n, c, w), NEW b, b = CI!BindCallerIdentity(cfg, user, CI!Self(user, CI!Svid(n)))
    PROVE  AsSent(cfg, c, b, CI!Self(user, CI!Svid(n)))
<1>1. PICK s : s = CI!Svid(n) /\ s \in Spiffe /\ PlaceOf(s) = n
  BY DEF IdentityConstants, CI!Svid
<1>2. s # "" /\ n # "" /\ n # "denied"
  BY <1>1 DEF IdentityConstants
<1>3. PICK v : v = IF cfg.mode = "mock" THEN s ELSE ""
  OBVIOUS
<1>4. user = [role |-> "service", ns |-> n, class |-> c, workload |-> w, id |-> v]
  BY <1>1, <1>3, Zenon DEF CI!MintSidecarToken
<1>5. user.role = "service" /\ user.ns = n /\ user.class = c /\ user.workload = w /\ user.id = v
  <2>1. PICK u : u = [role |-> "service", ns |-> n, class |-> c, workload |-> w, id |-> v]
    OBVIOUS
  <2>2. u.role = "service" /\ u.ns = n /\ u.class = c /\ u.workload = w /\ u.id = v
    BY ONLY <2>1
  <2>3. user = u
    BY <1>4, <2>1
  <2> QED BY ONLY <2>2, <2>3
<1>6. PICK body : body = [ns |-> n, class |-> c, id |-> s, workload |-> w]
  OBVIOUS
<1>7. body.ns = n /\ body.class = c /\ body.workload = w /\ body.id = s /\ body["class"] = c /\ body["workload"] = w /\ body["id"] = s /\ DOMAIN body = {"ns", "class", "id", "workload"}
  BY <1>6
<1>8. CI!Self(user, s) = body
  BY <1>5, <1>6, Zenon DEF CI!Self
<1>9. v \in {"", s} /\ (cfg.mode = "mock" => v = s) /\ (cfg.mode # "mock" => cfg.mode = "workload-api")
  <2>1. cfg.mode \in {"mock", "workload-api"}
    BY DEF CI!Configs
  <2> QED BY <1>3, <2>1
<1>10. CI!ScopedNamespace(user, n) = n
  BY <1>2, <1>5 DEF CI!ScopedNamespace
<1>11. CI!AttestedNamespace(user, n) \in {"", n}
  BY <1>1, <1>2, <1>5, <1>9 DEF CI!AttestedNamespace
<1>12. ("class" \in CI!Bound(user) <=> c # "") /\ (cfg.mode = "mock" => "id" \in CI!Bound(user)) /\ \A f \in CI!Bound(user) : f \in {"class", "id", "workload"} /\ user[f] # ""
  BY <1>2, <1>5, <1>9 DEF CI!Bound
<1>13. \A f \in CI!Bound(user) : body[f] = user[f]
  <2> SUFFICES ASSUME NEW f \in CI!Bound(user) PROVE body[f] = user[f]
    OBVIOUS
  <2>1. CASE f = "class"
    BY <1>5, <1>7, <2>1
  <2>2. CASE f = "workload"
    BY <1>5, <1>7, <2>2
  <2>3. CASE f = "id"
    BY <1>5, <1>7, <1>9, <1>12, <2>3
  <2> QED BY <1>12, <2>1, <2>2, <2>3
<1>14. CI!IdentityRefused(cfg, user, body) <=> cfg.strict /\ c = ""
  <2>1. ~CI!CrossNamespaceId(user, body.id)
    BY <1>1, <1>5, <1>7 DEF CI!CrossNamespaceId
  <2>2. CI!RequiredBoundFields(cfg.mode) \subseteq CI!Bound(user) <=> c # ""
    BY <1>9, <1>12 DEF CI!RequiredBoundFields
  <2>3. \A f \in CI!Bound(user) : body[f] \in {"", user[f]}
    BY <1>13
  <2> QED BY <1>5, <2>1, <2>2, <2>3 DEF CI!IdentityRefused
<1>15. (Rejected(cfg, user, body) <=> cfg.strict /\ c = "") /\ Decided(user, body.ns) = n
  BY <1>2, <1>7, <1>10, <1>11, <1>14 DEF Rejected, Decided
<1>16. PICK d : d = CI!ScopedIdentity(user, body)
  OBVIOUS
<1>17. d = [f \in {"ns", "class", "id", "workload"} |->
               IF f \in CI!Bound(user) THEN user[f] ELSE IF f = "workload" /\ CI!Bound(user) # {} THEN "" ELSE body[f]]
  BY <1>5, <1>7, <1>16 DEF CI!ScopedIdentity
<1>18. d["class"] = c /\ d["id"] = s /\ d["workload"] = w
  <2>1. "workload" \notin CI!Bound(user) => w = ""
    BY <1>5 DEF CI!Bound
  <2> QED BY <1>7, <1>12, <1>13, <1>17, <2>1
<1>19. /\ CI!BindCallerIdentity(cfg, user, body).ok <=> ~(cfg.strict /\ c = "")
       /\ CI!BindCallerIdentity(cfg, user, body).ok => CI!BindCallerIdentity(cfg, user, body).id = [d EXCEPT !.ns = n]
  BY <1>2, <1>15, <1>16, BindIs
<1>20. [d EXCEPT !.ns = n] = body
  <2>1. PICK e : e = [d EXCEPT !.ns = n]
    OBVIOUS
  <2>2. e = [f \in {"ns", "class", "id", "workload"} |-> IF f = "ns" THEN n ELSE d[f]]
    BY <1>17, <2>1
  <2>3. body = [f \in {"ns", "class", "id", "workload"} |-> body[f]]
    BY <1>6
  <2>4. \A f \in {"ns", "class", "id", "workload"} : (IF f = "ns" THEN n ELSE d[f]) = body[f]
    BY <1>7, <1>18
  <2> QED BY <2>1, <2>2, <2>3, <2>4
<1> QED BY <1>1, <1>8, <1>19, <1>20 DEF AsSent

\* Reversing a sequence keeps its elements.
LEMMA ReverseIs ==
    ASSUME NEW S, NEW s \in Seq(S)
    PROVE  CI!Range(CI!Reverse(s)) = CI!Range(s) /\ (CI!Reverse(s) = <<>> <=> s = <<>>)
<1>1. Len(s) \in Nat /\ DOMAIN s = 1 .. Len(s)
  OBVIOUS
<1>2. PICK t : t = CI!Reverse(s)
  OBVIOUS
<1>3. t = [i \in 1 .. Len(s) |-> s[(Len(s) - i) + 1]]
  BY <1>2 DEF CI!Reverse
<1>4. \A i \in 1 .. Len(s) : (Len(s) - i) + 1 \in 1 .. Len(s) /\ (Len(s) - ((Len(s) - i) + 1)) + 1 = i
  BY <1>1
<1>5. \A i \in 1 .. Len(s) : t[i] = s[(Len(s) - i) + 1] /\ s[i] = t[(Len(s) - i) + 1]
  BY <1>3, <1>4
<1>6. CI!Range(t) = {t[i] : i \in 1 .. Len(s)} /\ CI!Range(s) = {s[i] : i \in 1 .. Len(s)}
  BY <1>1, <1>3 DEF CI!Range
<1>7. CI!Range(t) = CI!Range(s)
  BY <1>4, <1>5, <1>6
<1>8. t = <<>> <=> s = <<>>
  <2>1. s = <<>> => t = <<>>
    BY <1>3
  <2>2. t = <<>> => s = <<>>
    <3>1. DOMAIN t = 1 .. Len(s)
      BY <1>3
    <3>2. t = <<>> => 1 .. Len(s) = {}
      BY <3>1
    <3> QED BY <1>1, <3>2
  <2> QED BY <2>1, <2>2
<1> QED BY <1>2, <1>7, <1>8

\* The claims of a set of groups.
MappedOf(R, role) ==
    LET namespaces == {g.ns : g \in R} \ {""} IN
    IF \E x, y \in namespaces : x # y THEN [role |-> "denied", ns |-> ""] ELSE [role |-> role, ns |-> CI!Only(namespaces)]
ClaimsOf(R) ==
    LET role == CHOOSE r \in {g.role : g \in R} : \A g \in R : CI!Rank[g.role] <= CI!Rank[r]
    IN IF role = "admin" THEN [role |-> "admin", ns |-> ""] ELSE MappedOf(R, role)

\* Claims depend on the set of groups.
LEMMA ClaimsAre ==
    ASSUME NEW s, s # <<>> PROVE CI!ApplyGroupMapping(s) = ClaimsOf(CI!Range(s))
  BY Zenon DEF CI!ApplyGroupMapping, ClaimsOf, CI!Mapped, MappedOf, CI!Denied

\* The same groups in the reverse order make the same claims.
LEMMA GroupsSwap ==
    ASSUME NEW S, NEW s \in Seq(S) PROVE CI!ApplyGroupMapping(CI!Reverse(s)) = CI!ApplyGroupMapping(s)
<1>1. CASE s = <<>>
  BY <1>1, ReverseIs DEF CI!ApplyGroupMapping
<1>2. CASE s # <<>>
  <2>1. CI!Reverse(s) # <<>> /\ CI!Range(CI!Reverse(s)) = CI!Range(s)
    BY <1>2, ReverseIs
  <2>2. CI!ApplyGroupMapping(CI!Reverse(s)) = ClaimsOf(CI!Range(CI!Reverse(s))) /\ CI!ApplyGroupMapping(s) = ClaimsOf(CI!Range(s))
    BY <1>2, <2>1, ClaimsAre
  <2> QED BY <2>1, <2>2
<1> QED BY <1>1, <1>2

\* Nothing has been answered.
LEMMA IdentityStarts == CI!Init => IdentityInv
  BY DEF CI!Init, IdentityInv

\* Every answer is computed from what was asked.
LEMMA IdentityStep == IdentityInv /\ [CI!Next]_(CI!vars) => IdentityInv'
<1> SUFFICES ASSUME IdentityInv, [CI!Next]_(CI!vars) PROVE IdentityInv'
  OBVIOUS
<1>1. CASE CI!Call
  <2>1. PICK x, y : x = CI!BindCallerIdentity(asked.cfg, asked.user, asked.body) /\ y = {CI!ReadNamespace(asked.user, r) : r \in {"all", asked.body.ns}}
    OBVIOUS
  <2>2. given' = [bound |-> x, reads |-> y] /\ asked' = asked /\ asked.what = "call"
    BY <1>1, <2>1, Zenon DEF CI!Call
  <2>3. given'.bound = x /\ given'.reads = y
    BY <2>2
  <2> QED BY <2>1, <2>2, <2>3 DEF IdentityInv
<1>2. CASE CI!Sidecar
  <2>1. PICK u : u = CI!MintSidecarToken(asked.cfg, asked.ns, asked.class, asked.workload)
    OBVIOUS
  <2>2. PICK x : x = CI!BindCallerIdentity(asked.cfg, u, CI!Self(u, CI!Svid(asked.ns)))
    OBVIOUS
  <2>3. given' = [user |-> u, bound |-> x] /\ asked' = asked /\ asked.what = "sidecar"
    BY <1>2, <2>1, <2>2, Zenon DEF CI!Sidecar
  <2>4. given'.user = u /\ given'.bound = x
    BY <2>3
  <2> QED BY <2>1, <2>2, <2>3, <2>4 DEF IdentityInv
<1>3. CASE CI!Issue
  BY <1>3 DEF CI!Issue, IdentityInv
<1>4. CASE CI!MapGroups
  <2>1. PICK x, y : x = CI!ApplyGroupMapping(asked.groups) /\ y = CI!ApplyGroupMapping(CI!Reverse(asked.groups))
    OBVIOUS
  <2>2. given' = [claims |-> x, swapped |-> y] /\ asked' = asked /\ asked.what = "groups"
    BY <1>4, <2>1, Zenon DEF CI!MapGroups
  <2>3. given'.claims = x /\ given'.swapped = y
    BY <2>2
  <2> QED BY <2>1, <2>2, <2>3 DEF IdentityInv
<1>5. CASE UNCHANGED CI!vars
  BY <1>5 DEF CI!vars, IdentityInv
<1> QED BY <1>1, <1>2, <1>3, <1>4, <1>5 DEF CI!Next

\* The invariant implies what callers are promised.
LEMMA IdentityShows ==
    ASSUME IdentityConstants, IdentityInv PROVE CI!ActsAtHome /\ CI!SidecarsAreAccepted /\ CI!GroupOrderIsIrrelevant
<1>1. CI!ActsAtHome
  <2> SUFFICES ASSUME given # <<>>, asked.what = "call", asked.user.role # "admin", CI!Home(asked.user) # ""
               PROVE  /\ given.bound.ok => Sound(asked.user, given.bound.id)
                      /\ asked.user.ns \notin {"", "*"} => given.reads \subseteq {asked.user.ns, "denied"}
    BY DEF CI!ActsAtHome, Sound, CI!Denied
  <2>1. asked.user \in CI!Users /\ asked.body \in CI!Bodies
    BY DEF IdentityInv, CI!Inputs
  <2>2. given.bound.ok => Sound(asked.user, given.bound.id)
    BY <2>1, BindIsSound DEF IdentityInv
  <2>3. asked.user.ns \notin {"", "*"} => given.reads \subseteq {asked.user.ns, "denied"}
    <3>1. given.reads = {CI!ReadNamespace(asked.user, r) : r \in {"all", asked.body.ns}}
      BY DEF IdentityInv
    <3>2. asked.user.ns \notin {"", "*"} => \A r : CI!ReadNamespace(asked.user, r) \in {asked.user.ns, "denied"}
      BY <2>1, ReadsAreHome
    <3> QED BY <3>1, <3>2
  <2> QED BY <2>2, <2>3
<1>2. CI!SidecarsAreAccepted
  <2> SUFFICES ASSUME given # <<>>, asked.what = "sidecar"
               PROVE  /\ given.bound.ok <=> (asked.cfg.strict => asked.class # "")
                      /\ given.bound.ok => given.bound.id = CI!Self(given.user, CI!Svid(asked.ns))
    BY DEF CI!SidecarsAreAccepted
  <2>1. asked.cfg \in CI!Configs /\ asked.ns \in Places /\ asked.class \in Classes \cup {""} /\ asked.workload \in Workloads \cup {""}
    BY DEF IdentityInv, CI!Inputs
  <2>2. /\ given.user = CI!MintSidecarToken(asked.cfg, asked.ns, asked.class, asked.workload)
        /\ given.bound = CI!BindCallerIdentity(asked.cfg, given.user, CI!Self(given.user, CI!Svid(asked.ns)))
    BY DEF IdentityInv
  <2>3. PICK u, b : u = given.user /\ b = given.bound
    OBVIOUS
  <2>4. (b.ok <=> (asked.cfg.strict => asked.class # "")) /\ (b.ok => b.id = CI!Self(u, CI!Svid(asked.ns)))
    <3>1. PICK cfg, n, c, w : cfg = asked.cfg /\ n = asked.ns /\ c = asked.class /\ w = asked.workload
      OBVIOUS
    <3>2. cfg \in CI!Configs /\ n \in Places /\ c \in Classes \cup {""} /\ w \in Workloads \cup {""}
      BY <2>1, <3>1, Zenon
    <3>3. u = CI!MintSidecarToken(cfg, n, c, w) /\ b = CI!BindCallerIdentity(cfg, u, CI!Self(u, CI!Svid(n)))
      BY <2>2, <2>3, <3>1
    <3>4. AsSent(cfg, c, b, CI!Self(u, CI!Svid(n)))
      BY <3>2, <3>3, SidecarBinds, Zenon
    <3> QED BY <3>1, <3>4 DEF AsSent
  <2> QED BY <2>3, <2>4
<1>3. CI!GroupOrderIsIrrelevant
  <2> SUFFICES ASSUME given # <<>>, asked.what = "groups" PROVE given.claims = given.swapped
    BY DEF CI!GroupOrderIsIrrelevant
  <2>1. asked.groups \in CI!Groups
    BY DEF IdentityInv, CI!Inputs
  <2>2. asked.groups \in Seq([role : CI!Roles, ns : Places \cup {""}])
    <3>1. PICK m \in 0 .. 2 : asked.groups \in [1 .. m -> [role : CI!Roles, ns : Places \cup {""}]]
      BY <2>1 DEF CI!Groups, CI!SeqOf
    <3>2. PICK S : S = [role : CI!Roles, ns : Places \cup {""}]
      OBVIOUS
    <3>3. m \in Nat /\ asked.groups \in [1 .. m -> S]
      <4>1. m \in Nat
        OBVIOUS
      <4>2. asked.groups \in [1 .. m -> S]
        BY <3>1, <3>2, Zenon
      <4> QED BY <4>1, <4>2
    <3>4. asked.groups \in Seq(S)
      BY <3>3
    <3> QED BY <3>2, <3>4
  <2> QED BY <2>2, GroupsSwap DEF IdentityInv
<1> QED BY <1>1, <1>2, <1>3

(* Whatever identity its body claims, a caller acts in its own namespace,  *)
(* and reads there if its claim names it; what a sidecar sends for its own *)
(* agent is accepted exactly unless a class is required and its pod has    *)
(* none; and the order of an identity provider's groups changes no claim:  *)
(* for any namespaces, classes and ids (bind_caller_identity,              *)
(* read_namespace, mintSidecarToken, the OIDC claims).                     *)
THEOREM CallersBound ==
    ASSUME IdentityConstants PROVE CI!Spec => [](CI!ActsAtHome /\ CI!SidecarsAreAccepted /\ CI!GroupOrderIsIrrelevant)
<1>1. IdentityInv => CI!ActsAtHome /\ CI!SidecarsAreAccepted /\ CI!GroupOrderIsIrrelevant
  BY IdentityShows
<1> QED BY <1>1, IdentityStarts, IdentityStep, PTL DEF CI!Spec

=============================================================================
