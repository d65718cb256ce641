------------------------- MODULE AdminTrust_proofs -------------------------
(***************************************************************************)
(* Proofs about AdminTrust for any number of writers, any set of caps and  *)
(* any mix of failures; and about TrustScore, the score that a cap bounds. *)
(***************************************************************************)
EXTENDS AdminTrust, TLAPS

-----------------------------------------------------------------------------
\* c is at least as strict as d.
AtLeast(c, d) == IsTightening(d, c)

\* The fence would let w's token in, or still holds it.
Admissible(w) ==
    \/ token[w] > owner.last
    \/ token[w] = owner.last /\ owner.stolen = 0

\* w may yet land a store write under its own token.
Lander(w) == Outstanding(w) /\ token[w] # 0 /\ (mode[w] = "loosen" => pc[w] = "write")

\* w's change was seen to land in the store.
Landed(w) ==
    \/ mode[w] = "tighten" /\ outcome[w] = "applied"
    \/ answer[w] = "ok" /\ kind[w] # "delete"

Early == {"idle", "lock", "read", "live", "token"}

\* The control points of one writer and what its locals hold there.
PcOK(w) ==
    /\ pc[w] \in Early =>
          token[w] = 0 /\ mine[w] = NoOwner /\ answer[w] = "none" /\ outcome[w] = "none"
    /\ pc[w] \in Early \ {"token"} => mode[w] = "none"
    /\ pc[w] = "token" => mode[w] \in {"tighten", "loosen", "warm"}
    /\ pc[w] = "live" => kind[w] = "delete"
    /\ pc[w] = "check" => mode[w] \in {"tighten", "retry"} /\ token[w] # 0
    /\ pc[w] = "claim" => mode[w] # "none" /\ (mode[w] # "steal" => token[w] # 0)
    /\ pc[w] = "write" =>
          /\ mode[w] # "none"
          /\ mode[w] # "steal" => token[w] # 0 /\ mine[w] = Token(token[w])
          /\ mode[w] = "steal" => mine[w].stolen > 0
    /\ pc[w] = "persist" =>
          \/ kind[w] = "delete" /\ mode[w] = "none" /\ token[w] = 0
          \/ mode[w] = "tighten" /\ token[w] # 0
          \/ mode[w] = "loosen" /\ token[w] # 0 /\ mine[w] = Token(token[w])
    /\ mode[w] = "steal" => req[w].frozen /\ kind[w] = "put"
    /\ mode[w] \in {"tighten", "loosen", "retry"} => kind[w] = "put"
    /\ mode[w] = "warm" => kind[w] = "warm"
    /\ token[w] # 0 => mode[w] # "none"
    /\ mode[w] = "tighten" /\ outcome[w] = "applied" =>
          token[w] # 0 /\ pc[w] \in {"persist", "release", "done"}
    /\ answer[w] = "ok" => pc[w] \in {"release", "done"} /\ w \notin late
    /\ answer[w] = "ok" /\ kind[w] = "put" => token[w] # 0 /\ mode[w] # "none"
    /\ answer[w] = "ok" /\ kind[w] = "warm" /\ mode[w] # "warm" => mode[w] = "none" /\ token[w] = 0
    /\ answer[w] = "ok" /\ mode[w] = "warm" => token[w] # 0
    /\ w \in late => lock = w /\ pc[w] \in {"claim", "write", "release", "done"}
    /\ w \in late => mode[w] \notin {"retry", "warm"} /\ (mode[w] # "steal" => pc[w] \in {"release", "done"})
    /\ w \in late => (kind[w] = "delete" /\ token[w] = 0) \/ (kind[w] = "put" /\ token[w] # 0)

PcInv == \A w \in Writers : PcOK(w)

\* What is in flight was sent by the writer it names, with that writer's token or after a steal.
WireInv ==
    \A c \in wire :
        /\ pc[c.by] \notin Early
        /\ \/ c.cmd = "claim" /\ c.own = NoOwner
           \/ c.own = Token(token[c.by]) /\ token[c.by] # 0 /\ (c.cmd = "write" => mode[c.by] # "loosen")
           \/ c.cmd = "write" /\ c.own.stolen > 0 /\ req[c.by].frozen /\ kind[c.by] = "put"

\* Tokens are distinct, and the lock holder's is the newest.
TokenInv ==
    /\ \A w \in Writers : token[w] <= seq
    /\ owner.last <= seq
    /\ \A v, w \in Writers : v # w /\ token[v] # 0 => token[v] # token[w]
    /\ \A v, w \in Writers : lock = v /\ token[v] # 0 => token[w] <= token[v]

\* Nothing the fence admits is below the floor.
FloorInv ==
    /\ floor <= seq + 1
    /\ owner # NoOwner /\ owner.stolen = 0 => owner.last >= floor
    /\ \A w \in Writers : Outstanding(w) /\ token[w] # 0 /\ Admissible(w) => token[w] >= floor

\* The registry changes only under the lock, so the holder's view of it stands.
RegOK(v) ==
    lock = v =>
        /\ mode[v] = "tighten" /\ pc[v] = "token" => AtLeast(req[v], registry)
        /\ mode[v] = "loosen" /\ (pc[v] \in {"token", "claim", "persist"} \/ v \in late) =>
              AtLeast(registry, req[v])
        /\ mode[v] = "retry" \/ (mode[v] = "loosen" /\ pc[v] = "write") => registry = req[v]
        /\ answer[v] = "ok" /\ kind[v] = "put" => registry = req[v]
        /\ mode[v] = "warm" => registry = req[v]
        /\ answer[v] = "ok" /\ kind[v] = "warm" /\ mode[v] # "warm" => registry = Open

RegInv == \A v \in Writers : RegOK(v)

\* A holder that can still close the gap is one that saw no new cause of it.
FreshInv ==
    \A v \in Writers :
        lock = v /\ (pc[v] \in {"read", "live", "token"} \/ token[v] # 0) /\ ~gap => v \in fresh

\* The holder whose write landed: the store still has it, and nobody older can get past the fence.
VouchInv ==
    \A v \in Writers :
        lock = v /\ v \in fresh /\ token[v] # 0 /\ Landed(v) =>
            /\ kind[v] = "put" => store = req[v] \/ store.frozen
            /\ kind[v] = "warm" => AtLeast(store, req[v])
            /\ \A w \in Writers : w # v /\ Outstanding(w) /\ token[w] # 0 => ~Admissible(w)

\* Without a gap, the store and every write that may still land are at least as strict as the registry.
CoverInv ==
    ~gap => /\ AtLeast(store, registry)
            /\ \A w \in Writers : Lander(w) /\ Admissible(w) => AtLeast(req[w], registry)

IndInv ==
    /\ TypeOK /\ PcInv /\ WireInv /\ TokenInv /\ FloorInv /\ FenceHolds
    /\ RegInv /\ FreshInv /\ VouchInv /\ CoverInv

-----------------------------------------------------------------------------
(* Types. *)

LEMMA AskedType == Asked \subseteq Control /\ Open \in Asked /\ Frozen \in Asked
  <1>1. Frozen \in Control /\ Open \in Control
    BY DEF Control, Open, Frozen
  <1>2. [frozen : {FALSE}, cap : Caps] \subseteq Control
    BY DEF Control
  <1> QED BY <1>1, <1>2 DEF Asked

\* A claim leaves an owner.
LEMMA ClaimType ==
  ASSUME owner \in Owner, NEW own \in Owner
  PROVE  Claim(own) \in Owner
  BY DEF Claim, Owner, NoOwner

\* A write leaves a control.
LEMMA WrittenType ==
  ASSUME TypeOK, NEW w \in Writers
  PROVE  Written(w) \in Control
  BY AskedType DEF TypeOK, Written, Control

\* One claim script, respectively one write script, keeps the types.
LEMMA RunClaimType ==
  ASSUME TypeOK, NEW own \in Owner, RunClaim(own)
  PROVE  owner' \in Owner /\ floor' \in Nat
  BY ClaimType DEF TypeOK, RunClaim, RaisedFloor, Owner

LEMMA RunWriteType ==
  ASSUME TypeOK, NEW w \in Writers, NEW own \in Owner, RunWrite(w, own)
  PROVE  store' \in Control /\ overrun' \in BOOLEAN
  <1>1. store' \in Control
    BY WrittenType DEF TypeOK, RunWrite
  <1>2. overrun' \in BOOLEAN
    BY DEF RunWrite
  <1> QED BY <1>1, <1>2

LEMMA NoAnswerType ==
  ASSUME TypeOK, NEW w \in Writers, NEW own \in Owner, NEW cmd \in {"claim", "write"}, NoAnswer(w, cmd, own)
  PROVE  owner' \in Owner /\ floor' \in Nat /\ store' \in Control /\ overrun' \in BOOLEAN /\ wire' \subseteq Calls
  <1>1. CASE UNCHANGED <<store, owner, wire, floor, overrun>>
    BY <1>1 DEF TypeOK
  <1>2. CASE RunClaim(own) /\ UNCHANGED <<store, overrun, wire>>
    BY <1>2, RunClaimType DEF TypeOK
  <1>3. CASE RunWrite(w, own) /\ UNCHANGED <<owner, floor, wire>>
    BY <1>3, RunWriteType DEF TypeOK
  <1>4. CASE wire' = wire \cup {Call(w, cmd, own)} /\ UNCHANGED <<store, owner, floor, overrun>>
    <2>1. Call(w, cmd, own) \in Calls
      BY DEF TypeOK, Call, Calls
    <2> QED BY <1>4, <2>1 DEF TypeOK
  <1> QED BY <1>1, <1>2, <1>3, <1>4 DEF NoAnswer

LEMMA ClaimArgType ==
  ASSUME TypeOK, NEW w \in Writers
  PROVE  ClaimArg(w) \in Owner /\ Token(token[w]) \in Owner /\ mine[w] \in Owner
  BY DEF TypeOK, ClaimArg, Token, NoOwner, Owner

\* Every step keeps the types.
LEMMA TypeStep == TypeOK /\ [Next]_vars => TypeOK'
  <1> SUFFICES ASSUME TypeOK, [Next]_vars PROVE TypeOK'
    OBVIOUS
  <1> USE DEF Goto, Answer
  <1>1. ASSUME NEW w \in Writers, Begin(w) PROVE TypeOK'
    BY <1>1, KindsAssumption DEF Begin, TypeOK, stores, history
  <1>2. ASSUME NEW w \in Writers, Acquire(w) PROVE TypeOK'
    BY <1>2 DEF Acquire, TypeOK
  <1>3. ASSUME NEW w \in Writers, NoLock(w) PROVE TypeOK'
    BY <1>3 DEF NoLock, WithoutLock, TypeOK, history
  <1>4. ASSUME NEW w \in Writers, Read(w) PROVE TypeOK'
    <2>1. CASE kind[w] = "put"
      BY <1>4, <2>1 DEF Read, PutReads, DeleteReads, WarmReads, Direction, TypeOK, stores, history
    <2>2. CASE kind[w] = "delete"
      BY <1>4, <2>2 DEF Read, PutReads, DeleteReads, WarmReads, TypeOK, stores, history
    <2>3. CASE kind[w] = "warm" /\ ~Controlled(registry)
      BY <1>4, <2>3 DEF Read, PutReads, DeleteReads, WarmReads, TypeOK, stores, history
    <2>4. CASE kind[w] = "warm" /\ Controlled(registry)
      BY <1>4, <2>4 DEF Read, PutReads, DeleteReads, WarmReads, TypeOK, stores, history
    <2> QED BY <2>1, <2>2, <2>3, <2>4 DEF TypeOK
  <1>5. ASSUME NEW w \in Writers, ReadFails(w) PROVE TypeOK'
    BY <1>5 DEF ReadFails, WithoutLock, TypeOK, history
  <1>6. ASSUME NEW w \in Writers, LiveControl(w) PROVE TypeOK'
    BY <1>6 DEF LiveControl, TypeOK, stores, history
  <1>7. ASSUME NEW w \in Writers, FenceToken(w) PROVE TypeOK'
    BY <1>7 DEF FenceToken, TypeOK, history
  <1>8. ASSUME NEW w \in Writers, TokenFails(w) PROVE TypeOK'
    BY <1>8 DEF TokenFails, TypeOK, stores, history
  <1>9. ASSUME NEW w \in Writers, StillConnected(w) PROVE TypeOK'
    BY <1>9 DEF StillConnected, Return, TypeOK, stores, history
  <1>10. ASSUME NEW w \in Writers, ClaimOwner(w) PROVE TypeOK'
    <2>1. owner' \in Owner /\ floor' \in Nat
      BY <1>10, ClaimArgType, RunClaimType DEF ClaimOwner
    <2> QED BY <1>10, <2>1, ClaimArgType DEF ClaimOwner, Return, TypeOK
  <1>11. ASSUME NEW w \in Writers, ClaimFails(w) PROVE TypeOK'
    <2>1. owner' \in Owner /\ floor' \in Nat /\ store' \in Control /\ overrun' \in BOOLEAN /\ wire' \subseteq Calls
      BY <1>11, ClaimArgType, NoAnswerType DEF ClaimFails
    <2> QED BY <1>11, <2>1 DEF ClaimFails, Again, Return, TypeOK
  <1>12. ASSUME NEW w \in Writers, WriteControl(w) PROVE TypeOK'
    <2>1. store' \in Control /\ overrun' \in BOOLEAN
      BY <1>12, ClaimArgType, RunWriteType DEF WriteControl
    <2> QED BY <1>12, <2>1 DEF WriteControl, RetryOnce, Again, Return, TypeOK
  <1>13. ASSUME NEW w \in Writers, WriteFails(w) PROVE TypeOK'
    <2>1. owner' \in Owner /\ floor' \in Nat /\ store' \in Control /\ overrun' \in BOOLEAN /\ wire' \subseteq Calls
      BY <1>13, ClaimArgType, NoAnswerType DEF WriteFails
    <2> QED BY <1>13, <2>1 DEF WriteFails, RetryOnce, Again, Return, TypeOK
  <1>14. ASSUME NEW w \in Writers, Commit(w) PROVE row' \in BOOLEAN /\ registry' \in Asked
    <2>1. row' \in BOOLEAN
      BY <1>14 DEF Commit
    <2>2. registry' \in Asked
      BY <1>14 DEF Commit, TypeOK
    <2> QED BY <2>1, <2>2
  <1>15. ASSUME NEW w \in Writers, Persist(w) PROVE TypeOK'
    BY <1>14, <1>15 DEF Persist, OpensGap, TypeOK
  <1>16. ASSUME NEW w \in Writers, PersistFails(w) PROVE TypeOK'
    <2>1. row' \in BOOLEAN /\ registry' \in Asked /\ late' \subseteq Writers /\ gap' \in BOOLEAN /\ fresh' \subseteq Writers
      BY <1>14, <1>16 DEF PersistFails, TypeOK
    <2> QED BY <1>16, <2>1 DEF PersistFails, WithoutLock, TypeOK
  <1>17. ASSUME NEW w \in Writers, Release(w) PROVE TypeOK'
    BY <1>17 DEF Release, TypeOK, NoOwner, Owner
  <1>18. ASSUME NEW w \in Writers, SessionEnds(w) PROVE TypeOK'
    BY <1>18 DEF SessionEnds, TypeOK, locals, history
  <1>19. ASSUME NEW w \in Writers, LateCommit(w) PROVE TypeOK'
    BY <1>14, <1>19 DEF LateCommit, OpensGap, TypeOK, locals
  <1>20. ASSUME NEW c \in wire, LateCall(c) PROVE TypeOK'
    <2>1. c.by \in Writers /\ c.own \in Owner
      BY DEF TypeOK, Calls
    <2>2. owner' \in Owner /\ floor' \in Nat /\ store' \in Control /\ overrun' \in BOOLEAN
      BY <1>20, <2>1, RunClaimType, RunWriteType DEF LateCall, TypeOK
    <2> QED BY <1>20, <2>2 DEF LateCall, TypeOK, locals
  <1>21. CASE OwnerExpires
    BY <1>21 DEF OwnerExpires, TypeOK, locals, history, NoOwner, Owner
  <1>22. CASE StoreFlush
    BY <1>22, AskedType DEF StoreFlush, TypeOK, locals, NoOwner, Owner
  <1>23. CASE FirstCall \/ PruneRow
    BY <1>23 DEF FirstCall, PruneRow, TypeOK, locals, history
  <1>24. CASE UNCHANGED vars
    BY <1>24 DEF TypeOK, vars, stores, locals, history
  <1> QED
    BY <1>1, <1>2, <1>3, <1>4, <1>5, <1>6, <1>7, <1>8, <1>9, <1>10, <1>11, <1>12, <1>13, <1>15, <1>16,
       <1>17, <1>18, <1>19, <1>20, <1>21, <1>22, <1>23, <1>24 DEF Next, Step, Environment

-----------------------------------------------------------------------------
(* The control points. *)

\* Every step keeps each writer's locals in step with its control point.
LEMMA PcStep == TypeOK /\ PcInv /\ [Next]_vars => PcInv'
  <1> SUFFICES ASSUME TypeOK, PcInv, [Next]_vars PROVE PcInv'
    OBVIOUS
  <1> USE NobodyAssumption DEF Goto, Answer, Early
  <1>1. ASSUME NEW w \in Writers, Begin(w) PROVE PcInv'
    BY <1>1 DEF Begin, stores, history, TypeOK, PcInv, PcOK
  <1>2. ASSUME NEW w \in Writers, Acquire(w) PROVE PcInv'
    BY <1>2 DEF Acquire, TypeOK, PcInv, PcOK
  <1>3. ASSUME NEW w \in Writers, NoLock(w) PROVE PcInv'
    BY <1>3 DEF NoLock, WithoutLock, history, TypeOK, PcInv, PcOK
  <1>4. ASSUME NEW w \in Writers, Read(w) PROVE PcInv'
    BY <1>4 DEF Read, PutReads, DeleteReads, WarmReads, Direction, stores, history, TypeOK, PcInv, PcOK
  <1>5. ASSUME NEW w \in Writers, ReadFails(w) PROVE PcInv'
    BY <1>5 DEF ReadFails, WithoutLock, history, TypeOK, PcInv, PcOK
  <1>6. ASSUME NEW w \in Writers, LiveControl(w) PROVE PcInv'
    BY <1>6 DEF LiveControl, stores, history, TypeOK, PcInv, PcOK
  <1>7. ASSUME NEW w \in Writers, FenceToken(w) PROVE PcInv'
    BY <1>7 DEF FenceToken, history, TypeOK, PcInv, PcOK
  <1>8. ASSUME NEW w \in Writers, TokenFails(w) PROVE PcInv'
    BY <1>8 DEF TokenFails, stores, history, TypeOK, PcInv, PcOK
  <1>9. ASSUME NEW w \in Writers, StillConnected(w) PROVE PcInv'
    BY <1>9 DEF StillConnected, Return, stores, history, TypeOK, PcInv, PcOK
  <1>10. ASSUME NEW w \in Writers, ClaimOwner(w) PROVE PcInv'
    <2>1. PcOK(w)'
      BY <1>10 DEF ClaimOwner, Return, RunClaim, Claim, ClaimArg, Accepted, Token, NoOwner, Owner, TypeOK, PcInv, PcOK
    <2>2. ASSUME NEW v \in Writers, v # w PROVE PcOK(v)'
      BY <1>10, <2>2 DEF ClaimOwner, Return, TypeOK, PcInv, PcOK
    <2> QED BY <2>1, <2>2 DEF PcInv
  <1>11. ASSUME NEW w \in Writers, ClaimFails(w) PROVE PcInv'
    <2>1. PcOK(w)'
      BY <1>11 DEF ClaimFails, Again, Return, TypeOK, PcInv, PcOK
    <2>2. ASSUME NEW v \in Writers, v # w PROVE PcOK(v)'
      BY <1>11, <2>2 DEF ClaimFails, Again, Return, TypeOK, PcInv, PcOK
    <2> QED BY <2>1, <2>2 DEF PcInv
  <1>12. ASSUME NEW w \in Writers, WriteControl(w) PROVE PcInv'
    <2>1. PcOK(w)'
      BY <1>12 DEF WriteControl, RetryOnce, Again, Return, TypeOK, PcInv, PcOK
    <2>2. ASSUME NEW v \in Writers, v # w PROVE PcOK(v)'
      BY <1>12, <2>2 DEF WriteControl, RetryOnce, Again, Return, TypeOK, PcInv, PcOK
    <2> QED BY <2>1, <2>2 DEF PcInv
  <1>13. ASSUME NEW w \in Writers, WriteFails(w) PROVE PcInv'
    <2>1. PcOK(w)'
      BY <1>13 DEF WriteFails, RetryOnce, Again, Return, TypeOK, PcInv, PcOK
    <2>2. ASSUME NEW v \in Writers, v # w PROVE PcOK(v)'
      BY <1>13, <2>2 DEF WriteFails, RetryOnce, Again, Return, TypeOK, PcInv, PcOK
    <2> QED BY <2>1, <2>2 DEF PcInv
  <1>14. ASSUME NEW w \in Writers, Persist(w) PROVE PcInv'
    <2>1. PcOK(w)'
      BY <1>14 DEF Persist, TypeOK, PcInv, PcOK
    <2>2. ASSUME NEW v \in Writers, v # w PROVE PcOK(v)'
      BY <1>14, <2>2 DEF Persist, TypeOK, PcInv, PcOK
    <2> QED BY <2>1, <2>2 DEF PcInv
  <1>15. ASSUME NEW w \in Writers, PersistFails(w) PROVE PcInv'
    BY <1>15 DEF PersistFails, WithoutLock, TypeOK, PcInv, PcOK
  <1>16. ASSUME NEW w \in Writers, Release(w) PROVE PcInv'
    BY <1>16 DEF Release, TypeOK, PcInv, PcOK
  <1>17. ASSUME NEW w \in Writers, SessionEnds(w) PROVE PcInv'
    BY <1>17 DEF SessionEnds, locals, history, TypeOK, PcInv, PcOK
  <1>18. ASSUME NEW w \in Writers, LateCommit(w) PROVE PcInv'
    BY <1>18 DEF LateCommit, locals, TypeOK, PcInv, PcOK
  <1>19. ASSUME NEW c \in wire, LateCall(c) PROVE PcInv'
    BY <1>19 DEF LateCall, PcInv, PcOK, locals
  <1>20. CASE OwnerExpires \/ StoreFlush \/ FirstCall \/ PruneRow \/ UNCHANGED vars
    BY <1>20 DEF OwnerExpires, StoreFlush, FirstCall, PruneRow, PcInv, PcOK, vars, stores, locals, history
  <1> QED
    BY <1>1, <1>2, <1>3, <1>4, <1>5, <1>6, <1>7, <1>8, <1>9, <1>10, <1>11, <1>12, <1>13, <1>14, <1>15, <1>16,
       <1>17, <1>18, <1>19, <1>20 DEF Next, Step, Environment

\* Past its token a writer keeps its request and token, and never becomes a loosening again.
Settled(v) ==
    pc[v] \notin Early =>
        /\ pc'[v] \notin Early
        /\ token'[v] = token[v] /\ req'[v] = req[v] /\ kind'[v] = kind[v]
        /\ mode'[v] = mode[v] \/ (mode[v] # "steal" /\ mode'[v] \in {"steal", "retry"})
        /\ pc[v] = "done" => pc'[v] = "done"

LEMMA SettledStep ==
  ASSUME TypeOK, PcInv, [Next]_vars, NEW v \in Writers
  PROVE  Settled(v)
  <1> USE DEF Goto, Answer, Early, Settled, TypeOK
  <1>1. ASSUME NEW w \in Writers, Begin(w) PROVE Settled(v)
    BY <1>1 DEF Begin, stores, history
  <1>2. ASSUME NEW w \in Writers, Acquire(w) PROVE Settled(v)
    BY <1>2 DEF Acquire
  <1>3. ASSUME NEW w \in Writers, NoLock(w) PROVE Settled(v)
    BY <1>3 DEF NoLock, WithoutLock, history, PcInv, PcOK
  <1>4. ASSUME NEW w \in Writers, Read(w) PROVE Settled(v)
    BY <1>4 DEF Read, PutReads, DeleteReads, WarmReads, stores, history
  <1>5. ASSUME NEW w \in Writers, ReadFails(w) PROVE Settled(v)
    BY <1>5 DEF ReadFails, WithoutLock, history, PcInv, PcOK
  <1>6. ASSUME NEW w \in Writers, LiveControl(w) PROVE Settled(v)
    BY <1>6 DEF LiveControl, stores, history
  <1>7. ASSUME NEW w \in Writers, FenceToken(w) PROVE Settled(v)
    BY <1>7 DEF FenceToken, history
  <1>8. ASSUME NEW w \in Writers, TokenFails(w) PROVE Settled(v)
    BY <1>8 DEF TokenFails, stores, history
  <1>9. ASSUME NEW w \in Writers, StillConnected(w) PROVE Settled(v)
    BY <1>9 DEF StillConnected, Return, stores, history
  <1>10. ASSUME NEW w \in Writers, ClaimOwner(w) PROVE Settled(v)
    BY <1>10 DEF ClaimOwner, Return
  <1>11. ASSUME NEW w \in Writers, ClaimFails(w) PROVE Settled(v)
    BY <1>11 DEF ClaimFails, Again, Return
  <1>12. ASSUME NEW w \in Writers, WriteControl(w) PROVE Settled(v)
    BY <1>12 DEF WriteControl, RetryOnce, Again, Return
  <1>13. ASSUME NEW w \in Writers, WriteFails(w) PROVE Settled(v)
    BY <1>13 DEF WriteFails, RetryOnce, Again, Return
  <1>14. ASSUME NEW w \in Writers, Persist(w) PROVE Settled(v)
    BY <1>14 DEF Persist
  <1>15. ASSUME NEW w \in Writers, PersistFails(w) PROVE Settled(v)
    BY <1>15 DEF PersistFails, WithoutLock, PcInv, PcOK
  <1>16. ASSUME NEW w \in Writers, Release(w) PROVE Settled(v)
    BY <1>16 DEF Release
  <1>17. ASSUME NEW w \in Writers, SessionEnds(w) PROVE Settled(v)
    BY <1>17 DEF SessionEnds, locals, history
  <1>18. ASSUME NEW w \in Writers, LateCommit(w) PROVE Settled(v)
    BY <1>18 DEF LateCommit, locals
  <1>19. ASSUME NEW c \in wire, LateCall(c) PROVE Settled(v)
    BY <1>19 DEF LateCall, locals
  <1>20. CASE OwnerExpires \/ StoreFlush \/ FirstCall \/ PruneRow \/ UNCHANGED vars
    BY <1>20 DEF OwnerExpires, StoreFlush, FirstCall, PruneRow, vars, stores, locals, history
  <1> HIDE DEF Settled
  <1> QED
    BY <1>1, <1>2, <1>3, <1>4, <1>5, <1>6, <1>7, <1>8, <1>9, <1>10, <1>11, <1>12, <1>13, <1>14, <1>15, <1>16,
       <1>17, <1>18, <1>19, <1>20 DEF Next, Step, Environment

\* What is in flight stays what its writer sent.
LEMMA WireStep == TypeOK /\ PcInv /\ WireInv /\ [Next]_vars => WireInv'
  <1> SUFFICES ASSUME TypeOK, PcInv, WireInv, [Next]_vars PROVE WireInv'
    OBVIOUS
  <1> DEFINE Sent(c) ==
        /\ pc[c.by] \notin Early
        /\ \/ c.cmd = "claim" /\ c.own = NoOwner
           \/ c.own = Token(token[c.by]) /\ token[c.by] # 0 /\ (c.cmd = "write" => mode[c.by] # "loosen")
           \/ c.cmd = "write" /\ c.own.stolen > 0 /\ req[c.by].frozen /\ kind[c.by] = "put"
  <1>1. ASSUME NEW c \in wire PROVE Sent(c)'
    <2>1. c.by \in Writers /\ Sent(c)
      BY DEF TypeOK, Calls, WireInv
    <2> QED BY <2>1, SettledStep DEF Settled, Token
  <1>2. ASSUME NEW w \in Writers, ClaimFails(w) PROVE WireInv'
    <2>1. wire' = wire \/ wire' = wire \cup {Call(w, "claim", ClaimArg(w))}
      BY <1>2 DEF ClaimFails, NoAnswer
    <2>2. ASSUME NEW c, c = Call(w, "claim", ClaimArg(w)) PROVE Sent(c)'
      <3>1. pc[w] = "claim" /\ pc'[w] \notin Early /\ token'[w] = token[w]
        BY <1>2, SettledStep DEF ClaimFails, Settled, Early
      <3> QED BY <2>2, <3>1 DEF Call, ClaimArg, PcInv, PcOK, Token
    <2> QED BY <1>1, <2>1, <2>2 DEF WireInv
  <1>3. ASSUME NEW w \in Writers, WriteFails(w) PROVE WireInv'
    <2>1. wire' = wire \/ wire' = wire \cup {Call(w, "write", mine[w])}
      BY <1>3 DEF WriteFails, NoAnswer
    <2>2. ASSUME NEW c, c = Call(w, "write", mine[w]) PROVE Sent(c)'
      <3>1. /\ pc[w] = "write" /\ pc'[w] \notin Early /\ token'[w] = token[w]
            /\ req'[w] = req[w] /\ kind'[w] = kind[w]
        BY <1>3, SettledStep DEF WriteFails, Settled, Early
      <3>2. mode'[w] # "loosen"
        BY <1>3 DEF WriteFails, RetryOnce, TypeOK
      <3> QED BY <2>2, <3>1, <3>2 DEF Call, PcInv, PcOK, Token
    <2> QED BY <1>1, <2>1, <2>2 DEF WireInv
  <1>4. ASSUME NEW c \in wire, LateCall(c) PROVE WireInv'
    BY <1>1, <1>4 DEF LateCall, WireInv
  <1>5. CASE wire' = wire
    BY <1>1, <1>5 DEF WireInv
  <1>6. wire' = wire \/ (\E w \in Writers : ClaimFails(w) \/ WriteFails(w)) \/ (\E c \in wire : LateCall(c))
    BY DEF Next, Step, Environment, Begin, Acquire, NoLock, Read, PutReads, DeleteReads, WarmReads, ReadFails, LiveControl, FenceToken, TokenFails,
           StillConnected, ClaimOwner, WriteControl, Persist, PersistFails, Release, SessionEnds, LateCommit,
           OwnerExpires, StoreFlush, FirstCall, PruneRow, vars, stores
  <1> QED BY <1>2, <1>3, <1>4, <1>5, <1>6

-----------------------------------------------------------------------------
(* The fence. *)

\* What a step can do to the fence and the tokens.
FenceEffect ==
    \/ UNCHANGED <<owner, floor, seq, token>>
    \/ \E w \in Writers : FenceToken(w)
    \/ RunClaim(NoOwner) /\ UNCHANGED <<seq, token>>
    \/ \E w \in Writers : RunClaim(Token(token[w])) /\ token[w] # 0 /\ Outstanding(w) /\ UNCHANGED <<seq, token>>
    \/ OwnerExpires /\ UNCHANGED <<floor, seq, token>>
    \/ StoreFlush /\ UNCHANGED <<seq, token>>

LEMMA FenceEffects ==
  ASSUME TypeOK, PcInv, WireInv, [Next]_vars
  PROVE  FenceEffect
  <1>1. ASSUME NEW w \in Writers, pc[w] = "claim", RunClaim(ClaimArg(w)), UNCHANGED <<seq, token>>
        PROVE  FenceEffect
    <2>1. CASE mode[w] = "steal"
      BY <1>1, <2>1 DEF ClaimArg, FenceEffect
    <2>2. CASE mode[w] # "steal"
      BY <1>1, <2>2 DEF ClaimArg, FenceEffect, Outstanding, PcInv, PcOK
    <2> QED BY <2>1, <2>2
  <1>2. ASSUME NEW w \in Writers, ClaimOwner(w) PROVE FenceEffect
    BY <1>1, <1>2 DEF ClaimOwner
  <1>3. ASSUME NEW w \in Writers, ClaimFails(w) PROVE FenceEffect
    <2>1. UNCHANGED <<owner, floor>> \/ RunClaim(ClaimArg(w))
      BY <1>3 DEF ClaimFails, NoAnswer
    <2> QED BY <1>1, <1>3, <2>1 DEF ClaimFails, FenceEffect
  <1>4. ASSUME NEW w \in Writers, WriteFails(w) PROVE FenceEffect
    BY <1>4 DEF WriteFails, NoAnswer, FenceEffect
  <1>5. ASSUME NEW c \in wire, LateCall(c) PROVE FenceEffect
    <2>1. UNCHANGED <<seq, token>>
      BY <1>5 DEF LateCall, locals
    <2>2. CASE UNCHANGED <<owner, floor>>
      BY <2>1, <2>2 DEF FenceEffect
    <2>3. CASE c.cmd = "claim" /\ RunClaim(c.own)
      <3>1. c.by \in Writers /\ Outstanding(c.by)
        BY DEF TypeOK, Calls, Outstanding
      <3>2. c.own = NoOwner \/ (c.own = Token(token[c.by]) /\ token[c.by] # 0)
        BY <2>3 DEF WireInv
      <3> QED BY <2>1, <2>3, <3>1, <3>2 DEF FenceEffect
    <2> QED BY <1>5, <2>2, <2>3 DEF LateCall
  <1>6. CASE OwnerExpires \/ StoreFlush
    BY <1>6 DEF OwnerExpires, StoreFlush, FenceEffect, locals, history
  <1>7. ASSUME NEW w \in Writers, FenceToken(w) PROVE FenceEffect
    BY <1>7 DEF FenceEffect
  <1>8. ASSUME NEW w \in Writers,
               \/ Begin(w) \/ Acquire(w) \/ NoLock(w) \/ Read(w) \/ ReadFails(w) \/ LiveControl(w) \/ TokenFails(w)
               \/ StillConnected(w) \/ WriteControl(w) \/ Persist(w) \/ PersistFails(w) \/ Release(w)
               \/ SessionEnds(w) \/ LateCommit(w)
        PROVE  UNCHANGED <<owner, floor, seq, token>>
    BY <1>8 DEF Begin, Acquire, NoLock, Read, PutReads, DeleteReads, WarmReads, ReadFails, LiveControl, TokenFails, StillConnected, WriteControl,
                Persist, PersistFails, Release, SessionEnds, LateCommit, stores, locals, history
  <1>9. CASE FirstCall \/ PruneRow \/ UNCHANGED vars
    BY <1>9 DEF FirstCall, PruneRow, vars, stores, locals, history, FenceEffect
  <1>10. CASE UNCHANGED <<owner, floor, seq, token>>
    BY <1>10 DEF FenceEffect
  <1> QED
    BY <1>2, <1>3, <1>4, <1>5, <1>6, <1>7, <1>8, <1>9, <1>10 DEF Next, Step, Environment

\* A writer comes to owe a store call only by taking its token.
LEMMA OutstandingStep ==
  ASSUME TypeOK, PcInv, WireInv, [Next]_vars, NEW v \in Writers, Outstanding(v)', token'[v] # 0, token[v] # 0
  PROVE  Outstanding(v)
  <1>1. pc[v] \notin Early /\ Settled(v)
    BY SettledStep DEF PcInv, PcOK
  <1>2. CASE pc[v] # "done"
    BY <1>1, <1>2 DEF Outstanding, Early
  <1>3. CASE pc[v] = "done"
    <2>1. PICK c \in wire' : c.by = v
      BY <1>1, <1>3 DEF Outstanding, Settled
    <2>2. ASSUME NEW w \in Writers, ClaimFails(w) \/ WriteFails(w) PROVE c \in wire
      BY <1>3, <2>1, <2>2 DEF ClaimFails, WriteFails, NoAnswer, Call
    <2>3. wire' \subseteq wire \/ \E w \in Writers : ClaimFails(w) \/ WriteFails(w)
      BY DEF Next, Step, Environment, Begin, Acquire, NoLock, Read, PutReads, DeleteReads, WarmReads, ReadFails, LiveControl, FenceToken, TokenFails,
             StillConnected, ClaimOwner, WriteControl, Persist, PersistFails, Release, SessionEnds, LateCommit, LateCall,
             OwnerExpires, StoreFlush, FirstCall, PruneRow, vars, stores
    <2> QED BY <2>1, <2>2, <2>3 DEF Outstanding
  <1> QED BY <1>2, <1>3

\* The lock is taken only by a writer that waits for it.
LEMMA LockEffects ==
  ASSUME [Next]_vars
  PROVE  \/ lock' = lock
         \/ lock' = Nobody
         \/ \E w \in Writers : lock = Nobody /\ lock' = w /\ (Acquire(w) \/ NoLock(w))
  <1>1. ASSUME NEW w \in Writers, Step(w), ~Acquire(w), ~NoLock(w) PROVE lock' = lock \/ lock' = Nobody
    BY <1>1 DEF Step, Begin, Read, PutReads, DeleteReads, WarmReads, ReadFails, LiveControl, FenceToken, TokenFails, StillConnected, ClaimOwner,
                ClaimFails, WriteControl, WriteFails, Persist, PersistFails, Release, stores
  <1>2. ASSUME NEW w \in Writers, Acquire(w) \/ NoLock(w) PROVE lock' = lock \/ (lock = Nobody /\ lock' = w)
    BY <1>2 DEF Acquire, NoLock
  <1>3. CASE Environment
    BY <1>3 DEF Environment, SessionEnds, LateCommit, LateCall, OwnerExpires, StoreFlush, FirstCall, PruneRow
  <1>4. CASE UNCHANGED vars
    BY <1>4 DEF vars, stores
  <1> QED BY <1>1, <1>2, <1>3, <1>4 DEF Next

\* A holder with a token already held the lock when it took it.
LEMMA HolderBefore ==
  ASSUME TypeOK, PcInv, [Next]_vars, NEW v \in Writers, lock' = v, token'[v] # 0
  PROVE  lock = v
  <1>1. ASSUME NEW w \in Writers, Acquire(w) \/ NoLock(w) PROVE token'[w] = 0
    BY <1>1 DEF Acquire, NoLock, PcInv, PcOK, Early
  <1> QED BY <1>1, LockEffects, NobodyAssumption

LEMMA TokenStep == TypeOK /\ PcInv /\ WireInv /\ TokenInv /\ [Next]_vars => TokenInv'
  <1> SUFFICES ASSUME TypeOK, PcInv, WireInv, TokenInv, [Next]_vars PROVE TokenInv'
    OBVIOUS
  <1>1. TypeOK' /\ FenceEffect
    BY TypeStep, FenceEffects
  <1>2. ASSUME NEW w \in Writers, FenceToken(w) PROVE TokenInv'
    BY <1>2, NobodyAssumption DEF FenceToken, TypeOK, TokenInv, Owner
  <1>3. CASE UNCHANGED <<seq, token>>
    <2>1. owner'.last <= seq
      <3>1. CASE owner' = owner
        BY <3>1 DEF TokenInv
      <3>2. CASE RunClaim(NoOwner)
        BY <3>2 DEF RunClaim, Claim, NoOwner, TypeOK, Owner, TokenInv
      <3>3. ASSUME NEW w \in Writers, RunClaim(Token(token[w])) PROVE owner'.last <= seq
        BY <3>3 DEF RunClaim, Claim, Token, NoOwner, TypeOK, Owner, TokenInv
      <3>4. CASE owner' = NoOwner
        BY <3>4 DEF NoOwner, TypeOK
      <3> QED BY <1>1, <1>3, <3>1, <3>2, <3>3, <3>4 DEF FenceEffect, FenceToken, OwnerExpires, StoreFlush
    <2>2. ASSUME NEW v \in Writers, NEW w \in Writers, lock' = v, token'[v] # 0 PROVE token'[w] <= token'[v]
      BY <1>3, <2>2, HolderBefore DEF TokenInv
    <2> QED BY <1>3, <2>1, <2>2 DEF TokenInv
  <1> QED BY <1>1, <1>2, <1>3 DEF FenceEffect

\* No claim lets in what was fenced off before, and the floor rises only to what is let in.
LEMMA FloorStep == TypeOK /\ PcInv /\ WireInv /\ TokenInv /\ FloorInv /\ [Next]_vars => FloorInv'
  <1> SUFFICES ASSUME TypeOK, PcInv, WireInv, TokenInv, FloorInv, [Next]_vars PROVE FloorInv'
    OBVIOUS
  <1>1. TypeOK' /\ FenceEffect
    BY TypeStep, FenceEffects
  <1>2. ASSUME NEW v \in Writers, Outstanding(v)', token'[v] # 0, token[v] # 0 PROVE Outstanding(v)
    BY <1>2, OutstandingStep
  <1>3. CASE UNCHANGED <<owner, floor, seq, token>>
    BY <1>2, <1>3 DEF FloorInv, Admissible
  <1>4. ASSUME NEW w \in Writers, FenceToken(w) PROVE FloorInv'
    <2>1. UNCHANGED <<owner, floor>> /\ seq' = seq + 1 /\ token' = [token EXCEPT ![w] = seq + 1]
      BY <1>4 DEF FenceToken, history
    <2>2. ASSUME NEW v \in Writers, Outstanding(v)', token'[v] # 0, Admissible(v)' PROVE token'[v] >= floor'
      BY <1>2, <2>1, <2>2 DEF FloorInv, TypeOK, Admissible
    <2> QED BY <2>1, <2>2 DEF FloorInv, TypeOK
  <1>5. CASE RunClaim(NoOwner) /\ UNCHANGED <<seq, token>>
    <2>1. owner' = [last |-> owner.last, stolen |-> owner.stolen + 1]
      BY <1>5 DEF RunClaim, Claim, TypeOK, Owner
    <2>2. floor' = IF owner.last + 1 > floor THEN owner.last + 1 ELSE floor
      BY <1>5 DEF RunClaim, RaisedFloor
    <2>3. ASSUME NEW v \in Writers, Outstanding(v)', token'[v] # 0, Admissible(v)' PROVE token'[v] >= floor'
      <3>1. Outstanding(v) /\ token[v] # 0 /\ token[v] > owner.last
        BY <1>2, <1>5, <2>1, <2>3 DEF Admissible, TypeOK, Owner
      <3> QED BY <1>5, <2>2, <3>1 DEF FloorInv, Admissible, TypeOK, Owner
    <2> QED BY <1>5, <2>1, <2>2, <2>3 DEF FloorInv, TokenInv, TypeOK, Owner
  <1>6. ASSUME NEW w \in Writers, RunClaim(Token(token[w])), token[w] # 0, Outstanding(w), UNCHANGED <<seq, token>>
        PROVE  FloorInv'
    <2>1. CASE ~Admissible(w)
      <3>1. owner' = owner /\ floor' = floor
        <4>1. Token(token[w]) # NoOwner /\ Claim(Token(token[w])) = owner /\ owner # Token(token[w])
          <5>1. Token(token[w]) # NoOwner /\ owner # Token(token[w])
            BY <1>6, <2>1 DEF Admissible, Token, NoOwner
          <5>2. token[w] < owner.last \/ (token[w] = owner.last /\ owner.stolen > 0)
            <6>1. token[w] \in Nat /\ owner.last \in Nat /\ owner.stolen \in Nat
              BY DEF TypeOK, Owner
            <6> QED BY <2>1, <6>1 DEF Admissible
          <5> QED BY <5>1, <5>2 DEF Claim, Token
        <4> QED BY <1>6, <4>1 DEF RunClaim, RaisedFloor, Accepted, TypeOK
      <3> QED BY <1>3, <1>6, <3>1
    <2>2. CASE Admissible(w)
      <3>1. owner' = Token(token[w]) /\ floor' = token[w]
        <4>1. token[w] >= floor
          BY <1>6, <2>2 DEF FloorInv
        <4>2. Token(token[w]) # NoOwner /\ Claim(Token(token[w])) = Token(token[w])
          BY <1>6, <2>2 DEF Claim, Admissible, Token, NoOwner, TypeOK, Owner
        <4> QED BY <1>6, <4>1, <4>2 DEF RunClaim, RaisedFloor, Accepted, Token, TypeOK
      <3>2. ASSUME NEW v \in Writers, Outstanding(v)', token'[v] # 0, Admissible(v)' PROVE token'[v] >= floor'
        BY <1>6, <3>1, <3>2 DEF Admissible, Token, TypeOK
      <3> QED BY <1>6, <3>1, <3>2 DEF FloorInv, TokenInv, Token, TypeOK
    <2> QED BY <2>1, <2>2
  <1>7. CASE OwnerExpires /\ UNCHANGED <<floor, seq, token>>
    <2>1. ASSUME NEW v \in Writers, Outstanding(v)', token'[v] # 0 PROVE token'[v] >= floor'
      <3>1. Outstanding(v) /\ token[v] > owner.last
        BY <1>2, <1>7, <2>1 DEF OwnerExpires
      <3> QED BY <1>7, <2>1, <3>1 DEF FloorInv, Admissible
    <2> QED BY <1>7, <2>1 DEF FloorInv, OwnerExpires
  <1>8. CASE StoreFlush /\ UNCHANGED <<seq, token>>
    BY <1>1, <1>8 DEF FloorInv, StoreFlush, TypeOK
  <1> QED BY <1>1, <1>3, <1>4, <1>5, <1>6, <1>7, <1>8 DEF FenceEffect

\* Whose write a store write script is.
OwnWrite(w, own) == own = Token(token[w]) /\ token[w] # 0 /\ Lander(w)
StolenWrite(w, own) == own.stolen > 0 /\ req[w].frozen /\ kind[w] = "put"

\* What a step can do to the store.
StoreEffect ==
    \/ UNCHANGED <<store, overrun>>
    \/ \E w \in Writers, own \in Owner :
          /\ RunWrite(w, own)
          /\ OwnWrite(w, own) \/ StolenWrite(w, own)
          /\ UNCHANGED <<owner, floor, token, registry, gap, fresh, lock>>
    \/ StoreFlush

LEMMA StoreEffects ==
  ASSUME TypeOK, PcInv, WireInv, [Next]_vars
  PROVE  StoreEffect
  <1>1. ASSUME NEW w \in Writers, pc[w] = "write" PROVE mine[w] \in Owner /\ (OwnWrite(w, mine[w]) \/ StolenWrite(w, mine[w]))
    <2>1. mine[w] \in Owner
      BY DEF TypeOK
    <2>2. CASE mode[w] = "steal"
      BY <1>1, <2>1, <2>2 DEF PcInv, PcOK, StolenWrite
    <2>3. CASE mode[w] # "steal"
      BY <1>1, <2>1, <2>3 DEF PcInv, PcOK, OwnWrite, Lander, Outstanding
    <2> QED BY <2>1, <2>2, <2>3
  <1>2. ASSUME NEW w \in Writers, WriteControl(w) PROVE StoreEffect
    BY <1>1, <1>2 DEF WriteControl, StoreEffect
  <1>3. ASSUME NEW w \in Writers, WriteFails(w) PROVE StoreEffect
    <2>1. \/ UNCHANGED <<store, overrun>>
          \/ RunWrite(w, mine[w]) /\ UNCHANGED <<owner, floor>>
      BY <1>3 DEF WriteFails, NoAnswer
    <2> QED BY <1>1, <1>3, <2>1 DEF WriteFails, StoreEffect
  <1>4. ASSUME NEW c \in wire, LateCall(c) PROVE StoreEffect
    <2>1. CASE UNCHANGED <<store, overrun>>
      BY <2>1 DEF StoreEffect
    <2>2. CASE c.cmd = "write" /\ RunWrite(c.by, c.own) /\ UNCHANGED <<owner, floor>>
      <3>1. c.by \in Writers /\ c.own \in Owner
        BY DEF TypeOK, Calls
      <3>2. OwnWrite(c.by, c.own) \/ StolenWrite(c.by, c.own)
        BY <2>2, <3>1 DEF WireInv, OwnWrite, StolenWrite, Lander, Outstanding
      <3>3. UNCHANGED <<token, registry, gap, fresh, lock>>
        BY <1>4 DEF LateCall, locals
      <3> QED BY <2>2, <3>1, <3>2, <3>3 DEF StoreEffect
    <2> QED BY <1>4, <2>1, <2>2 DEF LateCall
  <1>5. ASSUME NEW w \in Writers,
               \/ Begin(w) \/ Acquire(w) \/ NoLock(w) \/ Read(w) \/ ReadFails(w) \/ LiveControl(w) \/ TokenFails(w)
               \/ FenceToken(w) \/ StillConnected(w) \/ ClaimOwner(w) \/ Persist(w) \/ PersistFails(w) \/ Release(w)
               \/ SessionEnds(w) \/ LateCommit(w)
        PROVE  UNCHANGED <<store, overrun>>
    BY <1>5 DEF Begin, Acquire, NoLock, Read, PutReads, DeleteReads, WarmReads, ReadFails, LiveControl, TokenFails, FenceToken, StillConnected, ClaimOwner,
                Persist, PersistFails, Release, SessionEnds, LateCommit, stores, history
  <1>6. ASSUME NEW w \in Writers, ClaimFails(w) PROVE UNCHANGED <<store, overrun>>
    BY <1>6 DEF ClaimFails, NoAnswer
  <1>7. CASE OwnerExpires \/ FirstCall \/ PruneRow \/ UNCHANGED vars
    BY <1>7 DEF OwnerExpires, FirstCall, PruneRow, vars, stores, history, StoreEffect
  <1>8. CASE StoreFlush
    BY <1>8 DEF StoreEffect
  <1>9. CASE UNCHANGED <<store, overrun>>
    BY <1>9 DEF StoreEffect
  <1> QED BY <1>2, <1>3, <1>4, <1>5, <1>6, <1>7, <1>8, <1>9 DEF Next, Step, Environment

\* No write lands from below the floor.
LEMMA FenceStep == TypeOK /\ PcInv /\ WireInv /\ FloorInv /\ FenceHolds /\ [Next]_vars => FenceHolds'
  <1> SUFFICES ASSUME TypeOK, PcInv, WireInv, FloorInv, FenceHolds, [Next]_vars PROVE FenceHolds'
    OBVIOUS
  <1>1. StoreEffect
    BY StoreEffects
  <1>2. ASSUME NEW w \in Writers, NEW own \in Owner, RunWrite(w, own), OwnWrite(w, own) \/ StolenWrite(w, own)
        PROVE  ~overrun'
    <2>1. own # NoOwner
      BY <1>2 DEF OwnWrite, StolenWrite, Token, NoOwner
    <2>2. ASSUME owner = own, own.stolen = 0, own.last < floor PROVE FALSE
      BY <2>1, <2>2 DEF FloorInv, TypeOK, Owner
    <2> QED BY <1>2, <2>2 DEF RunWrite, FenceHolds
  <1> QED BY <1>1, <1>2 DEF StoreEffect, StoreFlush, FenceHolds

-----------------------------------------------------------------------------
(* Strictness is a total preorder. *)

LEMMA ControlFields == ASSUME NEW c \in Control PROVE c.frozen \in BOOLEAN /\ c.cap \in Nat
  <1>1. c.frozen \in BOOLEAN
    BY DEF Control
  <1>2. c.cap \in Caps \cup {NoCap}
    BY DEF Control
  <1>3. \A n \in Caps \cup {NoCap} : n \in Nat
    BY CapsAssumption DEF NoCap
  <1> QED BY <1>1, <1>2, <1>3

LEMMA AtLeastReflexive == ASSUME NEW c \in Control PROVE AtLeast(c, c)
  BY ControlFields DEF AtLeast, IsTightening, NoCap

LEMMA AtLeastTotal == ASSUME NEW c \in Control, NEW d \in Control, ~AtLeast(c, d) PROVE AtLeast(d, c)
  BY ControlFields DEF AtLeast, IsTightening, NoCap

LEMMA AtLeastTransitive ==
  ASSUME NEW c \in Control, NEW d \in Control, NEW e \in Control, AtLeast(c, d), AtLeast(d, e)
  PROVE  AtLeast(c, e)
  <1>1. c.cap \in Nat /\ d.cap \in Nat /\ e.cap \in Nat
    BY ControlFields
  <1> QED BY <1>1 DEF AtLeast, IsTightening, NoCap

-----------------------------------------------------------------------------
(* The registry under the lock. *)

\* A step of w leaves the locals of every other writer alone.
LEMMA OthersKeep ==
  ASSUME TypeOK, NEW w \in Writers, NEW v \in Writers, v # w, Step(w)
  PROVE  /\ pc'[v] = pc[v] /\ kind'[v] = kind[v] /\ req'[v] = req[v] /\ mode'[v] = mode[v] /\ token'[v] = token[v]
         /\ outcome'[v] = outcome[v] /\ answer'[v] = answer[v] /\ mine'[v] = mine[v]
         /\ v \in late' <=> v \in late
  <1> USE DEF TypeOK, Goto, Answer
  <1>1. CASE Begin(w)
    BY <1>1 DEF Begin, stores, history
  <1>2. CASE Acquire(w)
    BY <1>2 DEF Acquire
  <1>3. CASE NoLock(w)
    BY <1>3 DEF NoLock, WithoutLock, history
  <1>4. CASE Read(w)
    BY <1>4 DEF Read, PutReads, DeleteReads, WarmReads, stores, history
  <1>5. CASE ReadFails(w)
    BY <1>5 DEF ReadFails, WithoutLock, history
  <1>6. CASE LiveControl(w)
    BY <1>6 DEF LiveControl, stores, history
  <1>7. CASE FenceToken(w)
    BY <1>7 DEF FenceToken, history
  <1>8. CASE TokenFails(w)
    BY <1>8 DEF TokenFails, stores, history
  <1>9. CASE StillConnected(w)
    BY <1>9 DEF StillConnected, Return, stores, history
  <1>10. CASE ClaimOwner(w)
    BY <1>10 DEF ClaimOwner, Return
  <1>11. CASE ClaimFails(w)
    BY <1>11 DEF ClaimFails, Again, Return
  <1>12. CASE WriteControl(w)
    BY <1>12 DEF WriteControl, RetryOnce, Again, Return
  <1>13. CASE WriteFails(w)
    BY <1>13 DEF WriteFails, RetryOnce, Again, Return
  <1>14. CASE Persist(w)
    BY <1>14 DEF Persist
  <1>15. CASE PersistFails(w)
    BY <1>15 DEF PersistFails, WithoutLock
  <1>16. CASE Release(w)
    BY <1>16 DEF Release
  <1> HIDE DEF TypeOK
  <1> QED BY <1>1, <1>2, <1>3, <1>4, <1>5, <1>6, <1>7, <1>8, <1>9, <1>10, <1>11, <1>12, <1>13, <1>14, <1>15, <1>16 DEF Step

\* The registry is written by the lock holder only.
LEMMA RegistryEffects ==
  ASSUME TypeOK, [Next]_vars, registry' # registry
  PROVE  lock \in Writers /\ lock' = lock /\ (Persist(lock) \/ PersistFails(lock) \/ LateCommit(lock)) /\ Commit(lock)
  <1>1. ASSUME NEW w \in Writers, Persist(w) \/ PersistFails(w) \/ LateCommit(w)
        PROVE  lock = w /\ lock' = w /\ Commit(w)
    BY <1>1 DEF Persist, PersistFails, LateCommit
  <1>2. \E w \in Writers : Persist(w) \/ PersistFails(w) \/ LateCommit(w)
    BY DEF Next, Step, Environment, Begin, Acquire, NoLock, Read, PutReads, DeleteReads, WarmReads, ReadFails, LiveControl, FenceToken, TokenFails,
           StillConnected, ClaimOwner, ClaimFails, WriteControl, WriteFails, Release, SessionEnds, LateCall,
           OwnerExpires, StoreFlush, FirstCall, PruneRow, vars, stores
  <1> QED BY <1>1, <1>2

\* The registry is what the lock holder last saw in it.
LEMMA RegStep == TypeOK /\ PcInv /\ RegInv /\ [Next]_vars => RegInv'
  <1> SUFFICES ASSUME TypeOK, PcInv, RegInv, [Next]_vars PROVE RegInv'
    OBVIOUS
  <1>1. ASSUME NEW w \in Writers, NEW v \in Writers, v # w, Step(w) PROVE RegOK(v)'
    <2>1. lock' = v => lock = v
      BY <1>1, NobodyAssumption DEF Step, Persist, PersistFails, Begin, Acquire, NoLock, Read, PutReads, DeleteReads, WarmReads, ReadFails, LiveControl, FenceToken,
           TokenFails, StillConnected, ClaimOwner, ClaimFails, WriteControl, WriteFails, Release, stores
    <2>2. lock = v => registry' = registry
      BY <1>1 DEF Step, Persist, PersistFails, Begin, Acquire, NoLock, Read, PutReads, DeleteReads, WarmReads, ReadFails, LiveControl, FenceToken, TokenFails,
           StillConnected, ClaimOwner, ClaimFails, WriteControl, WriteFails, Release, stores
    <2>3. RegOK(v)
      BY DEF RegInv
    <2> QED BY <1>1, <2>1, <2>2, <2>3, OthersKeep DEF RegOK
  <1> USE NobodyAssumption DEF Goto, Answer, Early
  <1>2. ASSUME NEW w \in Writers, RegOK(w), PcOK(w), Begin(w) \/ Acquire(w) \/ LiveControl(w) \/ TokenFails(w) \/ FenceToken(w) PROVE RegOK(w)'
    BY <1>2 DEF Begin, Acquire, LiveControl, TokenFails, FenceToken, stores, TypeOK, PcOK, RegOK
  <1>3. ASSUME NEW w \in Writers, RegOK(w), PcOK(w), NoLock(w) \/ ReadFails(w) PROVE RegOK(w)'
    BY <1>3 DEF NoLock, ReadFails, WithoutLock, TypeOK, PcOK, RegOK
  <1>4. ASSUME NEW w \in Writers, RegOK(w), PcOK(w), Read(w) PROVE RegOK(w)'
    <2>1. AtLeast(req[w], registry) \/ AtLeast(registry, req[w])
      BY AskedType, AtLeastTotal DEF TypeOK
    <2>2. ~Controlled(registry) => registry = Open
      <3>1. \A c \in [frozen : {FALSE}, cap : Caps] : c.cap # NoCap
        BY CapsAssumption DEF NoCap
      <3>2. Frozen.frozen
        BY DEF Frozen
      <3> QED BY <3>1, <3>2 DEF TypeOK, Asked, Controlled
    <2>3. w \notin late
      BY <1>4 DEF PcOK, Read, PutReads, DeleteReads, WarmReads
    <2>4. answer[w] = "none"
      BY <1>4 DEF PcOK, Read, PutReads, DeleteReads, WarmReads
    <2>5. registry' = registry /\ lock' = lock /\ late' = late
      BY <1>4 DEF Read, PutReads, DeleteReads, WarmReads, stores
    <2>6. CASE kind[w] = "put"
      BY <1>4, <2>1, <2>3, <2>4, <2>5, <2>6 DEF Read, PutReads, DeleteReads, WarmReads, Direction, TypeOK, RegOK, AtLeast
    <2>7. CASE kind[w] = "delete"
      BY <1>4, <2>3, <2>4, <2>5, <2>7 DEF Read, PutReads, DeleteReads, WarmReads, TypeOK, PcOK, RegOK
    <2>8. CASE kind[w] = "warm"
      BY <1>4, <2>2, <2>3, <2>4, <2>5, <2>8 DEF Read, PutReads, DeleteReads, WarmReads, TypeOK, PcOK, RegOK
    <2> QED BY <2>6, <2>7, <2>8 DEF TypeOK
  <1>5. ASSUME NEW w \in Writers, RegOK(w), PcOK(w), StillConnected(w) PROVE RegOK(w)'
    BY <1>5 DEF StillConnected, Return, stores, TypeOK, PcOK, RegOK
  <1>6. ASSUME NEW w \in Writers, RegOK(w), PcOK(w), ClaimOwner(w) PROVE RegOK(w)'
    BY <1>6 DEF ClaimOwner, Return, TypeOK, PcOK, RegOK
  <1>7. ASSUME NEW w \in Writers, RegOK(w), PcOK(w), ClaimFails(w) PROVE RegOK(w)'
    BY <1>7 DEF ClaimFails, Again, Return, TypeOK, PcOK, RegOK
  <1>8. ASSUME NEW w \in Writers, RegOK(w), PcOK(w), WriteControl(w) PROVE RegOK(w)'
    BY <1>8 DEF WriteControl, RetryOnce, Again, Return, TypeOK, PcOK, RegOK
  <1>9. ASSUME NEW w \in Writers, RegOK(w), PcOK(w), WriteFails(w) PROVE RegOK(w)'
    BY <1>9 DEF WriteFails, RetryOnce, Again, Return, TypeOK, PcOK, RegOK
  <1>10. ASSUME NEW w \in Writers, RegOK(w), PcOK(w), Persist(w) PROVE RegOK(w)'
    BY <1>10 DEF Persist, Commit, TypeOK, PcOK, RegOK
  <1>11. ASSUME NEW w \in Writers, RegOK(w), PcOK(w), PersistFails(w) PROVE RegOK(w)'
    BY <1>11 DEF PersistFails, WithoutLock, Commit, TypeOK, PcOK, RegOK
  <1>12. ASSUME NEW w \in Writers, RegOK(w), PcOK(w), Release(w) PROVE RegOK(w)'
    BY <1>12 DEF Release, TypeOK, PcOK, RegOK
  <1>13. ASSUME NEW w \in Writers, Step(w) PROVE RegInv'
    <2>1. RegOK(w) /\ PcOK(w)
      BY DEF RegInv, PcInv
    <2>2. RegOK(w)'
      BY <1>2, <1>3, <1>4, <1>5, <1>6, <1>7, <1>8, <1>9, <1>10, <1>11, <1>12, <1>13, <2>1 DEF Step
    <2> QED BY <1>1, <1>13, <2>2 DEF RegInv
  <1>14. ASSUME NEW w \in Writers, SessionEnds(w) PROVE RegInv'
    BY <1>14 DEF SessionEnds, locals, RegInv, RegOK
  <1>15. ASSUME NEW w \in Writers, LateCommit(w) PROVE RegInv'
    <2>1. kind[w] = "delete" => registry' = registry
      BY <1>15 DEF LateCommit, Commit
    <2>2. kind[w] = "put" => registry' = req[w]
      BY <1>15 DEF LateCommit, Commit
    <2>3. AtLeast(req[w], req[w])
      BY AskedType, AtLeastReflexive DEF TypeOK
    <2>4. lock = w /\ lock' = w /\ w \notin late' /\ UNCHANGED locals
      BY <1>15 DEF LateCommit
    <2>5. PcOK(w) /\ RegOK(w)
      BY DEF PcInv, RegInv
    <2>6. RegOK(w)'
      BY <1>15, <2>1, <2>2, <2>4, <2>5 DEF LateCommit, PcOK, RegOK, locals
    <2> QED BY <2>4, <2>6 DEF RegInv, RegOK
  <1>16. CASE (\E c \in wire : LateCall(c)) \/ OwnerExpires \/ StoreFlush \/ FirstCall \/ PruneRow \/ UNCHANGED vars
    <2>1. UNCHANGED <<registry, lock, late, locals>>
      BY <1>16 DEF LateCall, OwnerExpires, StoreFlush, FirstCall, PruneRow, vars, stores
    <2> QED BY <2>1 DEF locals, RegInv, RegOK
  <1> QED BY <1>13, <1>14, <1>15, <1>16 DEF Next, Environment

-----------------------------------------------------------------------------
(* Who may close a gap. *)

\* A holder that took part in no new gap is remembered as such.
LEMMA FreshStep == TypeOK /\ PcInv /\ FreshInv /\ [Next]_vars => FreshInv'
  <1> SUFFICES ASSUME TypeOK, PcInv, FreshInv, [Next]_vars,
                      NEW v \in Writers, lock' = v, pc'[v] \in {"read", "live", "token"} \/ token'[v] # 0, ~gap'
               PROVE  v \in fresh'
    BY DEF FreshInv
  <1> USE DEF Goto, Answer
  <1>1. CASE Acquire(v)
    BY <1>1 DEF Acquire, TypeOK
  <1>2. ASSUME lock = v, pc[v] \in {"read", "live", "token"} \/ token[v] # 0, ~gap PROVE v \in fresh
    BY <1>2 DEF FreshInv
  <1>3. CASE ~Acquire(v)
    <2>1. ASSUME NEW w \in Writers, NoLock(w) PROVE lock' = lock \/ (pc'[w] \in {"claim", "release"} /\ token'[w] = 0 /\ lock' = w)
      BY <2>1 DEF NoLock, WithoutLock, TypeOK, PcInv, PcOK, Early
    <2>2. lock = v
      <3>1. ASSUME NEW w \in Writers, Acquire(w), lock' = w PROVE w # v
        BY <1>3, <3>1
      <3> QED BY <2>1, <3>1, LockEffects, NobodyAssumption DEF Acquire, NoLock
    <2>3. ASSUME NEW w \in Writers, Release(w) PROVE v \in fresh'
      BY <1>2, <2>2, <2>3, NobodyAssumption DEF Release, TypeOK
    <2>4. ASSUME NEW w \in Writers, Acquire(w) PROVE FALSE
      BY <2>2, <2>4, NobodyAssumption DEF Acquire
    <2>5. ASSUME NEW w \in Writers, Persist(w) \/ PersistFails(w) \/ LateCommit(w) PROVE v \in fresh'
      <3>1. fresh' = fresh /\ gap = gap'
        BY <2>5 DEF Persist, PersistFails, LateCommit, TypeOK
      <3>2. pc[v] \in {"read", "live", "token"} \/ token[v] # 0
        BY <2>5 DEF Persist, PersistFails, WithoutLock, LateCommit, locals, TypeOK
      <3> QED BY <1>2, <2>2, <3>1, <3>2
    <2>6. ASSUME NEW w \in Writers,
                 \/ Begin(w) \/ NoLock(w) \/ Read(w) \/ ReadFails(w) \/ LiveControl(w) \/ TokenFails(w) \/ FenceToken(w)
          PROVE  v \in fresh'
      <3>1. fresh' = fresh /\ gap = gap'
        BY <2>6 DEF Begin, NoLock, Read, PutReads, DeleteReads, WarmReads, ReadFails, LiveControl, TokenFails, FenceToken, history
      <3>2. pc[v] \in {"read", "live", "token"} \/ token[v] # 0
        BY <2>6 DEF Begin, NoLock, Read, PutReads, DeleteReads, WarmReads, ReadFails, WithoutLock, LiveControl, TokenFails, FenceToken, TypeOK
      <3> QED BY <1>2, <2>2, <3>1, <3>2
    <2>7. ASSUME NEW w \in Writers,
                 \/ StillConnected(w) \/ ClaimOwner(w) \/ ClaimFails(w) \/ WriteControl(w) \/ WriteFails(w)
          PROVE  v \in fresh'
      <3>1. fresh' = fresh /\ gap = gap'
        BY <2>7 DEF StillConnected, ClaimOwner, ClaimFails, WriteControl, WriteFails, history
      <3>2. pc[v] \in {"read", "live", "token"} \/ token[v] # 0
        BY <2>7 DEF StillConnected, ClaimOwner, ClaimFails, WriteControl, WriteFails, RetryOnce, Again, Return, TypeOK
      <3> QED BY <1>2, <2>2, <3>1, <3>2
    <2>8. CASE (\E w \in Writers : SessionEnds(w)) \/ (\E c \in wire : LateCall(c)) \/ OwnerExpires \/ FirstCall \/ PruneRow \/ UNCHANGED vars
      <3>1. fresh' = fresh /\ gap = gap' /\ UNCHANGED <<pc, token>>
        BY <2>8 DEF SessionEnds, LateCall, OwnerExpires, FirstCall, PruneRow, vars, stores, locals, history
      <3> QED BY <1>2, <2>2, <3>1
    <2>9. CASE StoreFlush
      BY <2>9 DEF StoreFlush
    <2> QED BY <2>3, <2>4, <2>5, <2>6, <2>7, <2>8, <2>9 DEF Next, Step, Environment
  <1> QED BY <1>1, <1>3

\* The fence admits no token again that it fenced off.
LEMMA AdmissibleBefore ==
  ASSUME TypeOK, PcInv, WireInv, TokenInv, [Next]_vars, ~StoreFlush,
         NEW v \in Writers, Outstanding(v), token[v] # 0, Admissible(v)'
  PROVE  Admissible(v) \/ FenceToken(v)
  <1>1. FenceEffect
    BY FenceEffects
  <1>2. CASE UNCHANGED <<owner, floor, seq, token>>
    BY <1>2 DEF Admissible
  <1>3. ASSUME NEW w \in Writers, FenceToken(w), w # v PROVE Admissible(v)
    BY <1>3 DEF FenceToken, Admissible, TypeOK
  <1>4. CASE RunClaim(NoOwner) /\ UNCHANGED <<seq, token>>
    <2>1. owner' = [last |-> owner.last, stolen |-> owner.stolen + 1] /\ owner.stolen \in Nat /\ owner.last \in Nat
      BY <1>4 DEF RunClaim, Claim, TypeOK, Owner
    <2> QED BY <1>4, <2>1 DEF Admissible
  <1>5. ASSUME NEW w \in Writers, RunClaim(Token(token[w])), token[w] # 0, UNCHANGED <<seq, token>> PROVE Admissible(v)
    <2>1. owner' = owner \/ (owner' = Token(token[w]) /\ Admissible(w))
      <3>1. Token(token[w]) # NoOwner
        BY <1>5 DEF Token, NoOwner
      <3>2. token[w] \in Nat /\ owner.last \in Nat /\ owner.stolen \in Nat /\ Token(token[w]).last = token[w]
        BY DEF TypeOK, Owner, Token
      <3> QED BY <1>5, <3>1, <3>2 DEF RunClaim, Claim, Admissible
    <2>2. CASE owner' = owner
      BY <1>5, <2>2 DEF Admissible
    <2>3. CASE owner' = Token(token[w]) /\ Admissible(w)
      <3>1. token[v] > token[w] \/ token[v] = token[w]
        BY <1>5, <2>3 DEF Admissible, Token
      <3>2. CASE token[v] = token[w]
        BY <2>3, <3>2 DEF Admissible
      <3>3. CASE token[v] > token[w]
        <4>1. token[w] \in Nat /\ token[v] \in Nat /\ owner.last \in Nat
          BY DEF TypeOK, Owner
        <4> QED BY <2>3, <3>3, <4>1 DEF Admissible
      <3> QED BY <3>1, <3>2, <3>3
    <2> QED BY <2>1, <2>2, <2>3
  <1>6. CASE OwnerExpires
    BY <1>6 DEF OwnerExpires, Admissible
  <1> QED BY <1>1, <1>2, <1>3, <1>4, <1>5, <1>6 DEF FenceEffect

-----------------------------------------------------------------------------
(* Store and registry. *)

\* A freeze is at least as strict as anything, and anything as strict as no control.
LEMMA FrozenCovers == ASSUME NEW c, NEW d, c.frozen PROVE AtLeast(c, d)
  BY DEF AtLeast, IsTightening

LEMMA OpenCovered == ASSUME NEW c PROVE AtLeast(c, Open)
  BY DEF AtLeast, IsTightening, Open

\* What a writer's store write leaves is at least as strict as what it asked for.
LEMMA WrittenCovers ==
  ASSUME TypeOK, NEW w \in Writers
  PROVE  AtLeast(Written(w), req[w])
  <1>0. req[w] \in Control /\ req[w].cap \in Nat /\ store \in Control
    BY AskedType, ControlFields DEF TypeOK
  <1>1. CASE kind[w] # "warm"
    BY <1>0, <1>1, AtLeastReflexive DEF Written
  <1>2. CASE kind[w] = "warm" /\ req[w].frozen
    <2>1. Written(w).frozen
      BY <1>0, <1>2 DEF Written, Control
    <2> QED BY <2>1, FrozenCovers
  <1>3. CASE kind[w] = "warm" /\ ~req[w].frozen
    <2>1. Written(w).cap = req[w].cap
      BY <1>0, <1>3 DEF Written, Control
    <2> QED BY <1>0, <1>3, <2>1 DEF AtLeast, IsTightening, NoCap
  <1> QED BY <1>1, <1>2, <1>3

\* A write is seen to land only by the writer that made it, while it still owned the fence.
LEMMA LandedBefore ==
  ASSUME TypeOK, PcInv, [Next]_vars, NEW v \in Writers, token'[v] # 0, Landed(v)', ~Landed(v)
  PROVE  WriteControl(v) /\ owner = mine[v] /\ mode[v] # "steal"
  <1> USE DEF Goto, Answer, TypeOK
  <1>1. ASSUME NEW w \in Writers,
               \/ Begin(w) \/ Acquire(w) \/ NoLock(w) \/ Read(w) \/ ReadFails(w) \/ LiveControl(w) \/ TokenFails(w)
               \/ FenceToken(w)
        PROVE  FALSE
    BY <1>1 DEF Begin, Acquire, NoLock, Read, PutReads, DeleteReads, WarmReads, ReadFails, WithoutLock, LiveControl, TokenFails, FenceToken, stores, history,
                Landed, PcInv, PcOK, Early
  <1>2. ASSUME NEW w \in Writers, StillConnected(w) \/ ClaimOwner(w) \/ ClaimFails(w) PROVE FALSE
    <2>1. PcOK(w)
      BY DEF PcInv
    <2> QED BY <1>2, <2>1 DEF StillConnected, ClaimOwner, ClaimFails, Again, Return, stores, history, Landed, PcOK
  <1>3. ASSUME NEW w \in Writers, WriteFails(w) PROVE FALSE
    <2>1. PcOK(w)
      BY DEF PcInv
    <2> QED BY <1>3, <2>1 DEF WriteFails, RetryOnce, Again, Return, Landed, PcOK
  <1>4. ASSUME NEW w \in Writers, Persist(w) \/ PersistFails(w) \/ Release(w) PROVE FALSE
    <2>1. PcOK(w)
      BY DEF PcInv
    <2> QED BY <1>4, <2>1 DEF Persist, PersistFails, WithoutLock, Release, Landed, PcOK
  <1>5. ASSUME NEW w \in Writers, WriteControl(w) PROVE WriteControl(v) /\ owner = mine[v] /\ mode[v] # "steal"
    <2>1. PcOK(w)
      BY DEF PcInv
    <2>2. w = v
      BY <1>5, <2>1 DEF WriteControl, RetryOnce, Again, Return, Landed
    <2>3. owner = mine[v] /\ mode[v] # "steal"
      BY <1>5, <2>1, <2>2 DEF WriteControl, RetryOnce, Again, Return, Landed, PcOK
    <2> QED BY <1>5, <2>2, <2>3
  <1>6. CASE Environment \/ UNCHANGED vars
    <2>1. UNCHANGED locals
      BY <1>6 DEF Environment, SessionEnds, LateCommit, LateCall, OwnerExpires, StoreFlush, FirstCall, PruneRow, vars
    <2> QED BY <2>1 DEF locals, Landed
  <1> HIDE DEF TypeOK
  <1> QED BY <1>1, <1>2, <1>3, <1>4, <1>5, <1>6 DEF Next, Step

\* fresh gains only a writer that takes the lock.
LEMMA FreshEffects ==
  ASSUME TypeOK, PcInv, [Next]_vars, NEW v \in Writers, v \in fresh', token'[v] # 0
  PROVE  v \in fresh /\ ~StoreFlush
  <1>1. ASSUME NEW w \in Writers, Acquire(w) PROVE token'[w] = 0 /\ fresh' = fresh \cup {w}
    BY <1>1 DEF Acquire, PcInv, PcOK, Early
  <1>2. fresh' = fresh \/ fresh' = {} \/ \E w \in Writers : Acquire(w)
    BY DEF Next, Step, Environment, Begin, NoLock, Read, PutReads, DeleteReads, WarmReads, ReadFails, LiveControl, FenceToken, TokenFails,
           StillConnected, ClaimOwner, ClaimFails, WriteControl, WriteFails, Persist, PersistFails, Release, SessionEnds,
           LateCommit, LateCall, OwnerExpires, StoreFlush, FirstCall, PruneRow, vars, stores, history
  <1> QED BY <1>1, <1>2 DEF StoreFlush

\* What the holder's landed write promises stays true.
LEMMA VouchStep == TypeOK /\ PcInv /\ WireInv /\ TokenInv /\ VouchInv /\ [Next]_vars => VouchInv'
  <1> SUFFICES ASSUME TypeOK, PcInv, WireInv, TokenInv, VouchInv, [Next]_vars,
                      NEW v \in Writers, lock' = v, v \in fresh', token'[v] # 0, Landed(v)'
               PROVE  /\ kind'[v] = "put" => store' = req'[v] \/ store'.frozen
                      /\ kind'[v] = "warm" => AtLeast(store', req'[v])
                      /\ \A w \in Writers : w # v /\ Outstanding(w)' /\ token'[w] # 0 => ~Admissible(w)'
    BY DEF VouchInv, AtLeast
  <1>1. lock = v /\ v \in fresh /\ ~StoreFlush
    BY HolderBefore, FreshEffects
  <1>2. ASSUME NEW w \in Writers, FenceToken(w) PROVE w = v
    BY <1>1, <1>2 DEF FenceToken
  <1>3. CASE ~Landed(v)
    <2>1. WriteControl(v) /\ owner = mine[v] /\ mode[v] # "steal"
      BY <1>3, LandedBefore
    <2>2. token[v] # 0 /\ owner = Token(token[v])
      BY <2>1 DEF WriteControl, PcInv, PcOK
    <2>3. UNCHANGED <<owner, token, kind, req>> /\ store' = Written(v)
      BY <2>1 DEF WriteControl, RunWrite
    <2>4. ASSUME NEW w \in Writers, w # v, token[w] # 0 PROVE ~Admissible(w)'
      <3>1. token[w] < token[v]
        BY <1>1, <2>2, <2>4 DEF TokenInv, TypeOK
      <3>2. token[w] \in Nat /\ token[v] \in Nat
        BY DEF TypeOK
      <3> QED BY <2>2, <2>3, <3>1, <3>2 DEF Admissible, Token
    <2>5. kind[v] = "put" => store' = req[v]
      BY <2>3 DEF Written
    <2>6. AtLeast(store', req[v])
      BY <2>3, WrittenCovers
    <2> QED BY <2>3, <2>4, <2>5, <2>6
  <1>4. CASE Landed(v)
    <2>1. pc[v] \notin Early /\ Settled(v)
      BY <1>4, SettledStep DEF Landed, PcInv, PcOK, Early
    <2>2. token[v] # 0 /\ token'[v] = token[v] /\ req'[v] = req[v] /\ kind'[v] = kind[v]
      BY <2>1 DEF Settled
    <2>3. /\ kind[v] = "put" => store = req[v] \/ store.frozen
          /\ kind[v] = "warm" => AtLeast(store, req[v])
          /\ \A w \in Writers : w # v /\ Outstanding(w) /\ token[w] # 0 => ~Admissible(w)
      BY <1>1, <1>4, <2>2 DEF VouchInv
    <2>4. ASSUME NEW w \in Writers, w # v, Outstanding(w)', token'[w] # 0 PROVE ~Admissible(w)'
      <3>1. token[w] # 0
        <4>1. token' = token \/ \E u \in Writers : FenceToken(u)
          BY FenceEffects DEF FenceEffect
        <4> QED BY <1>2, <2>4, <4>1 DEF FenceToken, TypeOK
      <3>2. Outstanding(w) /\ ~Admissible(w)
        BY <2>3, <2>4, <3>1, OutstandingStep
      <3> QED BY <1>1, <1>2, <2>4, <3>1, <3>2, AdmissibleBefore
    <2>5. CASE UNCHANGED store
      BY <2>2, <2>3, <2>4, <2>5
    <2>6. ASSUME NEW w \in Writers, NEW own \in Owner, RunWrite(w, own), OwnWrite(w, own) \/ StolenWrite(w, own), store' # store
          PROVE  /\ kind[v] = "put" => store' = req[v] \/ store'.frozen
                 /\ kind[v] = "warm" => AtLeast(store', req[v])
      <3>1. owner = own /\ store' = Written(w)
        BY <2>6 DEF RunWrite
      <3>2. CASE StolenWrite(w, own)
        <4>1. store'.frozen
          BY <3>1, <3>2 DEF StolenWrite, Written
        <4> QED BY <4>1, FrozenCovers
      <3>3. CASE OwnWrite(w, own)
        <4>1. Outstanding(w) /\ token[w] # 0 /\ Admissible(w)
          BY <3>1, <3>3 DEF OwnWrite, Lander, Admissible, Token
        <4>2. w = v
          BY <2>3, <4>1
        <4> QED BY <3>1, <4>2, WrittenCovers DEF Written
      <3> QED BY <2>6, <3>2, <3>3
    <2>7. StoreEffect
      BY StoreEffects
    <2>8. \/ UNCHANGED store
          \/ \E w \in Writers, own \in Owner : RunWrite(w, own) /\ (OwnWrite(w, own) \/ StolenWrite(w, own))
      BY <1>1, <2>7 DEF StoreEffect
    <2> QED BY <2>2, <2>4, <2>5, <2>6, <2>8
  <1> QED BY <1>3, <1>4

\* A loosening reaches its store write only through its commit.
LEMMA LanderBefore ==
  ASSUME TypeOK, PcInv, WireInv, [Next]_vars, NEW v \in Writers, Lander(v)', token[v] # 0, ~Persist(v)
  PROVE  Lander(v)
  <1>1. Outstanding(v) /\ token'[v] # 0
    BY OutstandingStep DEF Lander
  <1>2. ASSUME mode[v] = "loosen", pc[v] # "write" PROVE FALSE
    <2> USE DEF Goto, Answer, TypeOK
    <2>1. mode'[v] # "loosen" \/ pc'[v] = "write"
      BY DEF Lander
    <2>2. PcOK(v)
      BY DEF PcInv
    <2>3. ASSUME Step(v) PROVE FALSE
      <3>1. pc[v] \in {"claim", "persist", "release", "done"}
        BY <1>2, <2>2 DEF PcOK, Early
      <3>2. ClaimOwner(v) \/ ClaimFails(v) \/ PersistFails(v) \/ Release(v)
        BY <2>3, <3>1 DEF Step, Begin, Acquire, NoLock, Read, PutReads, DeleteReads, WarmReads, ReadFails, LiveControl, FenceToken, TokenFails,
                          StillConnected, WriteControl, WriteFails
      <3> QED BY <1>2, <2>1, <2>2, <3>2 DEF ClaimOwner, ClaimFails, PersistFails, Release
    <2>4. ASSUME NEW w \in Writers, w # v, Step(w) PROVE FALSE
      BY <1>2, <2>1, <2>4, OthersKeep
    <2>5. ASSUME Environment \/ UNCHANGED vars PROVE FALSE
      <3>1. UNCHANGED locals
        BY <2>5 DEF Environment, SessionEnds, LateCommit, LateCall, OwnerExpires, StoreFlush, FirstCall, PruneRow, vars
      <3> QED BY <1>2, <2>1, <3>1 DEF locals
    <2> QED BY <2>3, <2>4, <2>5 DEF Next
  <1> QED BY <1>1, <1>2 DEF Lander

\* Without a gap no step makes the store, or a write still to land, looser than the registry.
LEMMA CoverStep == IndInv /\ [Next]_vars => CoverInv'
  <1> SUFFICES ASSUME IndInv, [Next]_vars, ~gap'
               PROVE  /\ AtLeast(store', registry')
                      /\ \A w \in Writers : Lander(w)' /\ Admissible(w)' => AtLeast(req'[w], registry')
    BY DEF CoverInv, AtLeast
  <1> USE DEF IndInv
  <1>0. TypeOK' /\ ~StoreFlush
    BY TypeStep DEF StoreFlush
  <1>1. ASSUME NEW w \in Writers PROVE req[w] \in Control /\ req'[w] \in Control
    BY <1>0, AskedType DEF TypeOK
  <1>2. store \in Control /\ store' \in Control /\ registry \in Control /\ registry' \in Control
    BY <1>0, AskedType DEF TypeOK
  <1>3. ASSUME NEW w \in Writers, Release(w), gap
        PROVE  /\ AtLeast(store', registry')
               /\ \A u \in Writers : Lander(u)' /\ Admissible(u)' => AtLeast(req'[u], registry')
    <2>1. answer[w] = "ok" /\ kind[w] # "delete" /\ lock = w /\ w \in fresh
      BY <1>3 DEF Release
    <2>2. UNCHANGED <<store, registry, owner, token, req, wire, mode>>
      BY <1>3 DEF Release
    <2>3. PcOK(w) /\ RegOK(w)
      BY DEF PcInv, RegInv
    <2>4. CASE kind[w] = "warm" /\ mode[w] # "warm"
      <3>1. registry = Open
        BY <2>1, <2>3, <2>4 DEF RegOK
      <3> QED BY <2>2, <3>1, OpenCovered
    <2>5. CASE kind[w] = "put" \/ mode[w] = "warm"
      <3>1. token[w] # 0 /\ Landed(w) /\ registry = req[w]
        BY <2>1, <2>3, <2>5 DEF PcOK, RegOK, Landed
      <3>2. AtLeast(store, registry)
        <4>1. kind[w] \in {"put", "warm"}
          BY <2>1 DEF TypeOK
        <4>2. kind[w] = "put" => store = req[w] \/ store.frozen
          BY <2>1, <3>1 DEF VouchInv
        <4>3. kind[w] = "warm" => AtLeast(store, req[w])
          BY <2>1, <3>1 DEF VouchInv
        <4>4. AtLeast(req[w], req[w])
          BY <1>1, AtLeastReflexive
        <4> QED BY <3>1, <4>1, <4>2, <4>3, <4>4, FrozenCovers
      <3>3. ASSUME NEW u \in Writers, Lander(u)', Admissible(u)' PROVE AtLeast(req[u], registry)
        <4>1. token[u] # 0 /\ Admissible(u) /\ Outstanding(u)
          BY <2>2, <3>3, OutstandingStep DEF Lander, Admissible
        <4>2. u = w
          BY <2>1, <3>1, <4>1 DEF VouchInv
        <4> QED BY <1>1, <3>1, <4>2, AtLeastReflexive
      <3> QED BY <2>2, <3>2, <3>3
    <2> QED BY <2>1, <2>4, <2>5 DEF TypeOK
  <1>4. gap => \E w \in Writers : Release(w)
    BY DEF Next, Step, Environment, Begin, Acquire, NoLock, Read, PutReads, DeleteReads, WarmReads, ReadFails, LiveControl, FenceToken, TokenFails,
           StillConnected, ClaimOwner, ClaimFails, WriteControl, WriteFails, Persist, PersistFails, SessionEnds,
           LateCommit, LateCall, OwnerExpires, StoreFlush, FirstCall, PruneRow, vars, stores, history
  <1>5. CASE ~gap
    <2>1. AtLeast(store, registry) /\ \A u \in Writers : Lander(u) /\ Admissible(u) => AtLeast(req[u], registry)
      BY <1>5 DEF CoverInv
    <2>2. ASSUME NEW u \in Writers, Lander(u)', Admissible(u)', token[u] # 0, ~Persist(u)
          PROVE  req'[u] = req[u] /\ AtLeast(req[u], registry)
      <3>1. Lander(u)
        BY <2>2, LanderBefore
      <3>2. req'[u] = req[u]
        BY <2>2, SettledStep DEF Settled, PcInv, PcOK
      <3>3. ~FenceToken(u)
        BY <2>2 DEF FenceToken, PcInv, PcOK, Early
      <3>4. Admissible(u)
        BY <1>0, <2>2, <3>1, <3>3, AdmissibleBefore DEF Lander
      <3> QED BY <2>1, <3>1, <3>2, <3>4
    <2>3. ASSUME NEW v \in Writers, Persist(v) \/ PersistFails(v) \/ LateCommit(v), Commit(v), kind[v] # "delete", lock = v,
                 gap' = (gap \/ OpensGap(v))
          PROVE  /\ AtLeast(store', registry')
                 /\ \A u \in Writers : Lander(u)' /\ Admissible(u)' => AtLeast(req'[u], registry')
      <3>1. UNCHANGED <<store, owner, wire, token, kind, req>>
        BY <2>3 DEF Persist, PersistFails, LateCommit, locals
      <3>2. registry' = req[v]
        BY <2>3 DEF Commit
      <3>3. PcOK(v) /\ RegOK(v)
        BY DEF PcInv, RegInv
      <3>4. kind[v] = "put" /\ token[v] # 0
        BY <2>3, <3>3 DEF Persist, PersistFails, LateCommit, PcOK
      <3>5. AtLeast(req[v], req[v])
        BY <1>1, AtLeastReflexive
      <3>6. v \in fresh
        BY <1>5, <2>3, <3>4 DEF FreshInv
      <3>7. ASSUME NEW u \in Writers, u # v, Lander(u)' PROVE token[u] # 0 /\ ~Persist(u) /\ Outstanding(u)
        <4>1. token[u] # 0
          BY <3>1, <3>7 DEF Lander
        <4>2. ~Persist(u)
          BY <2>3, <3>7 DEF Persist
        <4> QED BY <3>7, <4>1, <4>2, LanderBefore DEF Lander
      <3>8. CASE mode[v] = "loosen"
        <4>1. AtLeast(registry, req[v])
          BY <2>3, <3>3, <3>8 DEF RegOK, Persist, PersistFails, LateCommit
        <4>2. AtLeast(store', registry')
          BY <1>1, <1>2, <2>1, <3>1, <3>2, <4>1, AtLeastTransitive
        <4>3. ASSUME NEW u \in Writers, Lander(u)', Admissible(u)', u # v PROVE AtLeast(req'[u], registry')
          <5>1. req'[u] = req[u] /\ AtLeast(req[u], registry)
            BY <2>2, <3>7, <4>3
          <5> QED BY <1>1, <1>2, <3>2, <4>1, <5>1, AtLeastTransitive
        <4> QED BY <3>1, <3>2, <3>5, <4>2, <4>3
      <3>9. CASE mode[v] # "loosen"
        <4>1. mode[v] = "tighten" /\ outcome[v] = "applied"
          <5>1. ~OpensGap(v)
            BY <2>3
          <5> QED BY <3>4, <3>9, <5>1 DEF OpensGap
        <4>2. store = req[v] \/ store.frozen
          BY <2>3, <3>4, <3>6, <4>1 DEF VouchInv, Landed
        <4>3. AtLeast(store', registry')
          BY <3>1, <3>2, <3>5, <4>2, FrozenCovers
        <4>4. ASSUME NEW u \in Writers, Lander(u)', Admissible(u)', u # v PROVE FALSE
          <5>1. Admissible(u)
            BY <3>1, <4>4 DEF Admissible
          <5>2. Outstanding(u) /\ token[u] # 0
            BY <3>7, <4>4
          <5> QED BY <2>3, <3>4, <3>6, <3>7, <4>1, <4>4, <5>1 DEF VouchInv, Landed
        <4> QED BY <3>1, <3>2, <3>5, <4>3, <4>4
      <3> QED BY <3>8, <3>9
    <2>4. CASE UNCHANGED registry /\ ~(\E v \in Writers : Persist(v) /\ kind[v] # "delete")
      <3>1. AtLeast(store', registry)
        <4>1. CASE store' = store
          BY <2>1, <4>1
        <4>2. ASSUME NEW w \in Writers, NEW own \in Owner, RunWrite(w, own), OwnWrite(w, own) \/ StolenWrite(w, own), store' # store
              PROVE  AtLeast(store', registry)
          <5>1. owner = own /\ store' = Written(w)
            BY <4>2 DEF RunWrite
          <5>2. CASE StolenWrite(w, own)
            <6>1. store'.frozen
              BY <5>1, <5>2 DEF StolenWrite, Written
            <6> QED BY <6>1, FrozenCovers
          <5>3. CASE OwnWrite(w, own)
            <6>1. Lander(w) /\ Admissible(w)
              BY <5>1, <5>3 DEF OwnWrite, Admissible, Token
            <6>2. AtLeast(Written(w), req[w])
              BY WrittenCovers
            <6> QED BY <1>1, <1>2, <2>1, <5>1, <6>1, <6>2, AtLeastTransitive
          <5> QED BY <4>2, <5>2, <5>3
        <4> QED BY <1>0, <4>1, <4>2, StoreEffects DEF StoreEffect
      <3>2. ASSUME NEW u \in Writers, Lander(u)', Admissible(u)' PROVE AtLeast(req'[u], registry)
        <4>1. CASE token[u] # 0
          <5>1. ~Persist(u)
            <6>1. Persist(u) => pc[u] = "persist"
              BY DEF Persist
            <6>2. pc[u] = "persist" => kind[u] # "delete"
              BY <4>1 DEF PcInv, PcOK
            <6> QED BY <2>4, <6>1, <6>2
          <5> QED BY <2>2, <3>2, <4>1, <5>1
        <4>2. CASE token[u] = 0
          <5>1. FenceToken(u)
            <6>1. token' = token \/ \E w \in Writers : FenceToken(w)
              BY FenceEffects DEF FenceEffect
            <6> QED BY <3>2, <4>2, <6>1 DEF FenceToken, Lander, TypeOK
          <5>2. lock = u /\ req'[u] = req[u] /\ pc[u] = "token" /\ mode[u] # "loosen"
            BY <3>2, <5>1 DEF FenceToken, Lander, Goto, TypeOK
          <5>3. RegOK(u) /\ PcOK(u)
            BY DEF RegInv, PcInv
          <5>4. CASE mode[u] = "tighten"
            BY <5>2, <5>3, <5>4 DEF RegOK
          <5>5. CASE mode[u] = "warm"
            <6>1. registry = req[u]
              BY <5>2, <5>3, <5>5 DEF RegOK
            <6> QED BY <1>2, <5>2, <6>1, AtLeastReflexive
          <5> QED BY <5>2, <5>3, <5>4, <5>5 DEF PcOK
        <4> QED BY <4>1, <4>2
      <3> QED BY <2>4, <3>1, <3>2
    <2>5. ASSUME NEW v \in Writers, Persist(v), kind[v] # "delete" PROVE Commit(v) /\ lock = v /\ gap' = (gap \/ OpensGap(v))
      BY <2>5 DEF Persist
    <2>6. CASE registry' # registry
      <3>1. lock \in Writers /\ (Persist(lock) \/ PersistFails(lock) \/ LateCommit(lock)) /\ Commit(lock)
        BY <2>6, RegistryEffects
      <3>2. kind[lock] # "delete"
        BY <2>6, <3>1 DEF Commit
      <3>3. gap' = (gap \/ OpensGap(lock))
        BY <2>6, <3>1 DEF Persist, PersistFails, LateCommit
      <3> QED BY <2>3, <3>1, <3>2, <3>3
    <2> QED BY <2>3, <2>4, <2>5, <2>6
  <1> QED BY <1>3, <1>4, <1>5

-----------------------------------------------------------------------------
(* The theorems. *)

LEMMA InitInv == Init => IndInv
  <1> SUFFICES ASSUME Init PROVE IndInv
    OBVIOUS
  <1> USE DEF Init
  <1>1. NoOwner \in Owner /\ Open \in Asked /\ registry \in Control
    BY AskedType DEF NoOwner, Owner
  <1>2. TypeOK
    <2>1. row \in BOOLEAN
      OBVIOUS
    <2>2. store \in Control
      BY <1>1
    <2>3. /\ token \in [Writers -> Nat] /\ tries \in [Writers -> 0..3] /\ seq \in Nat /\ floor \in Nat
          /\ mine \in [Writers -> Owner] /\ req \in [Writers -> Asked]
      BY <1>1
    <2> HIDE DEF Init
    <2>4. registry \in Asked /\ owner \in Owner /\ wire \subseteq Calls /\ lock \in Writers \cup {Nobody}
          /\ late \subseteq Writers /\ fresh \subseteq Writers /\ overrun \in BOOLEAN /\ gap \in BOOLEAN
      BY <1>1 DEF Init
    <2>5. pc = [w \in Writers |-> "idle"] /\ kind = [w \in Writers |-> "put"] /\ mode = [w \in Writers |-> "none"]
          /\ outcome = [w \in Writers |-> "none"] /\ answer = [w \in Writers |-> "none"]
      BY DEF Init
    <2> QED BY <2>1, <2>2, <2>3, <2>4, <2>5 DEF TypeOK
  <1>3. PcInv
    BY DEF PcInv, PcOK, Early
  <1>4. WireInv /\ TokenInv /\ FloorInv /\ FenceHolds
    <2>1. NoOwner.last = 0
      BY DEF NoOwner
    <2> QED BY <2>1 DEF WireInv, TokenInv, FloorInv, FenceHolds
  <1>5. RegInv /\ FreshInv /\ VouchInv
    BY NobodyAssumption DEF RegInv, RegOK, FreshInv, VouchInv
  <1>6. CoverInv
    <2>1. \A w \in Writers : ~Lander(w)
      BY DEF Lander
    <2>2. AtLeast(store, registry)
      BY <1>1, AtLeastReflexive
    <2> QED BY <2>1, <2>2 DEF CoverInv
  <1> QED BY <1>2, <1>3, <1>4, <1>5, <1>6 DEF IndInv

LEMMA NextInv == IndInv /\ [Next]_vars => IndInv'
  BY TypeStep, PcStep, WireStep, TokenStep, FloorStep, FenceStep, RegStep, FreshStep, VouchStep, CoverStep DEF IndInv

\* The inductive invariant holds in every reachable state.
LEMMA IndInvHolds == Spec => []IndInv
  BY InitInv, NextInv, PTL DEF Spec

(* Whatever fails, every variable of the admin trust protocol keeps its    *)
(* shape.                                                                  *)
THEOREM TypeCorrect == Spec => []TypeOK
  <1>1. IndInv => TypeOK
    BY DEF IndInv
  <1> QED BY <1>1, IndInvHolds, PTL

(* The owner fence is sound for any number of writers: no store write      *)
(* lands from a lock holder older than the newest claim, nor from one a    *)
(* freeze stole the fence from (cache.py _CLAIM_LUA, _FENCED_CONTROL_LUA). *)
THEOREM FenceSound == Spec => []FenceHolds
  <1>1. IndInv => FenceHolds
    BY DEF IndInv
  <1> QED BY <1>1, IndInvHolds, PTL

(* Apart from the answered and documented gap, the store is never looser   *)
(* than the registry (agents.py update_trust, _tighten, _loosen).          *)
THEOREM StoreCovers == Spec => []StoreCoversRegistry
  <1>1. IndInv => StoreCoversRegistry
    BY DEF IndInv, CoverInv, AtLeast, StoreCoversRegistry
  <1> QED BY <1>1, IndInvHolds, PTL

(* A 200 holds in the registry and in the store as long as its lock is     *)
(* held (agents.py update_trust).                                          *)
THEOREM OkHolds == Spec => []OkHoldsInBoth
  <1>1. IndInv => OkHoldsInBoth
    <2> SUFFICES ASSUME IndInv, NEW w \in Writers, answer[w] = "ok", kind[w] = "put", lock = w, w \in fresh
                 PROVE  registry = req[w] /\ (store = req[w] \/ store.frozen)
      BY DEF OkHoldsInBoth
    <2>1. registry = req[w]
      BY DEF IndInv, RegInv, RegOK
    <2>2. token[w] # 0
      BY DEF IndInv, PcInv, PcOK
    <2> QED BY <2>1, <2>2 DEF IndInv, VouchInv, Landed
  <1> QED BY <1>1, IndInvHolds, PTL

(* No step deletes the row of a controlled agent or lifts a control by     *)
(* deleting its row (agents.py deregister_agent, the pruner).              *)
THEOREM DeleteSafe == Spec => DeleteLiftsNothing
  <1>1. TypeOK /\ PcInv /\ [Next]_vars => [row /\ ~row' => ~Controlled(registry) /\ registry' = registry]_vars
    <2> SUFFICES ASSUME TypeOK, PcInv, [Next]_vars, row, ~row' PROVE ~Controlled(registry) /\ registry' = registry
      OBVIOUS
    <2>1. ASSUME NEW w \in Writers, Commit(w) PROVE ~Controlled(registry) /\ registry' = registry
      BY <2>1 DEF Commit
    <2>2. CASE PruneRow
      BY <2>2 DEF PruneRow
    <2>3. (\E w \in Writers : Commit(w)) \/ PruneRow
      BY DEF Next, Step, Environment, Begin, Acquire, NoLock, Read, PutReads, DeleteReads, WarmReads, ReadFails, LiveControl, FenceToken, TokenFails,
             StillConnected, ClaimOwner, ClaimFails, WriteControl, WriteFails, Persist, PersistFails, Release, SessionEnds,
             LateCommit, LateCall, OwnerExpires, StoreFlush, FirstCall, PruneRow, vars, stores
    <2> QED BY <2>1, <2>2, <2>3
  <1>2. IndInv => TypeOK /\ PcInv
    BY DEF IndInv
  <1> QED BY <1>1, <1>2, IndInvHolds, PTL DEF Spec, DeleteLiftsNothing

-----------------------------------------------------------------------------
(* The score of one call (TrustScore), with the twenty observations that the code asks for. *)

CONSTANTS Histories, BaselineRpm, Usual, Thresholds, Ceilings, Outages
VARIABLES judged, scored

TR == INSTANCE TrustScore WITH Counts <- Histories, MinObservations <- 20, Caps <- Ceilings, in <- judged, out <- scored

\* Histories, by their counts: the strange entries are some of the last twenty.
Counts5 == [allowed : Nat, refused : Nat, repeated : Nat, recent : Nat, strange : Nat]
Counted == {h \in Counts5 : h.strange <= h.allowed + h.refused + h.repeated /\ h.strange <= 20}
\* Histories are counts; caps, thresholds, entropies and the pace are numbers; reads fail in any combination.
ScoreConstants ==
    /\ Histories \subseteq Counted /\ BaselineRpm \in Nat /\ Usual \subseteq [mean : Nat, std : Nat]
    /\ Ceilings \subseteq Int /\ Thresholds \subseteq Int /\ Outages \subseteq SUBSET TR!Lookups

\* The signals of a history, by its counts: refused calls out of n distinct ones, and calls a minute.
RateOf(r, n) ==
    IF r = 0 THEN 10 ELSE IF 50 * r <= n THEN 8 ELSE IF 20 * r <= n THEN 6
    ELSE IF 10 * r <= n THEN 4 ELSE IF 5 * r <= n THEN 2 ELSE 0
CapOf(n, rate) ==
    IF n < 20 THEN 1000 ELSE IF rate <= 0 THEN 300 ELSE IF rate = 2 THEN 450 ELSE IF rate = 4 THEN 600 ELSE 1000
SpeedOf(calls, base) == IF calls <= base THEN 10 ELSE IF calls <= 2 * base THEN 8 ELSE IF calls <= 3 * base THEN 5 ELSE 3
\* The step of the novelty signal: s strange entries of l, and the call itself if it is strange (e = 1).
FamiliarOf(e, s, l) ==
    LET all == IF l + e < 1 THEN 1 ELSE l + e IN
    IF 10 * (s + e) <= all THEN 2 ELSE IF 10 * (s + e) <= 3 * all THEN 1 ELSE 0
Rates == {0, 2, 4, 6, 8, 10}

\* The signal of the refusals is one of six, and falls with each.
LEMMA RateFalls ==
    ASSUME NEW a \in Nat, NEW r \in Nat
    PROVE  RateOf(r, a + r) \in Rates /\ RateOf(r + 1, a + (r + 1)) <= RateOf(r, a + r)
  BY DEF RateOf, Rates

\* The cap is one of four, and falls with the signal and with more calls.
LEMMA CapFalls ==
    ASSUME NEW n \in Nat, NEW m \in Nat, n <= m, NEW x \in Rates, NEW y \in Rates, y <= x
    PROVE  CapOf(n, x) \in {300, 450, 600, 1000} /\ CapOf(m, y) <= CapOf(n, x)
  BY DEF CapOf, Rates

\* The signal of the pace is one of four, and falls with each call.
LEMMA SpeedFalls ==
    ASSUME NEW c \in Nat, NEW d \in Nat, c <= d, NEW b \in Nat
    PROVE  SpeedOf(c, b) \in {3, 5, 8, 10} /\ SpeedOf(d, b) <= SpeedOf(c, b)
  BY DEF SpeedOf

\* The signal and the cap of a history, by its counts.
LEMMA RateIs ==
    ASSUME NEW h \in Counted
    PROVE  /\ TR!Observed(h) = h.allowed + h.refused /\ TR!Collapsed(h).refused = h.refused
           /\ TR!ViolationRate(h) = RateOf(h.refused, h.allowed + h.refused)
           /\ TR!ViolationCap(h) = CapOf(h.allowed + h.refused, RateOf(h.refused, h.allowed + h.refused))
<1>1. TR!Collapsed(h).refused = h.refused /\ TR!Collapsed(h).allowed = h.allowed
  BY DEF TR!Collapsed
<1>2. TR!Observed(h) = h.allowed + h.refused
  BY <1>1 DEF TR!Observed
<1>3. TR!ViolationRate(h) = RateOf(h.refused, h.allowed + h.refused)
  BY <1>1, <1>2, Zenon DEF TR!ViolationRate, RateOf
<1>4. PICK a \in Nat, r \in Nat : a = h.allowed /\ r = h.refused
  BY DEF Counted, Counts5
<1>5. PICK q : q = RateOf(r, a + r) /\ q \in Rates
  BY RateFalls
<1>6. TR!ViolationRate(h) = q /\ TR!Observed(h) = a + r
  BY <1>2, <1>3, <1>4, <1>5
<1>7. TR!ViolationCap(h) = IF a + r < 20 THEN 1000 ELSE IF q <= 0 THEN 300 ELSE IF q = 2 THEN 450 ELSE IF q = 4 THEN 600 ELSE 1000
  BY <1>6 DEF TR!ViolationCap
<1>8. TR!ViolationCap(h) = CapOf(a + r, q)
  BY <1>4, <1>5, <1>7 DEF CapOf, Rates
<1> QED BY <1>1, <1>2, <1>3, <1>4, <1>5, <1>8

\* Inputs with any history, cap, threshold and outage.
Judged ==
    [history : Counted, minutes : {0, 60}, knows : {"nothing", "tool", "others"},
     scope : {"open", "allowed", "blocked", "other"}, entropy : {10, 48}, usual : [mean : Nat, std : Nat], depth : {0, 4},
     frozen : BOOLEAN, cap : Int, threshold : Int, fails : SUBSET TR!Lookups]

\* Every input of the module is one of them.
LEMMA InputsAreJudged ==
    ASSUME ScoreConstants
    PROVE  TR!Inputs \subseteq Judged
  BY DEF TR!Inputs, Judged, ScoreConstants

\* What a call is judged on.
LEMMA InputIs ==
    ASSUME NEW i \in Judged
    PROVE  /\ i.history \in Counted /\ TR!SafeHistory(i) \in Counted
           /\ i.cap \in Int /\ i.threshold \in Int /\ i.fails \in SUBSET TR!Lookups /\ i.frozen \in BOOLEAN
           /\ i.minutes \in {0, 60} /\ i.entropy \in {10, 48} /\ i.depth \in {0, 4}
           /\ i.usual.mean \in Nat /\ i.usual.std \in Nat
           /\ i.scope \in {"open", "allowed", "blocked", "other"} /\ i.knows \in {"nothing", "tool", "others"}
<1>1. TR!Unreadable \in Counted
  BY DEF TR!Unreadable, Counted, Counts5
<1>2. i.history \in Counted /\ TR!SafeHistory(i) \in Counted
  BY <1>1 DEF Judged, TR!SafeHistory
<1> QED BY <1>2 DEF Judged

\* The counts of a history.
LEMMA CountsAre ==
    ASSUME NEW h \in Counted
    PROVE  /\ h.allowed \in Nat /\ h.refused \in Nat /\ h.repeated \in Nat /\ h.recent \in Nat /\ h.strange \in Nat
           /\ h.strange <= 20 /\ h.strange <= h.allowed + h.refused + h.repeated
  BY DEF Counted, Counts5

\* The novelty signal, by its step.
LEMMA NoveltyIs ==
    ASSUME NEW i \in Judged, NEW h \in Counted, NEW e, e = IF i.knows = "tool" THEN 0 ELSE 1,
           NEW f, f = FamiliarOf(e, h.strange, TR!Recent(h))
    PROVE  /\ f \in {0, 1, 2}
           /\ TR!ToolNovelty(i, h) = IF i.knows = "nothing" \/ "profile" \in i.fails THEN 5
                 ELSE IF i.knows = "tool" THEN (IF f = 2 THEN 10 ELSE IF f = 1 THEN 7 ELSE 5)
                 ELSE (IF f = 2 THEN 7 ELSE IF f = 1 THEN 4 ELSE 2)
<1>1. PICK s, l : s = h.strange /\ l = TR!Recent(h)
  OBVIOUS
<1>2. f = LET all == IF l + e < 1 THEN 1 ELSE l + e IN
          IF 10 * (s + e) <= all THEN 2 ELSE IF 10 * (s + e) <= 3 * all THEN 1 ELSE 0
  BY <1>1, Zenon DEF FamiliarOf
<1>3. f \in {0, 1, 2}
  BY <1>2
<1>4. CASE 10 * (s + e) <= (IF l + e < 1 THEN 1 ELSE l + e)
  <2>1. f = 2
    BY <1>2, <1>4
  <2> QED BY <1>1, <1>4, <2>1 DEF TR!ToolNovelty
<1>5. CASE ~ (10 * (s + e) <= (IF l + e < 1 THEN 1 ELSE l + e)) /\ 10 * (s + e) <= 3 * (IF l + e < 1 THEN 1 ELSE l + e)
  <2>1. f = 1
    BY <1>2, <1>5
  <2> QED BY <1>1, <1>5, <2>1 DEF TR!ToolNovelty
<1>6. CASE ~ (10 * (s + e) <= (IF l + e < 1 THEN 1 ELSE l + e)) /\ ~ (10 * (s + e) <= 3 * (IF l + e < 1 THEN 1 ELSE l + e))
  <2>1. f = 0
    BY <1>2, <1>6
  <2> QED BY <1>1, <1>6, <2>1 DEF TR!ToolNovelty
<1> QED BY <1>3, <1>4, <1>5, <1>6

\* A further entry takes the novelty signal up a step at most, and not at all if it is strange.
LEMMA FamiliarSteps ==
    ASSUME NEW e \in {0, 1}, NEW n \in Nat, NEW s \in Nat, s <= n, s <= 20, NEW l, l = IF n < 20 THEN n ELSE 20,
           NEW m, m = IF n + 1 < 20 THEN n + 1 ELSE 20, NEW k \in {0, 1}, NEW z \in Nat,
           IF l < 20 THEN z = s + k ELSE z = s + k \/ z = s + k - 1
    PROVE  /\ FamiliarOf(e, z, m) <= FamiliarOf(e, s, l) + 1
           /\ k = 1 => FamiliarOf(e, z, m) <= FamiliarOf(e, s, l)
<1>1. l \in 0..20 /\ m \in 1..20 /\ ((m = l + 1 /\ l < 20) \/ (m = l /\ l = 20)) /\ s <= l
  OBVIOUS
<1>2. CASE e = 0
  BY <1>1, <1>2 DEF FamiliarOf
<1>3. CASE e = 1
  BY <1>1, <1>3 DEF FamiliarOf
<1> QED BY <1>2, <1>3

\* The signals, but for the ones of the refusals and of the pace.
LEMMA OthersAre ==
    ASSUME NEW i \in Judged, NEW h \in Counted
    PROVE  /\ TR!ToolNovelty(i, h) \in {2, 4, 5, 7, 10} /\ TR!ScopeDrift(i) \in {0, 5, 7, 10}
           /\ TR!ParamEntropy(i) \in {2, 4, 7, 10} /\ TR!ChainDepth(i) \in {2, 10}
           /\ "profile" \in i.fails => TR!ToolNovelty(i, h) = 5 /\ TR!ScopeDrift(i) = 0
<1>1. TR!ParamEntropy(i) \in {2, 4, 7, 10}
  BY DEF TR!ParamEntropy
<1>2. TR!ChainDepth(i) \in {2, 10}
  BY InputIs DEF TR!ChainDepth
<1>3. TR!ScopeDrift(i) \in {0, 5, 7, 10} /\ ("profile" \in i.fails => TR!ScopeDrift(i) = 0)
  BY DEF TR!ScopeDrift
<1>4. TR!ToolNovelty(i, h) \in {2, 4, 5, 7, 10} /\ ("profile" \in i.fails => TR!ToolNovelty(i, h) = 5)
  <2>1. PICK e, f : e = (IF i.knows = "tool" THEN 0 ELSE 1) /\ f = FamiliarOf(e, h.strange, TR!Recent(h))
    OBVIOUS
  <2> QED BY <2>1, NoveltyIs
<1> QED BY <1>1, <1>2, <1>3, <1>4

\* One call with another history, just as recent or more so; all else is read alike.
Alike(i, j) ==
    /\ j.knows = i.knows /\ j.scope = i.scope /\ j.entropy = i.entropy /\ j.usual = i.usual /\ j.depth = i.depth
    /\ j.frozen = i.frozen /\ j.cap = i.cap /\ j.fails = i.fails /\ j.minutes <= i.minutes

\* The signal of the time since a refusal falls with the first refusal.
LEMMA DecayIs ==
    ASSUME NEW i \in Judged, NEW j \in Judged, Alike(i, j), NEW h \in Counted, NEW g \in Counted, h.refused <= g.refused
    PROVE  TR!TimeDecay(i, h) \in {1, 4, 10} /\ TR!TimeDecay(j, g) \in {1, 4, 10} /\ TR!TimeDecay(j, g) <= TR!TimeDecay(i, h)
<1>1. ASSUME NEW k \in Judged, NEW c \in Counted, NEW m \in {0, 60}, m = IF "history" \in k.fails THEN 0 ELSE k.minutes
      PROVE  TR!TimeDecay(k, c) = IF c.refused = 0 THEN 10 ELSE IF m >= 60 THEN 4 ELSE 1
  <2>1. TR!Collapsed(c).refused = c.refused
    BY RateIs
  <2>2. TR!TimeDecay(k, c) = IF c.refused = 0 THEN 10
           ELSE IF m >= 1440 THEN 10 ELSE IF m >= 720 THEN 8 ELSE IF m >= 360 THEN 6
           ELSE IF m >= 60 THEN 4 ELSE IF m >= 10 THEN 2 ELSE 1
    BY <1>1, <2>1 DEF TR!TimeDecay
  <2> QED BY <1>1, <2>2
<1>2. PICK m \in {0, 60} : m = IF "history" \in i.fails THEN 0 ELSE i.minutes
  BY InputIs
<1>3. PICK n \in {0, 60} : n = IF "history" \in j.fails THEN 0 ELSE j.minutes
  BY InputIs
<1>4. n <= m
  BY <1>2, <1>3, InputIs DEF Alike
<1>5. h.refused \in Nat /\ g.refused \in Nat
  BY CountsAre
<1>6. TR!TimeDecay(i, h) = IF h.refused = 0 THEN 10 ELSE IF m >= 60 THEN 4 ELSE 1
  BY <1>1, <1>2
<1>7. TR!TimeDecay(j, g) = IF g.refused = 0 THEN 10 ELSE IF n >= 60 THEN 4 ELSE 1
  BY <1>1, <1>3
<1> QED BY <1>2, <1>3, <1>4, <1>5, <1>6, <1>7

\* The signal of the pace of a history, by its counts.
LEMMA SpeedIs ==
    ASSUME ScoreConstants, NEW i \in Judged, NEW j \in Judged, i.fails = j.fails,
           NEW h \in Counted, NEW g \in Counted, h.recent <= g.recent
    PROVE  /\ TR!SessionVelocity(i, h) \in {3, 5, 8, 10} /\ TR!SessionVelocity(j, g) \in {3, 5, 8, 10}
           /\ TR!SessionVelocity(j, g) <= TR!SessionVelocity(i, h)
<1>1. PICK b \in Nat : b = IF "profile" \in i.fails THEN 1 ELSE BaselineRpm
  BY DEF ScoreConstants
<1>2. PICK c \in Nat, d \in Nat : c = h.recent + 1 /\ d = g.recent + 1 /\ c <= d /\ d <= d
  BY CountsAre
<1>3. TR!SessionVelocity(i, h) = SpeedOf(c, b)
  BY <1>1, <1>2, Zenon DEF TR!SessionVelocity, SpeedOf
<1>4. TR!SessionVelocity(j, g) = SpeedOf(d, b)
  BY <1>1, <1>2, Zenon DEF TR!SessionVelocity, SpeedOf
<1> QED BY <1>2, <1>3, <1>4, SpeedFalls

\* Signals that the history does not decide, and what is read of the flags.
LEMMA SameProfile ==
    ASSUME NEW i, NEW j, Alike(i, j)
    PROVE  /\ TR!ScopeDrift(j) = TR!ScopeDrift(i) /\ TR!ParamEntropy(j) = TR!ParamEntropy(i)
           /\ TR!ChainDepth(j) = TR!ChainDepth(i)
           /\ TR!Frozen(j) = TR!Frozen(i) /\ TR!Override(j) = TR!Override(i)
<1>1. TR!ScopeDrift(j) = TR!ScopeDrift(i)
  BY DEF TR!ScopeDrift, Alike
<1>2. TR!ParamEntropy(j) = TR!ParamEntropy(i)
  BY Zenon DEF TR!ParamEntropy, Alike
<1>3. TR!ChainDepth(j) = TR!ChainDepth(i)
  BY DEF TR!ChainDepth, Alike
<1>4. TR!Frozen(j) = TR!Frozen(i)
  BY Zenon DEF TR!Frozen, Alike
<1>5. TR!Override(j) = TR!Override(i)
  BY DEF TR!Override, Alike
<1> QED BY <1>1, <1>2, <1>3, <1>4, <1>5

\* The weighted sum is at most a thousand, and falls with every refusal but for what novelty gives.
LEMMA SumFalls ==
    ASSUME ScoreConstants, NEW i \in Judged, NEW j \in Judged, Alike(i, j), NEW h \in Counted, NEW g \in Counted,
           g.allowed = h.allowed, g.refused = h.refused \/ g.refused = h.refused + 1, h.recent <= g.recent,
           NEW u \in {0, 3}, TR!ToolNovelty(j, g) <= TR!ToolNovelty(i, h) + u
    PROVE  /\ TR!Weighted(i, h) \in 0..1000 /\ TR!Weighted(j, g) \in 0..1000
           /\ TR!Weighted(j, g) <= TR!Weighted(i, h) + 20 * u
           /\ TR!ViolationCap(h) \in {300, 450, 600, 1000} /\ TR!ViolationCap(g) \in {300, 450, 600, 1000}
           /\ TR!ViolationCap(g) <= TR!ViolationCap(h)
<1>1. PICK a \in Nat, r \in Nat : a = h.allowed /\ r = h.refused
  BY CountsAre
<1>2. PICK s \in Nat : s = g.refused /\ (s = r \/ s = r + 1)
  BY <1>1, CountsAre
<1>4. PICK v \in Rates, w \in Rates : v = RateOf(r, a + r) /\ w = RateOf(s, a + s) /\ w <= v
  <2>1. RateOf(r, a + r) \in Rates /\ RateOf(r + 1, a + (r + 1)) \in Rates
    BY RateFalls, r + 1 \in Nat
  <2>2. RateOf(r + 1, a + (r + 1)) <= RateOf(r, a + r)
    BY RateFalls
  <2>3. RateOf(r, a + r) <= RateOf(r, a + r)
    BY <2>1 DEF Rates
  <2> QED BY <1>2, <2>1, <2>2, <2>3
<1>5. TR!ViolationRate(h) = v /\ TR!ViolationRate(g) = w
  BY <1>1, <1>2, <1>4, RateIs
<1>6. TR!ViolationCap(h) = CapOf(a + r, v) /\ TR!ViolationCap(g) = CapOf(a + s, w)
  BY <1>1, <1>2, <1>4, RateIs
<1>7. a + r \in Nat /\ a + s \in Nat /\ a + r <= a + s
  BY <1>2
<1>8. CapOf(a + r, v) \in {300, 450, 600, 1000} /\ CapOf(a + s, w) <= CapOf(a + r, v)
  BY <1>4, <1>7, CapFalls
<1>9. CapOf(a + s, w) \in {300, 450, 600, 1000}
  <2>1. w <= w
    BY DEF Rates
  <2> QED BY <1>7, <2>1, CapFalls
<1>10. PICK t, t2, q, e, k : /\ t = TR!ToolNovelty(i, h) /\ t2 = TR!ToolNovelty(j, g) /\ q = TR!ScopeDrift(i)
                             /\ e = TR!ParamEntropy(i) /\ k = TR!ChainDepth(i)
                             /\ t \in {2, 4, 5, 7, 10} /\ t2 \in {2, 4, 5, 7, 10} /\ t2 <= t + u
                             /\ q \in {0, 5, 7, 10} /\ e \in {2, 4, 7, 10} /\ k \in {2, 10}
  BY OthersAre
<1>10a. TR!ScopeDrift(j) = q /\ TR!ParamEntropy(j) = e /\ TR!ChainDepth(j) = k
  BY <1>10, SameProfile
<1>11. PICK d, f : /\ d = TR!TimeDecay(i, h) /\ f = TR!TimeDecay(j, g) /\ d \in {1, 4, 10} /\ f \in {1, 4, 10} /\ f <= d
  <2>1. h.refused <= g.refused
    BY <1>1, <1>2
  <2> QED BY <2>1, DecayIs
<1>12. PICK z, y : /\ z = TR!SessionVelocity(i, h) /\ y = TR!SessionVelocity(j, g)
                   /\ z \in {3, 5, 8, 10} /\ y \in {3, 5, 8, 10} /\ y <= z
  <2>1. i.fails = j.fails
    BY DEF Alike
  <2> QED BY <2>1, SpeedIs
<1>13. TR!Weighted(i, h) = 25 * v + 20 * t + 15 * q + 15 * e + 10 * d + 10 * k + 5 * z
  BY <1>5, <1>10, <1>11, <1>12, Zenon DEF TR!Weighted
<1>13a. TR!Weighted(j, g) = 25 * w + 20 * t2 + 15 * q + 15 * e + 10 * f + 10 * k + 5 * y
  BY <1>5, <1>10, <1>10a, <1>11, <1>12, Zenon DEF TR!Weighted
<1>14. 0 <= v /\ v <= 10 /\ 0 <= w /\ w <= v /\ v \in Int /\ w \in Int
  BY <1>4 DEF Rates
<1>15. /\ 0 <= t /\ t <= 10 /\ 0 <= t2 /\ t2 <= 10 /\ t2 <= t + u /\ 0 <= q /\ q <= 10 /\ 0 <= e /\ e <= 10 /\ 0 <= k /\ k <= 10
       /\ t \in Int /\ t2 \in Int /\ q \in Int /\ e \in Int /\ k \in Int /\ u \in Int
  BY <1>10
<1>16. /\ 0 <= d /\ d <= 10 /\ 0 <= f /\ f <= d /\ 0 <= z /\ z <= 10 /\ 0 <= y /\ y <= z
       /\ d \in Int /\ f \in Int /\ z \in Int /\ y \in Int
  BY <1>11, <1>12
<1>17. /\ TR!Weighted(i, h) \in 0..1000 /\ TR!Weighted(j, g) \in 0..1000 /\ TR!Weighted(j, g) <= TR!Weighted(i, h) + 20 * u
  <2>1. PICK A, B : A = TR!Weighted(i, h) /\ B = TR!Weighted(j, g)
    OBVIOUS
  <2>2. A \in Int /\ B \in Int
    BY <1>13, <1>13a, <1>14, <1>15, <1>16, <2>1
  <2>3. 0 <= A /\ A <= 1000
    BY <1>13, <1>14, <1>15, <1>16, <2>1
  <2>4. 0 <= B /\ B <= 1000
    BY <1>13a, <1>14, <1>15, <1>16, <2>1
  <2>5. B <= A + 20 * u
    BY <1>13, <1>13a, <1>14, <1>15, <1>16, <2>1
  <2>6. A \in 0..1000 /\ B \in 0..1000
    BY <2>2, <2>3, <2>4
  <2> QED BY <2>1, <2>5, <2>6
<1> QED BY <1>6, <1>8, <1>9, <1>17

\* The answer of a call.
ScoreIs(i) ==
    scored = <<[score |-> TR!Score(i), category |-> TR!Categorize(i, TR!Score(i))]>>
ScoreInv == judged \in TR!Inputs /\ (scored = <<>> \/ ScoreIs(judged))

\* What was answered is what the functions compute.
LEMMA ScoreInvHolds == TR!Spec => []ScoreInv
<1>1. TR!Init => ScoreInv
  BY DEF TR!Init, ScoreInv
<1>2. ScoreInv /\ [TR!Next]_TR!vars => ScoreInv'
  BY DEF ScoreInv, ScoreIs, TR!Next, TR!Calculate, TR!vars
<1> QED BY <1>1, <1>2, PTL DEF TR!Spec

\* The score is the weighted sum under the cap of a history, under the admin's cap.
IsMin(i, h) ==
    /\ TR!Weighted(i, h) \in 0..1000 /\ TR!ViolationCap(h) \in {300, 450, 600, 1000} /\ TR!WeightedSum(i, h) \in 0..1000
    /\ TR!WeightedSum(i, h) = IF TR!Weighted(i, h) < TR!ViolationCap(h) THEN TR!Weighted(i, h) ELSE TR!ViolationCap(h)
    /\ TR!Score(i) = IF TR!Frozen(i) THEN 0
                     ELSE IF TR!Override(i) >= 0 /\ TR!Override(i) < TR!WeightedSum(i, h)
                          THEN TR!Override(i) ELSE TR!WeightedSum(i, h)

\* The same with names for the three terms.
Least(i, h, w, c, s) ==
    /\ w = TR!Weighted(i, h) /\ c = TR!ViolationCap(h) /\ w \in 0..1000 /\ c \in {300, 450, 600, 1000}
    /\ s = (IF w < c THEN w ELSE c) /\ s \in 0..1000
    /\ TR!Score(i) = IF TR!Frozen(i) THEN 0
                     ELSE IF TR!Override(i) >= 0 /\ TR!Override(i) < s THEN TR!Override(i) ELSE s

LEMMA MinNamed ==
    ASSUME NEW i, NEW h, IsMin(i, h)
    PROVE  \E w, c, s : Least(i, h, w, c, s)
<1>1. Least(i, h, TR!Weighted(i, h), TR!ViolationCap(h), TR!WeightedSum(i, h))
  BY SMT DEF IsMin, Least
<1> QED BY <1>1, Zenon

\* The lesser of two numbers, and of it and a cap, rises by no more than the first of them does.
LEMMA LeastFalls ==
    ASSUME NEW w \in Int, NEW c \in Int, NEW v \in Int, NEW d \in Int, NEW b \in Nat, v <= w + b, d <= c
    PROVE  (IF v < d THEN v ELSE d) <= (IF w < c THEN w ELSE c) + b
  OBVIOUS

LEMMA CappedFalls ==
    ASSUME NEW s \in Int, NEW t \in Int, NEW o \in Int, NEW b \in Nat, t <= s + b
    PROVE  (IF o >= 0 /\ o < t THEN o ELSE t) <= (IF o >= 0 /\ o < s THEN o ELSE s) + b
  OBVIOUS

\* Every score is that.
LEMMA ScoreIsMin ==
    ASSUME ScoreConstants, NEW i \in Judged
    PROVE  IsMin(i, TR!SafeHistory(i))
<1>1. PICK h \in Counted : h = TR!SafeHistory(i)
  BY InputIs
<1>2. TR!Weighted(i, h) \in 0..1000 /\ TR!ViolationCap(h) \in {300, 450, 600, 1000}
  <2>1. Alike(i, i)
    BY InputIs DEF Alike
  <2>2. h.recent <= h.recent /\ TR!ToolNovelty(i, h) <= TR!ToolNovelty(i, h) + 0
    BY CountsAre, OthersAre
  <2> QED BY <2>1, <2>2, SumFalls
<1>3. TR!WeightedSum(i, h) = IF TR!Weighted(i, h) < TR!ViolationCap(h) THEN TR!Weighted(i, h) ELSE TR!ViolationCap(h)
  BY DEF TR!WeightedSum
<1>4. TR!WeightedSum(i, h) \in 0..1000
  BY <1>2, <1>3
<1>5. TR!Score(i) = IF TR!Frozen(i) THEN 0
                    ELSE IF TR!Override(i) >= 0 /\ TR!Override(i) < TR!WeightedSum(i, h)
                         THEN TR!Override(i) ELSE TR!WeightedSum(i, h)
  BY <1>1, Zenon DEF TR!Score
<1>6. IsMin(i, h)
  BY <1>2, <1>3, <1>4, <1>5 DEF IsMin
<1> QED BY <1>1, <1>6, Zenon

\* A score is a number.
LEMMA ScoreIsANumber ==
    ASSUME ScoreConstants, NEW i \in Judged
    PROVE  TR!Score(i) \in Int
<1>1. PICK h : h = TR!SafeHistory(i)
  OBVIOUS
<1>2. IsMin(i, h)
  BY <1>1, ScoreIsMin
<1>3. PICK w, c, s : Least(i, h, w, c, s)
  BY <1>2, MinNamed, Zenon
<1>4. TR!Override(i) \in Int
  BY InputIs DEF TR!Override
<1>5. s \in 0..1000
  BY <1>3 DEF Least
<1> QED BY <1>3, <1>4, <1>5 DEF Least

\* A history refused throughout is capped under every tier.
LEMMA RefusedIsCapped ==
    ASSUME ScoreConstants, NEW i \in Judged, NEW h, h = TR!SafeHistory(i), i.threshold = -1,
           h.allowed + h.refused >= 20, 5 * h.refused > h.allowed + h.refused
    PROVE  TR!Categorize(i, TR!Score(i)) \in {"low", "frozen"}
<1>1. h \in Counted
  BY InputIs
<1>2. PICK a \in Nat, r \in Nat : a = h.allowed /\ r = h.refused
  BY <1>1, CountsAre
<1>3. RateOf(r, a + r) = 0
  BY <1>2 DEF RateOf
<1>4. TR!ViolationCap(h) = 300
  <2>1. TR!ViolationCap(h) = CapOf(a + r, 0)
    BY <1>1, <1>2, <1>3, RateIs
  <2> QED BY <1>2, <2>1 DEF CapOf
<1>5n. PICK w, c, s : Least(i, h, w, c, s)
  <2>1. IsMin(i, h)
    BY ScoreIsMin
  <2> QED BY <2>1, MinNamed, Zenon
<1>5. /\ w = TR!Weighted(i, h) /\ c = TR!ViolationCap(h) /\ w \in 0..1000 /\ c \in {300, 450, 600, 1000}
      /\ s = (IF w < c THEN w ELSE c) /\ s \in 0..1000
      /\ TR!Score(i) = IF TR!Frozen(i) THEN 0
                       ELSE IF TR!Override(i) >= 0 /\ TR!Override(i) < s THEN TR!Override(i) ELSE s
  BY <1>5n DEF Least
<1>6. s <= 300
  BY <1>4, <1>5
<1>7. TR!Override(i) \in Int
  BY InputIs DEF TR!Override
<1>8. TR!Score(i) \in Int /\ TR!Score(i) <= 300
  BY <1>5, <1>6, <1>7
<1>9. TR!High(i) = 700 /\ TR!Low(i) = 400
  BY DEF TR!High, TR!Low
<1> QED BY <1>8, <1>9 DEF TR!Categorize

\* One refusal is below every cap.
LEMMA OneIsNotCapped ==
    ASSUME ScoreConstants, NEW i \in Judged, i.fails = {}, ~ i.frozen, i.history.refused <= 1, i.cap = -1
    PROVE  TR!Score(i) = TR!Weighted(i, i.history)
<1>1. TR!SafeHistory(i) = i.history /\ i.history \in Counted
  BY InputIs DEF TR!SafeHistory
<1>2. PICK a \in Nat, r \in Nat : a = i.history.allowed /\ r = i.history.refused
  BY <1>1, CountsAre
<1>3. CapOf(a + r, RateOf(r, a + r)) = 1000
  <2>1. r = 0 \/ r = 1
    BY <1>2
  <2>2. a + r < 20 \/ RateOf(r, a + r) \in {6, 8, 10}
    BY <2>1 DEF RateOf
  <2> QED BY <2>2 DEF CapOf
<1>4. TR!ViolationCap(i.history) = 1000
  BY <1>1, <1>2, <1>3, RateIs
<1>5n. PICK w, c, s : Least(i, i.history, w, c, s)
  <2>1. IsMin(i, i.history)
    BY <1>1, ScoreIsMin
  <2> QED BY <2>1, MinNamed, Zenon
<1>5. /\ w = TR!Weighted(i, i.history) /\ c = TR!ViolationCap(i.history) /\ w \in 0..1000 /\ c \in {300, 450, 600, 1000}
      /\ s = (IF w < c THEN w ELSE c) /\ s \in 0..1000
      /\ TR!Score(i) = IF TR!Frozen(i) THEN 0
                       ELSE IF TR!Override(i) >= 0 /\ TR!Override(i) < s THEN TR!Override(i) ELSE s
  BY <1>5n DEF Least
<1>6. ~ TR!Frozen(i) /\ TR!Override(i) = -1
  BY DEF TR!Frozen, TR!Override
<1>7. s = w
  BY <1>4, <1>5
<1> QED BY <1>5, <1>6, <1>7

\* A refusal lowers, or leaves, the score, but for what novelty gives.
LEMMA RefusalLowers ==
    ASSUME ScoreConstants, NEW i \in Judged, NEW known \in BOOLEAN, NEW j \in TR!Refused(i, known)
    PROVE  TR!Score(j) <= TR!Score(i) + (IF known THEN 60 ELSE 0)
<1> DEFINE n == i.history.allowed + i.history.refused + i.history.repeated
           l == TR!Recent(i.history)
           k == IF known THEN 0 ELSE 1
           u == IF known THEN 3 ELSE 0
<1>1. i.history \in Counted
  BY InputIs
<1>2. PICK z : /\ j = [i EXCEPT !.minutes = 0, !.history = TR!Refusal(i.history, z)]
               /\ z \in IF l < 20 THEN {i.history.strange + k}
                        ELSE {x \in {i.history.strange + k, (i.history.strange + k) - 1} :
                                x = i.history.strange + k => i.history.strange < 20} \ {-1}
  BY DEF TR!Refused
<1>3. /\ n \in Nat /\ l = (IF n < 20 THEN n ELSE 20) /\ i.history.strange \in Nat /\ i.history.strange <= n /\ i.history.strange <= 20
  BY <1>1, CountsAre DEF TR!Recent
<1>4. z \in Nat /\ z <= 20 /\ z <= n + 1 /\ (IF l < 20 THEN z = i.history.strange + k ELSE z = i.history.strange + k \/ z = i.history.strange + k - 1)
  BY <1>2, <1>3
<1>5. j.history = TR!Refusal(i.history, z)
  BY <1>2 DEF Judged
<1>6. /\ j.history.allowed = i.history.allowed /\ j.history.refused = i.history.refused + 1 /\ j.history.repeated = i.history.repeated
      /\ j.history.recent = i.history.recent + 1 /\ j.history.strange = z
  BY <1>1, <1>5 DEF Counted, Counts5, TR!Refusal
<1>7. j.history \in Counted
  <2>1. j.history \in Counts5
    <3>1. i.history \in Counts5 /\ i.history.refused + 1 \in Nat /\ i.history.recent + 1 \in Nat
      BY <1>1 DEF Counted, Counts5
    <3> QED BY <1>4, <1>5, <3>1 DEF Counts5, TR!Refusal
  <2>2. i.history.allowed \in Nat /\ i.history.refused \in Nat /\ i.history.repeated \in Nat
    BY <1>1, CountsAre
  <2> QED BY <1>4, <1>6, <2>1, <2>2 DEF Counted
<1>8. /\ j.minutes = 0 /\ j.knows = i.knows /\ j.scope = i.scope /\ j.entropy = i.entropy /\ j.usual = i.usual
      /\ j.depth = i.depth /\ j.frozen = i.frozen /\ j.cap = i.cap /\ j.threshold = i.threshold /\ j.fails = i.fails
  BY <1>2 DEF Judged
<1>9. j \in Judged
  <2>1. j = [i EXCEPT !.minutes = 0, !.history = j.history]
    BY <1>2, <1>5 DEF Judged
  <2> QED BY <1>7, <2>1 DEF Judged
<1>10. Alike(i, j)
  BY <1>8, InputIs DEF Alike
<1>11. PICK h \in Counted, g \in Counted :
          /\ h = TR!SafeHistory(i) /\ g = TR!SafeHistory(j)
          /\ h = g \/ (h = i.history /\ g = j.history)
  BY <1>7, <1>8, InputIs DEF TR!SafeHistory
<1>12. TR!ToolNovelty(j, g) <= TR!ToolNovelty(i, h) + u
  <2>1. PICK e \in {0, 1} : e = IF i.knows = "tool" THEN 0 ELSE 1
    OBVIOUS
  <2>2. PICK f, f2 : f = FamiliarOf(e, h.strange, TR!Recent(h)) /\ f2 = FamiliarOf(e, g.strange, TR!Recent(g))
    OBVIOUS
  <2>3. f \in {0, 1, 2} /\ f2 \in {0, 1, 2}
    BY <1>9, <1>8, <2>1, <2>2, NoveltyIs
  <2>4. f2 <= f + 1 /\ (k = 1 => f2 <= f)
    <3>1. CASE h = g
      BY <2>2, <2>3, <3>1
    <3>2. CASE h = i.history /\ g = j.history
      <4>1. TR!Recent(g) = IF n + 1 < 20 THEN n + 1 ELSE 20
        <5>1. i.history.allowed \in Nat /\ i.history.refused \in Nat /\ i.history.repeated \in Nat
          BY <1>1, CountsAre
        <5>2. g.allowed + g.refused + g.repeated = n + 1
          BY <1>6, <3>2, <5>1
        <5> QED BY <5>2 DEF TR!Recent
      <4>2. g.strange = z /\ TR!Recent(h) = l
        BY <1>6, <3>2
      <4>3. k \in {0, 1}
        OBVIOUS
      <4> HIDE DEF n, l, k
      <4> QED BY <1>3, <1>4, <2>1, <2>2, <3>2, <4>1, <4>2, <4>3, FamiliarSteps
    <3> QED BY <1>11, <3>1, <3>2
  <2>5. TR!ToolNovelty(i, h) = IF i.knows = "nothing" \/ "profile" \in i.fails THEN 5
                 ELSE IF i.knows = "tool" THEN (IF f = 2 THEN 10 ELSE IF f = 1 THEN 7 ELSE 5)
                 ELSE (IF f = 2 THEN 7 ELSE IF f = 1 THEN 4 ELSE 2)
    BY <2>1, <2>2, NoveltyIs
  <2>6. TR!ToolNovelty(j, g) = IF i.knows = "nothing" \/ "profile" \in i.fails THEN 5
                 ELSE IF i.knows = "tool" THEN (IF f2 = 2 THEN 10 ELSE IF f2 = 1 THEN 7 ELSE 5)
                 ELSE (IF f2 = 2 THEN 7 ELSE IF f2 = 1 THEN 4 ELSE 2)
    BY <1>8, <1>9, <2>1, <2>2, NoveltyIs
  <2>7. CASE known
    BY <2>3, <2>4, <2>5, <2>6, <2>7
  <2>8. CASE ~ known
    BY <2>3, <2>4, <2>5, <2>6, <2>8
  <2> QED BY <2>7, <2>8
<1>13. g.allowed = h.allowed /\ (g.refused = h.refused \/ g.refused = h.refused + 1) /\ h.recent <= g.recent
  BY <1>6, <1>11, CountsAre
<1>14. PICK b \in Nat : b = 20 * u /\ b = IF known THEN 60 ELSE 0
  OBVIOUS
<1>8n. PICK w, c, s : Least(i, h, w, c, s)
  <2>1. IsMin(i, h)
    BY <1>11, ScoreIsMin
  <2> QED BY <2>1, MinNamed, Zenon
<1>15. /\ w = TR!Weighted(i, h) /\ c = TR!ViolationCap(h) /\ w \in 0..1000 /\ c \in {300, 450, 600, 1000}
       /\ s = (IF w < c THEN w ELSE c) /\ s \in 0..1000
       /\ TR!Score(i) = IF TR!Frozen(i) THEN 0
                        ELSE IF TR!Override(i) >= 0 /\ TR!Override(i) < s THEN TR!Override(i) ELSE s
  BY <1>8n DEF Least
<1>9n. PICK v, d, t : Least(j, g, v, d, t)
  <2>1. IsMin(j, g)
    BY <1>9, <1>11, ScoreIsMin
  <2> QED BY <2>1, MinNamed, Zenon
<1>16. /\ v = TR!Weighted(j, g) /\ d = TR!ViolationCap(g) /\ v \in 0..1000 /\ d \in {300, 450, 600, 1000}
       /\ t = (IF v < d THEN v ELSE d) /\ t \in 0..1000
       /\ TR!Score(j) = IF TR!Frozen(j) THEN 0
                        ELSE IF TR!Override(j) >= 0 /\ TR!Override(j) < t THEN TR!Override(j) ELSE t
  BY <1>9n DEF Least
<1>17. v <= w + b /\ d <= c
  <2>1. u \in {0, 3}
    OBVIOUS
  <2>2. TR!Weighted(j, g) <= TR!Weighted(i, h) + 20 * u /\ TR!ViolationCap(g) <= TR!ViolationCap(h)
    <3> HIDE DEF u
    <3> QED BY <1>9, <1>10, <1>12, <1>13, <2>1, SumFalls
  <2> QED BY <1>14, <1>15, <1>16, <2>2
<1>18. t <= s + b
  <2>0. w \in 0..1000 /\ c \in {300, 450, 600, 1000} /\ v \in 0..1000 /\ d \in {300, 450, 600, 1000}
    BY <1>15, <1>16, Zenon
  <2>1. w \in Int /\ c \in Int /\ v \in Int /\ d \in Int
    BY <2>0
  <2>2. (IF v < d THEN v ELSE d) <= (IF w < c THEN w ELSE c) + b
    BY <1>17, <2>1, LeastFalls
  <2>3. s = (IF w < c THEN w ELSE c) /\ t = (IF v < d THEN v ELSE d)
    BY <1>15, <1>16, Zenon
  <2> QED BY <2>2, <2>3
<1>19. TR!Frozen(j) = TR!Frozen(i) /\ TR!Override(j) = TR!Override(i)
  BY <1>10, SameProfile, Zenon
<1>20. PICK o \in Int : o = TR!Override(i)
  BY InputIs DEF TR!Override
<1>21. s \in 0..1000 /\ t \in 0..1000
  BY <1>15, <1>16, Zenon
<1>22. CASE TR!Frozen(i)
  <2>1. TR!Score(i) = 0 /\ TR!Score(j) = 0
    <3>1. TR!Frozen(j)
      BY <1>19, <1>22, Zenon
    <3> QED BY <1>15, <1>16, <1>22, <3>1
  <2> QED BY <1>14, <2>1
<1>23. CASE ~ TR!Frozen(i)
  <2>1. PICK x, y : x = TR!Score(i) /\ y = TR!Score(j)
    OBVIOUS
  <2>2. x = (IF o >= 0 /\ o < s THEN o ELSE s) /\ y = (IF o >= 0 /\ o < t THEN o ELSE t)
    BY <1>15, <1>16, <1>19, <1>20, <1>23, <2>1
  <2>3. s \in Int /\ t \in Int
    BY <1>21
  <2>4. (IF o >= 0 /\ o < t THEN o ELSE t) <= (IF o >= 0 /\ o < s THEN o ELSE s) + b
    BY <1>18, <2>3, CappedFalls
  <2>5. y <= x + b
    BY <2>2, <2>4
  <2> QED BY <1>14, <2>1, <2>5
<1> QED BY <1>22, <1>23

\* A call rated high has its history and its freeze; without its profile it is rated lower, by a bounded amount.
LEMMA FailureNeverLifts ==
    ASSUME ScoreConstants, NEW i \in Judged, NEW j, j = TR!Readable(i), i.threshold = -1,
           TR!Categorize(i, TR!Score(i)) = "high"
    PROVE  TR!Categorize(j, TR!Score(j)) \notin {"low", "frozen"}
<1>1. /\ j.history = i.history /\ j.minutes = i.minutes /\ j.knows = i.knows
      /\ j.scope = i.scope /\ j.entropy = i.entropy /\ j.usual = i.usual /\ j.depth = i.depth /\ j.frozen = i.frozen
      /\ j.threshold = i.threshold /\ j.fails = {} /\ j.cap = TR!Override(i)
  BY DEF Judged, TR!Readable, TR!Override
<1>2. j \in Judged
  BY DEF Judged, TR!Readable
<1>3. "freeze" \notin i.fails /\ "history" \notin i.fails
  <2>2. "freeze" \notin i.fails
    BY DEF TR!Categorize, TR!Frozen
  <2>3. "history" \notin i.fails
    <3> SUFFICES ASSUME "history" \in i.fails PROVE FALSE
      OBVIOUS
    <3>1. TR!SafeHistory(i) = TR!Unreadable
      BY DEF TR!SafeHistory
    <3>2. TR!Unreadable.allowed = 0 /\ TR!Unreadable.refused = 20
      BY DEF TR!Unreadable
    <3>3. TR!Unreadable.allowed + TR!Unreadable.refused >= 20 /\ 5 * TR!Unreadable.refused > TR!Unreadable.allowed + TR!Unreadable.refused
      BY <3>2
    <3> QED BY <3>1, <3>3, RefusedIsCapped
  <2> QED BY <2>2, <2>3
<1>4. PICK h \in Counted : h = TR!SafeHistory(i) /\ h = TR!SafeHistory(j)
  BY <1>1, <1>3, InputIs DEF TR!SafeHistory
<1>5n. PICK w, c, s : Least(i, h, w, c, s)
  <2>1. IsMin(i, h)
    BY <1>4, ScoreIsMin
  <2> QED BY <2>1, MinNamed, Zenon
<1>5. /\ w = TR!Weighted(i, h) /\ c = TR!ViolationCap(h) /\ w \in 0..1000 /\ c \in {300, 450, 600, 1000}
      /\ s = (IF w < c THEN w ELSE c) /\ s \in 0..1000
      /\ TR!Score(i) = IF TR!Frozen(i) THEN 0
                       ELSE IF TR!Override(i) >= 0 /\ TR!Override(i) < s THEN TR!Override(i) ELSE s
  BY <1>5n DEF Least
<1>6n. PICK v, d, t : Least(j, h, v, d, t)
  <2>1. IsMin(j, h)
    BY <1>2, <1>4, ScoreIsMin
  <2> QED BY <2>1, MinNamed, Zenon
<1>6. /\ v = TR!Weighted(j, h) /\ d = TR!ViolationCap(h) /\ v \in 0..1000 /\ d \in {300, 450, 600, 1000}
      /\ t = (IF v < d THEN v ELSE d) /\ t \in 0..1000
      /\ TR!Score(j) = IF TR!Frozen(j) THEN 0
                       ELSE IF TR!Override(j) >= 0 /\ TR!Override(j) < t THEN TR!Override(j) ELSE t
  BY <1>6n DEF Least
<1>7. TR!Frozen(j) = TR!Frozen(i) /\ TR!Override(j) = TR!Override(i)
  <2>1. TR!Frozen(j) = TR!Frozen(i)
    BY <1>1, <1>3 DEF TR!Frozen
  <2>2. TR!Override(j) = j.cap
    BY <1>1 DEF TR!Override
  <2> QED BY <1>1, <2>1, <2>2
<1>8. /\ TR!High(i) = 700 /\ TR!Low(i) = 400 /\ TR!High(j) = 700 /\ TR!Low(j) = 400
  BY <1>1 DEF TR!High, TR!Low
<1>9. ~ TR!Frozen(i) /\ TR!Score(i) >= 700
  BY <1>8 DEF TR!Categorize
<1>10. PICK o \in Int : o = TR!Override(i)
  BY InputIs DEF TR!Override
<1>11. s >= 700 /\ ~ (o >= 0 /\ o < 700)
  BY <1>5, <1>9, <1>10
<1>12. w >= 700 /\ c = 1000
  BY <1>5, <1>11
<1>13. v >= 485
  <2>1. PICK b, p, q, e, k, d1, z, p2, q2, e2, z2 :
          /\ b = TR!ViolationRate(h) /\ p = TR!ToolNovelty(i, h) /\ q = TR!ScopeDrift(i) /\ e = TR!ParamEntropy(i)
          /\ k = TR!ChainDepth(i) /\ d1 = TR!TimeDecay(i, h) /\ z = TR!SessionVelocity(i, h)
          /\ p2 = TR!ToolNovelty(j, h) /\ q2 = TR!ScopeDrift(j) /\ e2 = TR!ParamEntropy(j) /\ z2 = TR!SessionVelocity(j, h)
    OBVIOUS
  <2>2. k = TR!ChainDepth(j)
    BY <1>1, <2>1 DEF TR!ChainDepth
  <2>3. d1 = TR!TimeDecay(j, h)
    <3>1. "history" \notin j.fails
      BY <1>1
    <3> QED BY <1>1, <1>3, <2>1, <3>1 DEF TR!TimeDecay
  <2>4. /\ p2 \in {2, 4, 5, 7, 10} /\ q2 \in {0, 5, 7, 10} /\ e2 \in {2, 4, 7, 10} /\ k \in {2, 10}
        /\ p \in {2, 4, 5, 7, 10} /\ q \in {0, 5, 7, 10} /\ e \in {2, 4, 7, 10}
    BY <1>2, <2>1, OthersAre
  <2>5. z \in {3, 5, 8, 10} /\ z2 \in {3, 5, 8, 10}
    <3>1. h.recent <= h.recent
      BY CountsAre
    <3> QED BY <1>2, <2>1, <3>1, SpeedIs
  <2>6. d1 \in {1, 4, 10}
    <3>1. h.refused <= h.refused /\ Alike(i, i)
      BY CountsAre, InputIs DEF Alike
    <3> QED BY <2>1, <3>1, DecayIs
  <2>7. b \in Rates
    <3>1. b = RateOf(h.refused, h.allowed + h.refused)
      BY <2>1, RateIs
    <3> QED BY <3>1, RateFalls, CountsAre
  <2>8. w = 25 * b + 20 * p + 15 * q + 15 * e + 10 * d1 + 10 * k + 5 * z
    BY <1>5, <2>1, Zenon DEF TR!Weighted
  <2>9. v = 25 * b + 20 * p2 + 15 * q2 + 15 * e2 + 10 * d1 + 10 * k + 5 * z2
    <3>1. TR!Weighted(j, h) = 25 * b + 20 * p2 + 15 * q2 + 15 * e2 + 10 * d1 + 10 * k + 5 * z2
      BY <2>1, <2>2, <2>3, Zenon DEF TR!Weighted
    <3> QED BY <1>6, <3>1, Zenon
  <2>10. b \in Int /\ d1 \in Int /\ k \in Int
    BY <2>4, <2>6, <2>7 DEF Rates
  <2>11. /\ p \in Int /\ q \in Int /\ e \in Int /\ z \in Int /\ p2 \in Int /\ q2 \in Int /\ e2 \in Int /\ z2 \in Int
         /\ p2 >= 2 /\ q2 >= 0 /\ e2 >= 2 /\ z2 >= 3 /\ e <= 10 /\ z <= 10
    BY <2>4, <2>5
  <2>12. w - v <= 215
    <3>1. CASE "profile" \in i.fails
      <4>1. p = 5 /\ q = 0
        BY <2>1, <3>1, OthersAre
      <4> QED BY <2>8, <2>9, <2>10, <2>11, <4>1
    <3>2. CASE "profile" \notin i.fails
      <4>1. p2 = p
        <5>1. PICK x, f : x = (IF i.knows = "tool" THEN 0 ELSE 1) /\ f = FamiliarOf(x, h.strange, TR!Recent(h))
          OBVIOUS
        <5>2. "profile" \notin j.fails
          BY <1>1
        <5>3. p = IF i.knows = "nothing" \/ "profile" \in i.fails THEN 5
                 ELSE IF i.knows = "tool" THEN (IF f = 2 THEN 10 ELSE IF f = 1 THEN 7 ELSE 5)
                 ELSE (IF f = 2 THEN 7 ELSE IF f = 1 THEN 4 ELSE 2)
          BY <2>1, <5>1, NoveltyIs
        <5>4. p2 = IF j.knows = "nothing" \/ "profile" \in j.fails THEN 5
                 ELSE IF j.knows = "tool" THEN (IF f = 2 THEN 10 ELSE IF f = 1 THEN 7 ELSE 5)
                 ELSE (IF f = 2 THEN 7 ELSE IF f = 1 THEN 4 ELSE 2)
          BY <1>1, <1>2, <2>1, <5>1, NoveltyIs
        <5> QED BY <1>1, <3>2, <5>2, <5>3, <5>4
      <4>2. q2 = q
        <5>1. "profile" \notin j.fails
          BY <1>1
        <5> QED BY <1>1, <2>1, <3>2, <5>1 DEF TR!ScopeDrift
      <4>3. e2 = e
        <5>1. "profile" \notin j.fails
          BY <1>1
        <5> QED BY <1>1, <2>1, <3>2, <5>1 DEF TR!ParamEntropy
      <4> QED BY <2>8, <2>9, <2>10, <2>11, <4>1, <4>2, <4>3
    <3> QED BY <3>1, <3>2
  <2>13. v \in Int /\ w \in Int
    <3>1. v \in 0..1000 /\ w \in 0..1000
      BY <1>5, <1>6, Zenon
    <3> QED BY <3>1
  <2> QED BY <1>12, <2>12, <2>13
<1>14. t >= 485 /\ TR!Score(j) >= 485 /\ TR!Score(j) \in Int
  BY <1>5, <1>6, <1>7, <1>9, <1>10, <1>11, <1>12, <1>13
<1> QED BY <1>7, <1>8, <1>9, <1>14 DEF TR!Categorize

(* For any history, profile, cap and pace, and whichever reads fail: one   *)
(* refused call never caps a score; an agent refused more than one call in *)
(* five of at least twenty, or whose history cannot be read, is held under *)
(* the default tiers; a call is rated high only if it would not be held    *)
(* with everything readable, the cap aside, which fails open; and one more *)
(* refusal never raises the score, but for a step of the novelty signal if *)
(* the profile knows its tool (TrustCalculator.calculate, _violation_cap,  *)
(* the fallbacks of its reads and its signals).                            *)
THEOREM ScoresFair ==
    ASSUME ScoreConstants
    PROVE  TR!Spec => [](/\ TR!OneRefusalNeverCaps /\ TR!SustainedRefusalsEscalate
                         /\ TR!OutagesLiftOnlyTheCap /\ TR!RefusalsRaiseOnlyFamiliarity)
<1>1. ASSUME ScoreInv
      PROVE  /\ TR!OneRefusalNeverCaps /\ TR!SustainedRefusalsEscalate
             /\ TR!OutagesLiftOnlyTheCap /\ TR!RefusalsRaiseOnlyFamiliarity
  <2>1. judged \in Judged
    BY <1>1, InputsAreJudged DEF ScoreInv
  <2>2. CASE scored = <<>>
    BY <2>2 DEF TR!OneRefusalNeverCaps, TR!SustainedRefusalsEscalate, TR!OutagesLiftOnlyTheCap, TR!RefusalsRaiseOnlyFamiliarity
  <2>3. CASE scored # <<>>
    <3>1. scored[1].score = TR!Score(judged) /\ scored[1].category = TR!Categorize(judged, TR!Score(judged))
      BY <1>1, <2>3 DEF ScoreInv, ScoreIs
    <3>2. TR!OneRefusalNeverCaps
      BY <2>1, <3>1, OneIsNotCapped DEF TR!OneRefusalNeverCaps
    <3>3. TR!SustainedRefusalsEscalate
      <4>1. CASE "history" \in judged.fails
        <5>1. TR!SafeHistory(judged) = TR!Unreadable
          BY <4>1 DEF TR!SafeHistory
        <5>2. TR!Unreadable.allowed = 0 /\ TR!Unreadable.refused = 20
          BY DEF TR!Unreadable
        <5>3. TR!Unreadable.allowed + TR!Unreadable.refused >= 20 /\ 5 * TR!Unreadable.refused > TR!Unreadable.allowed + TR!Unreadable.refused
          BY <5>2
        <5> QED BY <2>1, <3>1, <5>1, <5>3, RefusedIsCapped DEF TR!SustainedRefusalsEscalate
      <4>2. CASE "history" \notin judged.fails
        <5>1. TR!SafeHistory(judged) = judged.history
          BY <4>2 DEF TR!SafeHistory
        <5> QED BY <2>1, <3>1, <4>2, <5>1, RefusedIsCapped DEF TR!SustainedRefusalsEscalate
      <4> QED BY <4>1, <4>2
    <3>4. TR!OutagesLiftOnlyTheCap
      BY <2>1, <3>1, FailureNeverLifts DEF TR!OutagesLiftOnlyTheCap
    <3>5. TR!RefusalsRaiseOnlyFamiliarity
      <4>1. \A j \in TR!Refused(judged, FALSE) : TR!Score(j) <= TR!Score(judged)
        <5> TAKE j \in TR!Refused(judged, FALSE)
        <5>1. TR!Score(j) <= TR!Score(judged) + (IF FALSE THEN 60 ELSE 0)
          BY <2>1, RefusalLowers
        <5>2. TR!Score(judged) \in Int
          BY <2>1, ScoreIsANumber
        <5> QED BY <5>1, <5>2
      <4>2. \A j \in TR!Refused(judged, TRUE) : TR!Score(j) <= TR!Score(judged) + 60
        <5> TAKE j \in TR!Refused(judged, TRUE)
        <5>1. TR!Score(j) <= TR!Score(judged) + (IF TRUE THEN 60 ELSE 0)
          BY <2>1, RefusalLowers
        <5> QED BY <5>1
      <4> QED BY <3>1, <4>1, <4>2 DEF TR!RefusalsRaiseOnlyFamiliarity
    <3> QED BY <3>2, <3>3, <3>4, <3>5
  <2> QED BY <2>2, <2>3
<1> QED BY <1>1, ScoreInvHolds, PTL

=============================================================================
