----------------------------- MODULE FirstProofs -----------------------------
(***************************************************************************)
(* What happens first decides: the first thread that exposes a signal owns *)
(* it, and the first error of a program is the one that is reported.       *)
(***************************************************************************)
EXTENDS InterpProofs

-----------------------------------------------------------------------------
(* A signal has one owner.                                                   *)

\* Signals are told apart from other cells by what they hold.
ClaimOK(c) == c.is = "signal" => "claimed" \in DOMAIN c
OwnInv == OneOwner /\ \A c \in DOMAIN heap : ClaimOK(heap[c])

\* The cells there were are claimed or not as they were.
Alike(c, d) ==
    DOMAIN d = DOMAIN c /\ d.is = c.is /\ (c.is = "signal" => d.claimed = c.claimed)
HeapAlike(h, hh) ==
    /\ DOMAIN h \subseteq DOMAIN hh /\ \A c \in DOMAIN h : Alike(h[c], hh[c])
    /\ \A c \in DOMAIN hh \ DOMAIN h : ClaimOK(hh[c])

\* Threads own what they owned, and a new one nothing.
OwnersAlike ==
    /\ DOMAIN threads \subseteq DOMAIN threads'
    /\ \A th \in DOMAIN threads : threads'[th].owned = threads[th].owned
    /\ \A th \in DOMAIN threads' \ DOMAIN threads : threads'[th].owned = {}

Unclaiming == HeapAlike(heap, heap') /\ OwnersAlike

\* A step that claims nothing.
LEMMA UnclaimingOwns == ASSUME OwnInv, Unclaiming PROVE OwnInv'
<1>1. ASSUME NEW c \in DOMAIN heap' PROVE ClaimOK(heap'[c])
  BY <1>1 DEF OwnInv, Unclaiming, HeapAlike, Alike, ClaimOK
<1>2. OneOwner'
  BY DEF OwnInv, OneOwner, Unclaiming, HeapAlike, Alike, OwnersAlike
<1> QED BY <1>1, <1>2 DEF OwnInv

\* What does not change claims nothing.
LEMMA SameHeap == HeapAlike(heap, heap)
BY DEF HeapAlike, Alike

\* Nor do threads that do not change.
LEMMA SameOwners == threads' = threads => OwnersAlike
BY DEF OwnersAlike

\* Another value in a field of a cell, other than the two that matter here.
LEMMA PatchAlike ==
    ASSUME NEW c, "is" \in DOMAIN c, NEW f, f \notin {"is", "claimed"}, NEW v,
           NEW d, d = [c EXCEPT ![f] = v]
    PROVE  Alike(c, d)
BY DEF Alike

\* Nor does such a value in a cell of the heap.
LEMMA FieldAlike ==
    ASSUME NEW h, HeapOK(h), NEW c, NEW f, f \notin {"is", "claimed"}, NEW v
    PROVE  HeapAlike(h, [h EXCEPT ![c] = [h[c] EXCEPT ![f] = v]])
<1> DEFINE hh == [h EXCEPT ![c] = [h[c] EXCEPT ![f] = v]]
<1>1. ASSUME NEW d \in DOMAIN h PROVE Alike(h[d], hh[d])
  <2>1. "is" \in DOMAIN h[d]
    BY DEF HeapOK, CellOK
  <2>2. hh[d] = h[d] \/ hh[d] = [h[d] EXCEPT ![f] = v]
    OBVIOUS
  <2> QED BY <2>1, <2>2 DEF Alike
<1> QED BY <1>1 DEF HeapAlike

\* A new cell.
LEMMA CellAlike ==
    ASSUME NEW h, HeapOK(h), NEW ty, NEW fields, ty = "signal" => "claimed" \in DOMAIN fields
    PROVE  HeapAlike(h, Cell(h, ty, fields))
<1> DEFINE hh == Cell(h, ty, fields)
<1>1. Fresh(h, hh, ty, fields)
  BY NewCell
<1> HIDE DEF hh
<1>2. \A c \in DOMAIN hh \ DOMAIN h : ClaimOK(hh[c])
  BY <1>1 DEF Fresh, ClaimOK
<1>3. \A c \in DOMAIN h : Alike(h[c], hh[c])
  BY <1>1 DEF Fresh, Alike
<1> QED BY <1>1, <1>2, <1>3 DEF Fresh, HeapAlike, hh

\* Constructors, methods and stores.
LEMMA OutcomesAlike ==
    ASSUME NEW h, HeapOK(h), NEW n, NEW m, NEW v, NEW i, NEW args
    PROVE  /\ HeapAlike(h, EvalTypeCtor(n, args, h).heap)
           /\ HeapAlike(h, EvalMethodCall(m, v, args, h).heap)
           /\ HeapAlike(h, StoreIndex(v, i, m, h).heap)
<1>1. HeapAlike(h, h)
  BY DEF HeapAlike, Alike
<1>2. \A id, new : /\ HeapAlike(h, [h EXCEPT ![id].items = new])
                   /\ HeapAlike(h, [h EXCEPT ![id].map = new])
                   /\ HeapAlike(h, [h EXCEPT ![id].raised = new])
  BY FieldAlike
<1>3. \A fields : /\ HeapAlike(h, Cell(h, "List", fields))
                  /\ HeapAlike(h, Cell(h, "Map", fields))
  BY CellAlike
<1>4. HeapAlike(h, EvalTypeCtor(n, args, h).heap)
  BY <1>1, <1>3 DEF EvalTypeCtor
<1>5. HeapAlike(h, ListMethod(m, v, args, h).heap)
  BY <1>1, <1>2 DEF ListMethod
<1>6. HeapAlike(h, MapMethod(m, v, args, h).heap)
  BY <1>1, <1>2 DEF MapMethod
<1>7. HeapAlike(h, SignalMethod(m, v, h).heap)
  BY <1>1, <1>2 DEF SignalMethod
<1>8. HeapAlike(h, EvalMethodCall(m, v, args, h).heap)
  BY <1>1, <1>5, <1>6, <1>7 DEF EvalMethodCall
<1>9. HeapAlike(h, StoreIndex(v, i, m, h).heap)
  <2>1. HeapAlike(h, [h EXCEPT ![v[2]].items[i[2] + 1] = m])
    BY FieldAlike
  <2> QED BY <1>1, <2>1 DEF StoreIndex
<1> QED BY <1>4, <1>8, <1>9

\* Breaking what a scope or a thread holds.
LEMMA BreakAlike ==
    ASSUME NEW h, HeapOK(h), NEW prims, NEW reason
    PROVE  HeapAlike(h, BreakPrims(h, prims, reason))
<1> DEFINE hh == BreakPrims(h, prims, reason)
<1>1. DOMAIN hh = DOMAIN h
  BY DEF BreakPrims
<1>2. ASSUME NEW d \in DOMAIN h PROVE Alike(h[d], hh[d])
  <2>1. "is" \in DOMAIN h[d]
    BY DEF HeapOK, CellOK
  <2>2. hh[d] = h[d] \/ hh[d] = [h[d] EXCEPT !.broken = reason]
    BY DEF BreakPrims
  <2>3. Alike(h[d], h[d])
    BY DEF Alike
  <2> HIDE DEF hh
  <2> QED BY <2>1, <2>2, <2>3, PatchAlike
<1> QED BY <1>1, <1>2 DEF HeapAlike

\* A thread with other fields and the same claims.
LEMMA OwnersSet ==
    ASSUME Shape, NEW th, NEW s, threads' = [threads EXCEPT ![th] = s],
           th \in DOMAIN threads => s.owned = threads[th].owned
    PROVE  OwnersAlike
BY DEF OwnersAlike

\* One of its other fields, by itself.
LEMMA OwnersField ==
    ASSUME Shape, NEW th, NEW f \in ThreadRecord \ {"owned"}, NEW v,
           threads' = [threads EXCEPT ![th] = [threads[th] EXCEPT ![f] = v]]
    PROVE  OwnersAlike
<1> DEFINE s == [threads[th] EXCEPT ![f] = v]
<1>1. th \in DOMAIN threads => s.owned = threads[th].owned
  BY DEF Shape, ThreadOK, ThreadRecord
<1> HIDE DEF s
<1> QED BY <1>1, OwnersSet DEF s

\* Steps that leave heap and threads alone.
LEMMA StillSteps ==
    ASSUME \/ Evaluate \/ Operand \/ ApplyValue \/ ApplyWait \/ Invoke \/ CallReturn
           \/ TryStart \/ TryReturn \/ ExecSimple \/ ExecIf \/ BlockStep \/ OperandFails
           \/ ExecWhile \/ WhileStep \/ ExecFor \/ ForStep \/ ExecExclusive \/ FillFails
           \/ ScopeFillFails \/ ScopeEnter \/ ScopeBody \/ ScopeExit \/ ThreadBodyEnds
           \/ HandlerStart \/ TopStep \/ TopEnds \/ Park
           \/ \E t \in DOMAIN tasks : Resume(t) \/ Poll(t)
    PROVE  Unclaiming
<1>1. threads' = threads /\ heap' = heap
  <2>1. CASE \/ Evaluate \/ Operand \/ ApplyValue \/ ApplyWait \/ Invoke \/ CallReturn
             \/ TryStart \/ TryReturn
    BY <2>1 DEF Evaluate, Operand, ApplyValue, ApplyWait, Invoke, CallReturn, TryStart, TryReturn
  <2>2. CASE \/ ExecSimple \/ ExecIf \/ BlockStep \/ OperandFails
             \/ ExecWhile \/ WhileStep \/ ExecFor \/ ForStep \/ ExecExclusive \/ FillFails
    BY <2>2 DEF ExecSimple, ExecIf, BlockStep, OperandFails, ExecWhile, WhileStep, ExecFor,
                ForStep, ExecExclusive, FillFails
  <2>3. CASE \/ ScopeFillFails \/ ScopeEnter \/ ScopeBody \/ ScopeExit \/ ThreadBodyEnds
             \/ HandlerStart \/ TopStep \/ TopEnds \/ Park
    BY <2>3 DEF ScopeFillFails, ScopeEnter, ScopeBody, ScopeExit, ThreadBodyEnds, HandlerStart,
                TopStep, TopEnds, Park, machine
  <2>4. CASE \E t \in DOMAIN tasks : Resume(t) \/ Poll(t)
    BY <2>4 DEF Resume, Poll
  <2> QED BY <2>1, <2>2, <2>3, <2>4
<1> QED BY <1>1, SameHeap, SameOwners DEF Unclaiming

\* Steps that make cells or change them, and no thread.
LEMMA HeapSteps ==
    ASSUME Shape,
           \/ ApplyMethod \/ ApplySpecial \/ ApplyCall \/ ExecAssignIndex \/ FillSlot
           \/ ScopeStart \/ ScopeEnterFails \/ ScopeLeave \/ MiniEnds
    PROVE  Unclaiming
<1>0. HeapOK(heap) /\ HeapAlike(heap, heap)
  BY SameHeap DEF Shape
<1>1. threads' = threads
  BY DEF ApplyMethod, ApplySpecial, ApplyCall, ExecAssignIndex, FillSlot, ScopeStart,
         ScopeEnterFails, ScopeLeave, MiniEnds
<1>2. CASE ApplyMethod \/ ExecAssignIndex
  BY <1>0, <1>1, <1>2, OutcomesAlike, SameOwners DEF ApplyMethod, ExecAssignIndex, Unclaiming
<1>3. CASE ApplySpecial
  <2> DEFINE s == [raised |-> FALSE, broken |-> "", claimed |-> FALSE]
  <2>1. HeapAlike(heap, Cell(heap, "signal", s))
    BY <1>0, CellAlike
  <2>2. heap' = heap \/ heap' = Cell(heap, "signal", s)
    BY <1>3 DEF ApplySpecial, Special
  <2> QED BY <1>0, <1>1, <2>1, <2>2, SameOwners DEF Unclaiming
<1>4. CASE ApplyCall \/ ScopeStart
  <2>1. \A fields : /\ HeapAlike(heap, Cell(heap, "Future", fields))
                    /\ HeapAlike(heap, Cell(heap, "Object", fields))
    BY <1>0, CellAlike
  <2> QED BY <1>0, <1>1, <1>4, <2>1, SameOwners DEF ApplyCall, ScopeStart, Unclaiming
<1>5. CASE FillSlot \/ MiniEnds
  <2>1. /\ \A c, v : HeapAlike(heap, [heap EXCEPT ![c].fields = v])
        /\ \A c, v : HeapAlike(heap, [heap EXCEPT ![c].out = v])
    BY <1>0, FieldAlike
  <2>2. HeapAlike(heap, heap')
    <3>1. CASE FillSlot
      <4>1. heap' = heap \/ \E c, v : heap' = [heap EXCEPT ![c].fields = v]
        BY ONLY <3>1 DEF FillSlot
      <4>2. CASE heap' = heap
        BY <1>0, <4>2
      <4>3. ASSUME NEW c, NEW v, heap' = [heap EXCEPT ![c].fields = v]
            PROVE  HeapAlike(heap, heap')
        BY ONLY <2>1, <4>3
      <4> QED BY <4>1, <4>2, <4>3
    <3>2. CASE MiniEnds
      BY <2>1, <3>2 DEF MiniEnds
    <3> QED BY <1>5, <3>1, <3>2
  <2> QED BY <1>1, <2>2, SameOwners DEF Unclaiming
<1>6. CASE ScopeEnterFails \/ ScopeLeave
  BY <1>0, <1>1, <1>6, BreakAlike, SameOwners DEF ScopeEnterFails, ScopeLeave, Unclaiming
<1> QED BY <1>2, <1>3, <1>4, <1>5, <1>6

\* The end of a thread.
LEMMA FinishAlike ==
    ASSUME Shape, NEW status, FinishThread(status)
    PROVE  Unclaiming
<1>1. HeapAlike(heap, Finish(heap, I.thread, status))
  <2> DEFINE hh == Finish(heap, I.thread, status)
             reason == IF status = "Crashed" THEN "OwnerCrashed" ELSE "OwnerGone"
             bb == BreakPrims(heap, threads[I.thread].owned, reason)
  <2>1. HeapAlike(heap, bb) /\ DOMAIN hh = DOMAIN heap
    BY BreakAlike DEF Shape, Finish
  <2>2. ASSUME NEW c \in DOMAIN heap PROVE Alike(heap[c], hh[c])
    <3>1. hh[c] = [heap[c] EXCEPT !.out = <<"fail", "Target" \o status>>] \/ hh[c] = bb[c]
      BY <2>2 DEF Finish
    <3>2. "is" \in DOMAIN heap[c]
      BY DEF Shape, HeapOK, CellOK
    <3> HIDE DEF hh, bb
    <3> QED BY <2>1, <3>1, <3>2, PatchAlike DEF HeapAlike
  <2> HIDE DEF hh, bb
  <2>3. HeapAlike(heap, hh)
    BY <2>1, <2>2 DEF HeapAlike
  <2> QED BY <2>3 DEF hh
<1>2. OwnersAlike
  <2> DEFINE th == I.thread
             s == [threads[th] EXCEPT !.status = status, !.ready = TRUE, !.queue = <<>>]
  <2>1. threads' = [threads EXCEPT ![th] = s]
    BY DEF FinishThread
  <2>2. th \in DOMAIN threads => s.owned = threads[th].owned
    BY DEF Shape, ThreadOK, ThreadRecord
  <2> HIDE DEF s
  <2> QED BY <2>1, <2>2, OwnersSet
<1> QED BY <1>1, <1>2 DEF FinishThread, Unclaiming

\* Steps of threads, which claim nothing either.
LEMMA ThreadSteps ==
    ASSUME Shape,
           \/ ApplyDispatch \/ ExecSpawn \/ ThreadSetup \/ ThreadEntered \/ ThreadEnds
           \/ HandlerEnds \/ TaskPanics \/ \E t \in DOMAIN tasks : DispatchHandler(t)
    PROVE  Unclaiming
<1>0. /\ HeapOK(heap) /\ HeapAlike(heap, heap)
      /\ \A th \in DOMAIN threads : ThreadOK(threads[th])
  BY SameHeap DEF Shape
<1>a. /\ \A c, v : HeapAlike(heap, [heap EXCEPT ![c].fields = v])
      /\ \A c, v : HeapAlike(heap, [heap EXCEPT ![c].out = v])
      /\ \A fields : HeapAlike(heap, Cell(heap, "HandlerFuture", fields))
      /\ \A fields : HeapAlike(heap, Cell(heap, "Object", fields))
  BY <1>0, FieldAlike, CellAlike
<1>1. ASSUME ApplyDispatch PROVE Unclaiming
  <2>1. HeapAlike(heap, heap')
    BY <1>1, <1>a DEF ApplyDispatch
  <2>2. threads' = threads \/ \E th, v : threads' = [threads EXCEPT ![th].queue = v]
    BY <1>1 DEF ApplyDispatch
  <2>3. ASSUME NEW th, NEW v, threads' = [threads EXCEPT ![th].queue = v] PROVE OwnersAlike
    BY <2>3, OwnersField DEF ThreadRecord
  <2> QED BY <2>1, <2>2, <2>3, SameOwners DEF Unclaiming
<1>2. ASSUME ExecSpawn PROVE Unclaiming
  <2>1. HeapAlike(heap, heap')
    BY <1>0, <1>2, <1>a DEF ExecSpawn
  <2>2. PICK new : threads' = Append(threads, new) /\ new.owned = {}
    <3>1. \A t : NewThread(t).owned = {}
      BY DEF NewThread
    <3>2. threads' = Append(threads, NewThread(Named(program.threads, Node_.x)))
      BY <1>2 DEF ExecSpawn
    <3> QED BY <3>1, <3>2
  <2>3. /\ DOMAIN threads = 1..Len(threads) /\ Len(threads) \in Nat
        /\ DOMAIN threads' = 1..(Len(threads) + 1) /\ threads'[Len(threads) + 1] = new
        /\ \A th \in DOMAIN threads : threads'[th] = threads[th]
    <3>1. IsSeq(threads)
      BY DEF Shape
    <3> QED BY <2>2, <3>1, AppendShape, SeqShape
  <2>4. OwnersAlike
    BY <2>2, <2>3 DEF OwnersAlike
  <2> QED BY <2>1, <2>4 DEF Unclaiming
<1>3. ASSUME ThreadSetup \/ ThreadEnds PROVE Unclaiming
  <2>1. (\E status : FinishThread(status)) \/ (HeapAlike(heap, heap') /\ threads' = threads)
    <3>1. CASE ThreadEnds
      BY <3>1 DEF ThreadEnds
    <3>2. CASE ThreadSetup
      <4>1. \/ \E status : FinishThread(status)
            \/ threads' = threads /\ heap' = heap
            \/ threads' = threads /\ \E c, v : heap' = [heap EXCEPT ![c].fields = v]
        BY ONLY <3>2 DEF ThreadSetup
      <4> QED BY <1>0, <1>a, <4>1
    <3> QED BY <1>3, <3>1, <3>2
  <2> QED BY <2>1, FinishAlike, SameOwners DEF Unclaiming
<1>4. ASSUME ThreadEntered PROVE Unclaiming
  <2>1. OwnersAlike
    <3>1. threads' = [threads EXCEPT ![I.thread].ready = TRUE]
      BY <1>4 DEF ThreadEntered
    <3> QED BY <3>1, OwnersField DEF ThreadRecord
  <2> QED BY <1>0, <1>4, <2>1 DEF ThreadEntered, Unclaiming
<1>5. ASSUME HandlerEnds PROVE Unclaiming
  <2>1. OwnersAlike
    <3>1. threads' = [threads EXCEPT ![I.thread].busy = FALSE]
      BY <1>5 DEF HandlerEnds
    <3> QED BY <3>1, OwnersField DEF ThreadRecord
  <2>2. HeapAlike(heap, heap')
    BY <1>5, <1>a DEF HandlerEnds
  <2> QED BY <2>1, <2>2 DEF Unclaiming
<1>6. ASSUME TaskPanics PROVE Unclaiming
  <2>1. HeapAlike(heap, heap')
    <3>1. CASE T.kont[1].at = "thread"
      <4>1. PICK queued, v : heap' = [c \in DOMAIN heap |->
                IF c \in queued THEN [heap[c] EXCEPT !.out = v] ELSE heap[c]]
        BY ONLY <1>6, <3>1 DEF TaskPanics
      <4>2. ASSUME NEW c \in DOMAIN heap PROVE Alike(heap[c], heap'[c])
        <5>1. "is" \in DOMAIN heap[c]
          BY <1>0 DEF HeapOK, CellOK
        <5>2. heap'[c] = heap[c] \/ heap'[c] = [heap[c] EXCEPT !.out = v]
          BY <4>1
        <5>3. Alike(heap[c], heap[c])
          BY DEF Alike
        <5> QED BY <5>1, <5>2, <5>3, PatchAlike
      <4> QED BY <4>1, <4>2 DEF HeapAlike
    <3>2. CASE T.kont[1].at # "thread"
      <4>1. PICK c, v : heap' = [heap EXCEPT ![c].out = v]
        BY ONLY <1>6, <3>2 DEF TaskPanics
      <4>2. HeapAlike(heap, [heap EXCEPT ![c].out = v])
        BY <1>a
      <4> QED BY <4>1, <4>2
    <3> QED BY <3>1, <3>2
  <2>2. OwnersAlike
    <3>1. CASE T.kont[1].at = "thread"
      <4> DEFINE th == I.thread
                 s == [threads[th] EXCEPT !.gone = TRUE, !.ready = TRUE, !.queue = <<>>]
      <4>1. threads' = [threads EXCEPT ![th] = s]
        BY ONLY <1>6, <3>1 DEF TaskPanics
      <4>2. th \in DOMAIN threads => s.owned = threads[th].owned
        BY <1>0 DEF ThreadOK, ThreadRecord
      <4> HIDE DEF s
      <4> QED BY <4>1, <4>2, OwnersSet
    <3>2. CASE T.kont[1].at # "thread"
      BY <1>6, <3>2, SameOwners DEF TaskPanics
    <3> QED BY <3>1, <3>2
  <2> QED BY <2>1, <2>2 DEF Unclaiming
<1>7. ASSUME NEW t \in DOMAIN tasks, DispatchHandler(t) PROVE Unclaiming
  <2>1. HeapAlike(heap, heap')
    BY <1>7, <1>a DEF DispatchHandler
  <2>2. PICK th, s : /\ threads' = [threads EXCEPT ![th] = s]
                     /\ th \in DOMAIN threads => s.owned = threads[th].owned
    <3> DEFINE th == interps[tasks[t].in].thread
               hs == IF tasks[t].kont[1].t = <<>> THEN <<>>
                     ELSE FirstNamed(tasks[t].kont[1].t[1].handlers, Head(threads[th].queue).x)
               s == [threads[th] EXCEPT !.queue = Tail(@), !.busy = hs # <<>>]
    <3>1. threads' = [threads EXCEPT ![th] = s]
      BY ONLY <1>7 DEF DispatchHandler
    <3>2. th \in DOMAIN threads => s.owned = threads[th].owned
      BY <1>0 DEF ThreadOK, ThreadRecord
    <3> QED BY <3>1, <3>2
  <2> QED BY <2>1, <2>2, OwnersSet DEF Unclaiming
<1> QED BY <1>1, <1>2, <1>3, <1>4, <1>5, <1>6, <1>7

\* What is stored under the name of an exposed field is claimed if nobody did.
LEMMA SyncOwns ==
    ASSUME Shape, OwnInv, running # 0, NEW x, NEW v, SyncThreads(x, v),
           NEW h, HeapAlike(heap, h), DOMAIN h = DOMAIN heap, heap' = SyncHeap(h, x, v)
    PROVE  OwnInv'
<1>1. PICK th : th = I.thread
  OBVIOUS
<1>2. th \in DOMAIN threads \/ ~Synced(x, v)
  <2>1. T.in \in DOMAIN interps /\ InterpOK(I)
    BY Runs, Here DEF T, I
  <2>2. th \in 0..Len(threads) /\ DOMAIN threads = 1..Len(threads) /\ Len(threads) \in Nat
    BY <1>1, <2>1, SeqShape DEF InterpOK, Shape
  <2>3. Synced(x, v) => th # 0
    BY <1>1 DEF Synced, Exposes, I
  <2> QED BY <2>2, <2>3
<1>3. \A u \in DOMAIN threads : ThreadOK(threads[u])
  BY DEF Shape
<1>4. CASE ~Claims(x, v)
  <2>1. heap' = h
    BY <1>4 DEF SyncHeap
  <2>2. OwnersAlike
    <3> DEFINE s == [threads[th] EXCEPT !.fields = Put(@, x, v), !.owned = @]
    <3>1. threads' = threads \/ threads' = [threads EXCEPT ![th] = s]
      BY <1>1, <1>4 DEF SyncThreads
    <3>2. th \in DOMAIN threads => s.owned = threads[th].owned
      BY <1>3 DEF ThreadOK, ThreadRecord
    <3> HIDE DEF s
    <3> QED BY <3>1, <3>2, OwnersSet, SameOwners
  <2> QED BY <2>1, <2>2, UnclaimingOwns DEF Unclaiming
<1>5. CASE Claims(x, v)
  <2>1. PICK c : c = v[2]
    OBVIOUS
  <2>2. /\ Synced(x, v) /\ th \in DOMAIN threads
        /\ c \in DOMAIN heap /\ heap[c].is = "signal" /\ ~heap[c].claimed
    BY <1>2, <1>5, <2>1 DEF Claims
  <2>3. /\ DOMAIN threads' = DOMAIN threads
        /\ \A u \in DOMAIN threads \ {th} : threads'[u].owned = threads[u].owned
        /\ threads'[th].owned = threads[th].owned \cup {c}
    <3> DEFINE s == [threads[th] EXCEPT !.fields = Put(@, x, v), !.owned = @ \cup {c}]
    <3>1. threads' = [threads EXCEPT ![th] = s]
      BY <1>1, <1>5, <2>1, <2>2 DEF SyncThreads
    <3>2. s.owned = threads[th].owned \cup {c}
      BY <1>3, <2>2 DEF ThreadOK, ThreadRecord
    <3> HIDE DEF s
    <3> QED BY <2>2, <3>1, <3>2
  <2>4. heap' = [h EXCEPT ![c].claimed = TRUE]
    BY <1>5, <2>1 DEF SyncHeap
  <2>5. /\ DOMAIN heap' = DOMAIN heap
        /\ \A d \in DOMAIN heap \ {c} : Alike(heap[d], heap'[d])
        /\ heap'[c].is = "signal" /\ heap'[c].claimed /\ "claimed" \in DOMAIN heap'[c]
    <3>1. /\ Alike(heap[c], h[c]) /\ "claimed" \in DOMAIN heap[c] /\ "is" \in DOMAIN heap[c]
      BY <2>2 DEF HeapAlike, OwnInv, ClaimOK, Shape, HeapOK, CellOK
    <3>2. heap'[c] = [h[c] EXCEPT !.claimed = TRUE]
      BY <2>2, <2>4
    <3>3. /\ "claimed" \in DOMAIN h[c] /\ "is" \in DOMAIN h[c] /\ h[c].is = "signal"
      BY <2>2, <3>1 DEF Alike
    <3>4. /\ heap'[c].is = "signal" /\ heap'[c].claimed /\ "claimed" \in DOMAIN heap'[c]
      BY <3>2, <3>3
    <3>5. \A d \in DOMAIN heap \ {c} : heap'[d] = h[d]
      BY <2>4
    <3> QED BY <2>4, <3>4, <3>5 DEF HeapAlike
  <2>6. \A u \in DOMAIN threads : c \notin threads[u].owned
    BY <2>2 DEF OwnInv, OneOwner
  <2>7. \A d \in DOMAIN heap' : ClaimOK(heap'[d])
    BY <2>5 DEF OwnInv, Alike, ClaimOK
  <2>8. ASSUME NEW u \in DOMAIN threads', NEW o \in threads'[u].owned
        PROVE  /\ o \in DOMAIN heap' /\ heap'[o].is = "signal" /\ heap'[o].claimed
               /\ \A w \in DOMAIN threads' \ {u} : o \notin threads'[w].owned
    <3>1. CASE o = c
      BY <2>2, <2>3, <2>5, <2>6, <2>8, <3>1
    <3>2. CASE o # c
      <4>1. o \in threads[u].owned /\ u \in DOMAIN threads
        BY <2>3, <2>8, <3>2
      <4>2. /\ o \in DOMAIN heap /\ heap[o].is = "signal" /\ heap[o].claimed
            /\ \A w \in DOMAIN threads \ {u} : o \notin threads[w].owned
        BY <4>1 DEF OwnInv, OneOwner
      <4>3. o \in DOMAIN heap' /\ heap'[o].is = "signal" /\ heap'[o].claimed
        BY <2>5, <3>2, <4>2 DEF Alike
      <4> QED BY <2>3, <3>2, <4>2, <4>3
    <3> QED BY <3>1, <3>2
  <2> QED BY <2>7, <2>8 DEF OwnInv, OneOwner
<1> QED BY <1>4, <1>5

\* Lets and assignments, which may claim a signal.
LEMMA ClaimSteps ==
    ASSUME Shape, OwnInv, running # 0, ExecLet \/ ExecAssign \/ ExecAssignField
    PROVE  OwnInv'
<1>0. HeapAlike(heap, heap) /\ HeapOK(heap)
  BY SameHeap DEF Shape
<1>1. CASE ExecLet
  BY <1>0, <1>1, SyncOwns DEF ExecLet
<1>2. CASE ExecAssign
  BY <1>0, <1>2, SyncOwns, UnclaimingOwns, SameOwners DEF ExecAssign, Unclaiming
<1>3. CASE ExecAssignField
  <2>1. \/ threads' = threads /\ heap' = heap
        \/ \E x, v, c, w : /\ SyncThreads(x, v)
                           /\ heap' = SyncHeap([heap EXCEPT ![c].fields = w], x, v)
    BY ONLY <1>3 DEF ExecAssignField
  <2>2. ASSUME NEW x, NEW v, NEW c, NEW w, SyncThreads(x, v),
               heap' = SyncHeap([heap EXCEPT ![c].fields = w], x, v)
        PROVE  OwnInv'
    <3> DEFINE h == [heap EXCEPT ![c].fields = w]
    <3>1. HeapAlike(heap, h) /\ DOMAIN h = DOMAIN heap
      BY <1>0, FieldAlike
    <3> HIDE DEF h
    <3>2. heap' = SyncHeap(h, x, v)
      BY <2>2 DEF h
    <3> QED BY <2>2, <3>1, <3>2, SyncOwns
  <2> QED BY <1>0, <2>1, <2>2, UnclaimingOwns, SameOwners DEF Unclaiming
<1> QED BY <1>1, <1>2, <1>3

\* Every step.
LEMMA RunOwns == ASSUME Shape, OwnInv, Run PROVE OwnInv'
<1>1. CASE running # 0 /\ (Expression \/ Statement)
  BY <1>1, StillSteps, HeapSteps, ThreadSteps, ClaimSteps, UnclaimingOwns
     DEF Expression, Statement
<1>2. CASE running # 0 /\ (Scoped \/ Threaded \/ TopStep \/ TopEnds \/ Park)
  BY <1>2, StillSteps, HeapSteps, ThreadSteps, UnclaimingOwns DEF Scoped, Threaded
<1>3. ASSUME NEW t \in DOMAIN tasks, DispatchHandler(t) \/ Resume(t) \/ Poll(t) PROVE OwnInv'
  BY <1>3, StillSteps, ThreadSteps, UnclaimingOwns
<1> QED BY <1>1, <1>2, <1>3 DEF Run

\* A signal that several threads expose belongs to the first of them alone, in
\* every run of every program, and nothing but a signal is owned: so a thread
\* that ends breaks no signal of another.
THEOREM FirstClaimWins == Interpreter => []OneOwner
<1>1. Boot => OwnInv
  BY DEF Boot, Start, OwnInv, OneOwner
<1>2. OwnInv /\ Shape /\ [Run]_<<program, machine>> => OwnInv'
  <2>1. CASE Run
    BY <2>1, RunOwns
  <2>2. CASE UNCHANGED <<program, machine>>
    BY <2>2 DEF machine, OwnInv, OneOwner
  <2> QED BY <2>1, <2>2
<1>3. OwnInv => OneOwner
  BY DEF OwnInv
<1> QED BY <1>1, <1>2, <1>3, WellFormed, PTL DEF Interpreter
-----------------------------------------------------------------------------
(* The first failure is the one that is reported, with its chain of calls.   *)

\* What the main task is in, as values: mode m, continuation k, interpreter
\* state s, and what was raised first, r.

\* A scope block that keeps the error of its body until its exit hook is over.
Holding(x) == x.at = "scope" /\ x.res[1] = "err"

\* The error e is on its way, or held by the lowest of the scope blocks that hold
\* one: at place n of the continuation, or on top of it.
Carried(e, m, k, n) ==
    /\ n \in 1..(Len(k) + 1) /\ e[1] = "err"
    /\ n = Len(k) + 1 => m = e
    /\ n # Len(k) + 1 => k[n].at = "scope" /\ k[n].res = e
    /\ \A j \in 1..Len(k) : j < n => ~Holding(k[j])

\* d[j] calls are in progress below place j, and c altogether.
Depths(d, k, c) ==
    /\ d \in [1..(Len(k) + 1) -> Nat] /\ d[1] = 0 /\ d[Len(k) + 1] = c
    /\ \A j \in 1..Len(k) : d[j + 1] = d[j] + One(k[j].at \in CallItems)
    /\ \A i, j \in 1..(Len(k) + 1) : i <= j => d[i] <= d[j]

Leads(R, f) == Len(R) <= Len(f) /\ \A i \in 1..Len(R) : R[i] = f[i]

\* The chain of calls R is in the backtrace, or it is still there, at most c deep.
Known(R, s, c) ==
    \/ Leads(R, s.bt)
    \/ s.bt = <<>> /\ Leads(R, s.frames) /\ Len(R) <= c

Fine(m, k, s, r) ==
    r = <<>> /\ s.bt = <<>> /\ m[1] # "err" /\ \A j \in 1..Len(k) : ~Holding(k[j])
Failing(m, k, s, r, d) ==
    /\ r # <<>> /\ IsSeq(r[2])
    /\ \E n : Carried(r[1], m, k, n) /\ Known(r[2], s, d[n])
Traced(m, k, s, r) ==
    /\ IsSeq(s.bt)
    /\ \E d : Depths(d, k, Len(s.frames)) /\ (Fine(m, k, s, r) \/ Failing(m, k, s, r, d))

\* What is raised first, once the mode is m.
Marked(r, m, s) == IF m[1] = "err" /\ r = <<>> THEN <<m, s.frames>> ELSE r

\* Another mode, which may be the first failure.
LEMMA TraceMode ==
    ASSUME NEW m, NEW k, NEW s, NEW r, IsSeq(k), IsSeq(s.frames), Traced(m, k, s, r),
           m[1] # "err", NEW mm
    PROVE  Traced(mm, k, s, Marked(r, mm, s))
<1>1. Len(k) \in Nat /\ Len(s.frames) \in Nat
  BY SeqShape
<1>2. PICK d : Depths(d, k, Len(s.frames)) /\ (Fine(m, k, s, r) \/ Failing(m, k, s, r, d))
  BY DEF Traced
<1>3. CASE Fine(m, k, s, r) /\ mm[1] # "err"
  BY <1>2, <1>3 DEF Traced, Fine, Marked
<1>4. CASE Fine(m, k, s, r) /\ mm[1] = "err"
  <2> DEFINE q == <<mm, s.frames>>
  <2>1. Marked(r, mm, s) = q /\ q # <<>> /\ q[1] = mm /\ q[2] = s.frames
    BY <1>4 DEF Fine, Marked
  <2> HIDE DEF q
  <2>2. Carried(q[1], mm, k, Len(k) + 1)
    BY <1>1, <1>4, <2>1 DEF Carried, Fine
  <2>3. Known(q[2], s, d[Len(k) + 1])
    <3>1. d[Len(k) + 1] = Len(s.frames) /\ s.bt = <<>>
      BY <1>2, <1>4 DEF Depths, Fine
    <3> QED BY <1>1, <2>1, <3>1 DEF Known, Leads
  <2>4. Failing(mm, k, s, q, d)
    BY <2>1, <2>2, <2>3 DEF Failing
  <2> QED BY <1>2, <2>1, <2>4 DEF Traced
<1>5. CASE Failing(m, k, s, r, d)
  <2>1. PICK n : Carried(r[1], m, k, n) /\ Known(r[2], s, d[n])
    BY <1>5 DEF Failing
  <2>2. Carried(r[1], mm, k, n)
    BY <2>1 DEF Carried
  <2>3. Failing(mm, k, s, r, d) /\ Marked(r, mm, s) = r
    BY <1>5, <2>1, <2>2 DEF Failing, Marked
  <2> QED BY <1>2, <2>3 DEF Traced
<1> QED BY <1>2, <1>3, <1>4, <1>5

\* One item more or less, and the calls below.
LEMMA DepthPush ==
    ASSUME NEW k, IsSeq(k), NEW d, NEW c \in Nat, Depths(d, k, c), NEW x
    PROVE  \E dd : /\ Depths(dd, Append(k, x), c + One(x.at \in CallItems))
                   /\ \A j \in 1..(Len(k) + 1) : dd[j] = d[j]
<1> DEFINE kk == Append(k, x)
           g == One(x.at \in CallItems)
           dd == [j \in 1..(Len(k) + 2) |-> IF j = Len(k) + 2 THEN c + g ELSE d[j]]
<1>1. /\ Len(k) \in Nat /\ Len(kk) = Len(k) + 1 /\ kk[Len(k) + 1] = x
      /\ \A j \in 1..Len(k) : kk[j] = k[j]
  BY SeqShape, AppendShape
<1>2. g \in Nat
  BY DEF One
<1>3. /\ d \in [1..(Len(k) + 1) -> Nat] /\ d[1] = 0 /\ d[Len(k) + 1] = c
      /\ \A j \in 1..Len(k) : d[j + 1] = d[j] + One(k[j].at \in CallItems)
      /\ \A i, j \in 1..(Len(k) + 1) : i <= j => d[i] <= d[j]
  BY DEF Depths
<1> HIDE DEF kk, g
<1>4. /\ dd \in [1..(Len(k) + 2) -> Nat] /\ dd[Len(k) + 2] = c + g
      /\ \A j \in 1..(Len(k) + 1) : dd[j] = d[j]
  BY <1>1, <1>2, <1>3
<1> HIDE DEF dd
<1>5. dd[1] = 0 /\ dd[Len(k) + 1] = c
  BY <1>1, <1>3, <1>4
<1>6. ASSUME NEW j \in 1..Len(kk) PROVE dd[j + 1] = dd[j] + One(kk[j].at \in CallItems)
  <2>1. CASE j = Len(k) + 1
    BY <1>1, <1>4, <1>5, <2>1 DEF g
  <2>2. CASE j # Len(k) + 1
    <3>1. j \in 1..Len(k) /\ j + 1 \in 1..(Len(k) + 1) /\ j \in 1..(Len(k) + 1)
      BY <1>1, <2>2
    <3> QED BY <1>1, <1>3, <1>4, <3>1
  <2> QED BY <2>1, <2>2
<1>7. ASSUME NEW i \in 1..(Len(kk) + 1), NEW j \in 1..(Len(kk) + 1), i <= j
      PROVE  dd[i] <= dd[j]
  <2>1. CASE i = Len(k) + 2
    BY <1>1, <1>2, <1>4, <1>7, <2>1
  <2>2. CASE i # Len(k) + 2 /\ j = Len(k) + 2
    <3>1. i \in 1..(Len(k) + 1) /\ i <= Len(k) + 1 /\ Len(k) + 1 \in 1..(Len(k) + 1)
      BY <1>1, <2>2
    <3>2. dd[i] = d[i] /\ d[i] <= c /\ d[i] \in Nat
      BY <1>3, <1>4, <3>1
    <3> QED BY <1>2, <1>4, <2>2, <3>2
  <2>3. CASE i # Len(k) + 2 /\ j # Len(k) + 2
    <3>1. i \in 1..(Len(k) + 1) /\ j \in 1..(Len(k) + 1)
      BY <1>1, <2>3
    <3> QED BY <1>3, <1>4, <1>7, <3>1
  <2> QED BY <2>1, <2>2, <2>3
<1>8. Len(kk) + 1 = Len(k) + 2
  BY <1>1
<1>9. Depths(dd, kk, c + g)
  BY <1>4, <1>5, <1>6, <1>7, <1>8 DEF Depths
<1> QED BY <1>4, <1>9 DEF kk, g

\* One item less, and the calls below it.
LEMMA DepthPop ==
    ASSUME NEW k, IsSeq(k), k # <<>>, NEW d, NEW c \in Nat, Depths(d, k, c)
    PROVE  /\ d[Len(k)] \in Nat /\ c = d[Len(k)] + One(Last(k).at \in CallItems)
           /\ \E dd : /\ Depths(dd, Front(k), d[Len(k)])
                      /\ \A j \in 1..Len(k) : dd[j] = d[j]
<1> DEFINE kk == Front(k)
           dd == [j \in 1..Len(k) |-> d[j]]
<1>1. /\ Len(k) \in Nat /\ Len(k) >= 1 /\ Len(kk) = Len(k) - 1 /\ Last(k) = k[Len(k)]
      /\ \A j \in 1..(Len(k) - 1) : kk[j] = k[j]
  BY SeqShape, FrontShape
<1>2. /\ d \in [1..(Len(k) + 1) -> Nat] /\ d[1] = 0 /\ d[Len(k) + 1] = c
      /\ \A j \in 1..Len(k) : d[j + 1] = d[j] + One(k[j].at \in CallItems)
      /\ \A i, j \in 1..(Len(k) + 1) : i <= j => d[i] <= d[j]
  BY DEF Depths
<1> HIDE DEF kk
<1>3. d[Len(k)] \in Nat /\ c = d[Len(k)] + One(Last(k).at \in CallItems)
  BY <1>1, <1>2
<1>4. Depths(dd, kk, d[Len(k)])
  <2>1. dd \in [1..(Len(kk) + 1) -> Nat] /\ \A j \in 1..Len(k) : dd[j] = d[j]
    BY <1>1, <1>2
  <2> HIDE DEF dd
  <2>2. \A j \in 1..Len(kk) : dd[j + 1] = dd[j] + One(kk[j].at \in CallItems)
    BY <1>1, <1>2, <2>1
  <2>3. \A i, j \in 1..(Len(kk) + 1) : i <= j => dd[i] <= dd[j]
    BY <1>1, <1>2, <2>1
  <2> QED BY <1>1, <1>2, <2>1, <2>2, <2>3 DEF Depths
<1> QED BY <1>3, <1>4 DEF kk

\* An error that is held stays where it is below what comes and goes on top.
LEMMA CarriedOn ==
    ASSUME NEW e, NEW m, NEW k, NEW kk, IsSeq(k), IsSeq(kk), NEW n, Carried(e, m, k, n),
           n <= Len(k), n <= Len(kk), \A j \in 1..Len(k) : j <= Len(kk) => kk[j] = k[j], NEW mm
    PROVE  Carried(e, mm, kk, n)
<1>1. Len(k) \in Nat /\ Len(kk) \in Nat /\ n \in 1..Len(k) /\ n \in 1..Len(kk)
  BY SeqShape DEF Carried
<1>2. n # Len(k) + 1 /\ n # Len(kk) + 1 /\ n \in 1..(Len(kk) + 1)
  BY <1>1
<1>3. \A j \in 1..Len(kk) : j < n => j \in 1..Len(k) /\ kk[j] = k[j]
  BY <1>1
<1>4. kk[n] = k[n]
  BY <1>1
<1> QED BY <1>2, <1>3, <1>4 DEF Carried

\* An item that comes on top holds nothing.
LEMMA TracePush ==
    ASSUME NEW m, NEW k, NEW s, NEW r, IsSeq(k), IsSeq(s.frames), Traced(m, k, s, r),
           m[1] # "err", NEW x, x.at \notin CallItems, ~Holding(x)
    PROVE  Traced(m, Append(k, x), s, r)
<1> DEFINE kk == Append(k, x)
<1>1. /\ Len(k) \in Nat /\ Len(kk) = Len(k) + 1 /\ kk[Len(k) + 1] = x /\ IsSeq(kk)
      /\ \A j \in 1..Len(k) : kk[j] = k[j]
      /\ Len(s.frames) \in Nat
  BY SeqShape, AppendShape
<1>2. PICK d : Depths(d, k, Len(s.frames)) /\ (Fine(m, k, s, r) \/ Failing(m, k, s, r, d))
  BY DEF Traced
<1>3. PICK dd : /\ Depths(dd, kk, Len(s.frames))
                /\ \A j \in 1..(Len(k) + 1) : dd[j] = d[j]
  <2>1. One(x.at \in CallItems) = 0
    BY DEF One
  <2>2. PICK dd : /\ Depths(dd, kk, Len(s.frames) + One(x.at \in CallItems))
                  /\ \A j \in 1..(Len(k) + 1) : dd[j] = d[j]
    BY <1>1, <1>2, DepthPush
  <2>3. Len(s.frames) + One(x.at \in CallItems) = Len(s.frames)
    BY <1>1, <2>1
  <2> QED BY <2>2, <2>3
<1> HIDE DEF kk
<1>4. CASE Fine(m, k, s, r)
  <2>1. \A j \in 1..Len(kk) : j \in 1..Len(k) \/ kk[j] = x
    BY <1>1
  <2>2. Fine(m, kk, s, r)
    BY <1>1, <1>4, <2>1 DEF Fine
  <2> QED BY <1>2, <1>3, <2>2 DEF Traced, kk
<1>5. CASE Failing(m, k, s, r, d)
  <2>1. PICK n : Carried(r[1], m, k, n) /\ Known(r[2], s, d[n])
    BY <1>5 DEF Failing
  <2>2. n \in 1..Len(k)
    BY <1>1, <2>1 DEF Carried
  <2>3. n <= Len(k) /\ n <= Len(kk) /\ dd[n] = d[n]
    BY <1>1, <1>3, <2>2
  <2>4. Carried(r[1], m, kk, n)
    BY <1>1, <2>1, <2>3, CarriedOn
  <2>5. Failing(m, kk, s, r, dd)
    BY <1>5, <2>1, <2>3, <2>4 DEF Failing
  <2> QED BY <1>2, <1>3, <2>5 DEF Traced, kk
<1> QED BY <1>2, <1>4, <1>5

\* The scope block on top keeps the error that is on its way.
LEMMA TraceAbsorb ==
    ASSUME NEW m, NEW k, NEW s, NEW r, IsSeq(k), IsSeq(s.frames), Traced(m, k, s, r),
           m[1] = "err", NEW x, x.at = "scope", x.res = m, NEW mm
    PROVE  Traced(mm, Append(k, x), s, r)
<1> DEFINE kk == Append(k, x)
<1>1. /\ Len(k) \in Nat /\ Len(kk) = Len(k) + 1 /\ kk[Len(k) + 1] = x /\ IsSeq(kk)
      /\ \A j \in 1..Len(k) : kk[j] = k[j]
      /\ Len(s.frames) \in Nat
  BY SeqShape, AppendShape
<1>2. PICK d : Depths(d, k, Len(s.frames)) /\ (Fine(m, k, s, r) \/ Failing(m, k, s, r, d))
  BY DEF Traced
<1>3. PICK dd : /\ Depths(dd, kk, Len(s.frames))
                /\ \A j \in 1..(Len(k) + 1) : dd[j] = d[j]
  <2>1. One(x.at \in CallItems) = 0
    BY DEF One, CallItems
  <2>2. PICK dd : /\ Depths(dd, kk, Len(s.frames) + One(x.at \in CallItems))
                  /\ \A j \in 1..(Len(k) + 1) : dd[j] = d[j]
    BY <1>1, <1>2, DepthPush
  <2>3. Len(s.frames) + One(x.at \in CallItems) = Len(s.frames)
    BY <1>1, <2>1
  <2> QED BY <2>2, <2>3
<1> HIDE DEF kk
<1>4. Failing(m, k, s, r, d)
  BY <1>2 DEF Fine
<1>5. PICK n : Carried(r[1], m, k, n) /\ Known(r[2], s, d[n])
  BY <1>4 DEF Failing
<1>6. n \in 1..(Len(k) + 1) /\ dd[n] = d[n]
  BY <1>3, <1>5 DEF Carried
<1>7. Carried(r[1], mm, kk, n)
  <2>1. CASE n = Len(k) + 1
    <3>1. kk[n].at = "scope" /\ kk[n].res = r[1] /\ r[1][1] = "err" /\ n # Len(kk) + 1
      BY <1>1, <1>5, <2>1 DEF Carried
    <3>2. \A j \in 1..Len(kk) : j < n => j \in 1..Len(k) /\ kk[j] = k[j]
      BY <1>1, <2>1
    <3>3. n \in 1..(Len(kk) + 1)
      BY <1>1, <1>6
    <3> QED BY <1>5, <3>1, <3>2, <3>3 DEF Carried
  <2>2. CASE n # Len(k) + 1
    <3>1. n <= Len(k) /\ n <= Len(kk)
      BY <1>1, <1>6, <2>2
    <3> QED BY <1>1, <1>5, <3>1, CarriedOn
  <2> QED BY <2>1, <2>2
<1>8. Failing(mm, kk, s, r, dd)
  BY <1>4, <1>5, <1>6, <1>7 DEF Failing
<1> QED BY <1>2, <1>3, <1>8 DEF Traced, kk

\* An item that goes was holding nothing, and what was on its way still is.
LEMMA TracePop ==
    ASSUME NEW m, NEW k, NEW s, NEW r, IsSeq(k), k # <<>>, IsSeq(s.frames), Traced(m, k, s, r),
           Last(k).at \notin CallItems, ~Holding(Last(k))
    PROVE  Traced(m, Front(k), s, r)
<1> DEFINE kk == Front(k)
<1>1. /\ Len(k) \in Nat /\ Len(k) >= 1 /\ Len(kk) = Len(k) - 1 /\ Last(k) = k[Len(k)]
      /\ IsSeq(kk) /\ \A j \in 1..Len(k) : j <= Len(kk) => kk[j] = k[j]
      /\ Len(s.frames) \in Nat
  BY SeqShape, FrontShape
<1>2. PICK d : Depths(d, k, Len(s.frames)) /\ (Fine(m, k, s, r) \/ Failing(m, k, s, r, d))
  BY DEF Traced
<1>3. PICK dd : /\ Depths(dd, kk, Len(s.frames)) /\ d[Len(k)] = Len(s.frames)
                /\ d[Len(k) + 1] = d[Len(k)]
                /\ \A j \in 1..Len(k) : dd[j] = d[j]
  <2>1. One(Last(k).at \in CallItems) = 0
    BY DEF One
  <2>2. d[Len(k)] \in Nat /\ Len(s.frames) = d[Len(k)] + One(Last(k).at \in CallItems)
    BY <1>1, <1>2, DepthPop
  <2>3. PICK dd : Depths(dd, kk, d[Len(k)]) /\ \A j \in 1..Len(k) : dd[j] = d[j]
    BY <1>1, <1>2, DepthPop
  <2>4. d[Len(k)] = Len(s.frames)
    BY <2>1, <2>2
  <2> QED BY <1>2, <2>3, <2>4 DEF Depths
<1> HIDE DEF kk
<1>4. CASE Fine(m, k, s, r)
  <2>1. Fine(m, kk, s, r)
    <3>1. \A j \in 1..Len(kk) : j \in 1..Len(k) /\ kk[j] = k[j]
      BY <1>1
    <3> QED BY <1>4, <3>1 DEF Fine
  <2> QED BY <1>2, <1>3, <2>1 DEF Traced, kk
<1>5. CASE Failing(m, k, s, r, d)
  <2>1. PICK n : Carried(r[1], m, k, n) /\ Known(r[2], s, d[n])
    BY <1>5 DEF Failing
  <2>2. n \in 1..(Len(k) + 1) /\ n # Len(k)
    BY <1>1, <2>1 DEF Carried, Holding
  <2>3. CASE n = Len(k) + 1
    <3>1. Carried(r[1], m, kk, Len(k))
      <4>1. \A j \in 1..Len(kk) : j \in 1..Len(k) /\ kk[j] = k[j] /\ j < n
        BY <1>1, <2>3
      <4>2. Len(k) = Len(kk) + 1 /\ Len(k) \in 1..(Len(kk) + 1)
        BY <1>1
      <4> QED BY <2>1, <2>3, <4>1, <4>2 DEF Carried
    <3>2. Known(r[2], s, dd[Len(k)])
      <4>1. Len(k) \in 1..Len(k)
        BY <1>1
      <4> QED BY <1>3, <2>1, <2>3, <4>1
    <3> QED BY <1>2, <1>3, <1>5, <3>1, <3>2 DEF Failing, Traced, kk
  <2>4. CASE n # Len(k) + 1
    <3>1. n <= Len(k) /\ n <= Len(kk) /\ n \in 1..Len(k)
      BY <1>1, <2>2, <2>4
    <3>2. Carried(r[1], m, kk, n)
      BY <1>1, <2>1, <3>1, CarriedOn
    <3>3. dd[n] = d[n]
      BY <1>3, <3>1
    <3> QED BY <1>2, <1>3, <1>5, <2>1, <3>2, <3>3 DEF Failing, Traced, kk
  <2> QED BY <2>3, <2>4
<1> QED BY <1>2, <1>4, <1>5

\* A scope block that held an error lets it go.
LEMMA TraceLeave ==
    ASSUME NEW m, NEW k, NEW s, NEW r, IsSeq(k), k # <<>>, IsSeq(s.frames), Traced(m, k, s, r),
           Holding(Last(k))
    PROVE  Traced(Last(k).res, Front(k), s, r) /\ r # <<>>
<1> DEFINE kk == Front(k)
           mm == Last(k).res
<1>1. /\ Len(k) \in Nat /\ Len(k) >= 1 /\ Len(kk) = Len(k) - 1 /\ Last(k) = k[Len(k)]
      /\ IsSeq(kk) /\ \A j \in 1..Len(k) : j <= Len(kk) => kk[j] = k[j]
      /\ Len(s.frames) \in Nat
  BY SeqShape, FrontShape
<1>2. PICK d : Depths(d, k, Len(s.frames)) /\ (Fine(m, k, s, r) \/ Failing(m, k, s, r, d))
  BY DEF Traced
<1>3. PICK dd : /\ Depths(dd, kk, Len(s.frames))
                /\ \A j \in 1..Len(k) : dd[j] = d[j]
  <2>1. One(Last(k).at \in CallItems) = 0
    BY DEF One, Holding, CallItems
  <2>2. d[Len(k)] \in Nat /\ Len(s.frames) = d[Len(k)] + One(Last(k).at \in CallItems)
    BY <1>1, <1>2, DepthPop
  <2>3. PICK dd : Depths(dd, kk, d[Len(k)]) /\ \A j \in 1..Len(k) : dd[j] = d[j]
    BY <1>1, <1>2, DepthPop
  <2>4. d[Len(k)] = Len(s.frames)
    BY <2>1, <2>2
  <2> QED BY <2>3, <2>4
<1> HIDE DEF kk
<1>4. Failing(m, k, s, r, d)
  <2>1. Len(k) \in 1..Len(k)
    BY <1>1
  <2> QED BY <1>1, <1>2, <2>1 DEF Fine
<1>5. PICK n : Carried(r[1], m, k, n) /\ Known(r[2], s, d[n])
  BY <1>4 DEF Failing
<1>6. n \in 1..Len(k)
  BY <1>1, <1>5 DEF Carried
<1>7. Carried(r[1], mm, kk, n)
  <2>1. CASE n = Len(k)
    <3>1. \A j \in 1..Len(kk) : j \in 1..Len(k) /\ kk[j] = k[j] /\ j < n
      BY <1>1, <2>1
    <3>2. n = Len(kk) + 1 /\ n \in 1..(Len(kk) + 1) /\ n # Len(k) + 1
      BY <1>1, <2>1
    <3>3. mm = r[1]
      BY <1>1, <1>5, <2>1, <3>2 DEF Carried
    <3> QED BY <1>5, <3>1, <3>2, <3>3 DEF Carried
  <2>2. CASE n # Len(k)
    <3>1. n <= Len(k) /\ n <= Len(kk)
      BY <1>1, <1>6, <2>2
    <3> QED BY <1>1, <1>5, <3>1, CarriedOn
  <2> QED BY <2>1, <2>2
<1>8. dd[n] = d[n] /\ r # <<>>
  BY <1>3, <1>4, <1>6 DEF Failing
<1>9. Failing(mm, kk, s, r, dd)
  BY <1>4, <1>5, <1>7, <1>8 DEF Failing
<1> QED BY <1>2, <1>3, <1>8, <1>9 DEF Traced, kk

\* Other scopes: the traceback does not depend on them.
LEMMA TraceInterp ==
    ASSUME NEW m, NEW k, NEW s, NEW r, Traced(m, k, s, r),
           NEW ss, ss.frames = s.frames, ss.bt = s.bt
    PROVE  Traced(m, k, ss, r)
BY DEF Traced, Fine, Failing, Known

\* A prefix stays one.
LEMMA LeadsMore ==
    ASSUME NEW R, NEW f, IsSeq(R), IsSeq(f), Leads(R, f), NEW x
    PROVE  Leads(R, Append(f, x))
<1>1. /\ Len(R) \in Nat /\ Len(f) \in Nat /\ Len(Append(f, x)) = Len(f) + 1
      /\ \A i \in 1..Len(f) : Append(f, x)[i] = f[i]
  BY SeqShape, AppendShape
<1> QED BY <1>1 DEF Leads

\* Or one of a shorter chain that is long enough.
LEMMA LeadsLess ==
    ASSUME NEW R, NEW f, IsSeq(R), IsSeq(f), Leads(R, f), f # <<>>, Len(R) <= Len(f) - 1
    PROVE  Leads(R, Front(f))
<1>1. /\ Len(R) \in Nat /\ Len(f) \in Nat /\ Len(Front(f)) = Len(f) - 1
      /\ \A i \in 1..(Len(f) - 1) : Front(f)[i] = f[i]
  BY SeqShape, FrontShape
<1> QED BY <1>1 DEF Leads

\* A chain of no calls begins anything.
LEMMA LeadsEmpty ==
    ASSUME NEW R, IsSeq(R), Leads(R, <<>>), NEW f, IsSeq(f)
    PROVE  Leads(R, f)
<1>1. Len(R) = 0 /\ Len(f) \in Nat
  BY SeqShape, EmptyShape DEF Leads
<1> QED BY <1>1 DEF Leads

\* The backtrace is recorded once, by a failing call in which f is in progress.
LEMMA KnownOnce ==
    ASSUME NEW R, NEW s, NEW c, IsSeq(R), IsSeq(s.frames), Known(R, s, c),
           NEW f, IsSeq(f), Leads(R, s.frames) => Leads(R, f),
           NEW b, b = IF s.bt = <<>> THEN f ELSE s.bt
    PROVE  Leads(R, b)
<1>1. CASE s.bt # <<>>
  BY <1>1 DEF Known
<1>2. CASE s.bt = <<>>
  BY <1>2, LeadsEmpty DEF Known
<1> QED BY <1>1, <1>2

\* A call refuses its arguments: its own name is in the backtrace.
LEMMA TraceRefuse ==
    ASSUME NEW m, NEW k, NEW s, NEW r, IsSeq(s.frames), Traced(m, k, s, r), m[1] = "err",
           NEW x, NEW ss, ss.frames = s.frames,
           ss.bt = IF s.bt = <<>> THEN Append(s.frames, x) ELSE s.bt
    PROVE  Traced(m, k, ss, r)
<1>1. PICK d : Depths(d, k, Len(s.frames)) /\ Failing(m, k, s, r, d)
  BY DEF Traced, Fine
<1>2. PICK n : Carried(r[1], m, k, n) /\ Known(r[2], s, d[n])
  BY <1>1 DEF Failing
<1>3. IsSeq(r[2]) /\ IsSeq(Append(s.frames, x))
  BY <1>1, AppendShape DEF Failing
<1>4. Leads(r[2], s.frames) => Leads(r[2], Append(s.frames, x))
  BY <1>3, LeadsMore
<1>5. Leads(r[2], ss.bt)
  BY <1>2, <1>3, <1>4, KnownOnce
<1>6. IsSeq(ss.bt)
  BY <1>3 DEF Traced
<1>7. Failing(m, k, ss, r, d)
  BY <1>1, <1>2, <1>5 DEF Failing, Known
<1> QED BY <1>1, <1>6, <1>7 DEF Traced

\* A call begins.
LEMMA TraceCall ==
    ASSUME NEW m, NEW k, NEW s, NEW r, IsSeq(k), IsSeq(s.frames), Traced(m, k, s, r),
           m[1] # "err", NEW x, x.at = "call",
           NEW y, NEW ss, ss.frames = Append(s.frames, y), ss.bt = s.bt
    PROVE  Traced(m, Append(k, x), ss, r)
<1> DEFINE kk == Append(k, x)
<1>1. /\ Len(k) \in Nat /\ Len(kk) = Len(k) + 1 /\ kk[Len(k) + 1] = x /\ IsSeq(kk)
      /\ \A j \in 1..Len(k) : kk[j] = k[j]
      /\ Len(s.frames) \in Nat /\ Len(ss.frames) = Len(s.frames) + 1
  BY SeqShape, AppendShape
<1>2. PICK d : Depths(d, k, Len(s.frames)) /\ (Fine(m, k, s, r) \/ Failing(m, k, s, r, d))
  BY DEF Traced
<1>3. PICK dd : /\ Depths(dd, kk, Len(ss.frames))
                /\ \A j \in 1..(Len(k) + 1) : dd[j] = d[j]
  <2>1. One(x.at \in CallItems) = 1
    BY DEF One, CallItems
  <2>2. PICK dd : /\ Depths(dd, kk, Len(s.frames) + One(x.at \in CallItems))
                  /\ \A j \in 1..(Len(k) + 1) : dd[j] = d[j]
    BY <1>1, <1>2, DepthPush
  <2>3. Len(s.frames) + One(x.at \in CallItems) = Len(ss.frames)
    BY <1>1, <2>1
  <2> QED BY <2>2, <2>3
<1>4. IsSeq(ss.bt)
  BY DEF Traced
<1> HIDE DEF kk
<1>5. CASE Fine(m, k, s, r)
  <2>1. \A j \in 1..Len(kk) : j \in 1..Len(k) \/ kk[j] = x
    BY <1>1
  <2>2. Fine(m, kk, ss, r)
    BY <1>1, <1>5, <2>1 DEF Fine, Holding
  <2> QED BY <1>3, <1>4, <2>2 DEF Traced, kk
<1>6. CASE Failing(m, k, s, r, d)
  <2>1. PICK n : Carried(r[1], m, k, n) /\ Known(r[2], s, d[n])
    BY <1>6 DEF Failing
  <2>2. n \in 1..Len(k)
    BY <1>1, <2>1 DEF Carried
  <2>3. n <= Len(k) /\ n <= Len(kk) /\ dd[n] = d[n]
    BY <1>1, <1>3, <2>2
  <2>4. Carried(r[1], m, kk, n)
    BY <1>1, <2>1, <2>3, CarriedOn
  <2>5. IsSeq(r[2])
    BY <1>6 DEF Failing
  <2>6. Leads(r[2], s.frames) => Leads(r[2], ss.frames)
    BY <2>5, LeadsMore
  <2>7. Known(r[2], ss, dd[n])
    BY <2>1, <2>3, <2>6 DEF Known
  <2>8. Failing(m, kk, ss, r, dd)
    BY <1>6, <2>4, <2>7 DEF Failing
  <2> QED BY <1>3, <1>4, <2>8 DEF Traced, kk
<1> QED BY <1>2, <1>5, <1>6

\* A call returns, or fails and records its frames.
LEMMA TraceReturn ==
    ASSUME NEW m, NEW k, NEW s, NEW r, IsSeq(k), k # <<>>, IsSeq(s.frames),
           Traced(m, k, s, r), Last(k).at = "call",
           NEW ss, ss.frames = Front(s.frames),
           ss.bt = IF m[1] = "err" THEN IF s.bt = <<>> THEN s.frames ELSE s.bt ELSE s.bt
    PROVE  Traced(m, Front(k), ss, r)
<1> DEFINE kk == Front(k)
<1>1. /\ Len(k) \in Nat /\ Len(k) >= 1 /\ Len(kk) = Len(k) - 1 /\ Last(k) = k[Len(k)]
      /\ IsSeq(kk) /\ \A j \in 1..Len(k) : j <= Len(kk) => kk[j] = k[j]
      /\ Len(s.frames) \in Nat
  BY SeqShape, FrontShape
<1>2. PICK d : Depths(d, k, Len(s.frames)) /\ (Fine(m, k, s, r) \/ Failing(m, k, s, r, d))
  BY DEF Traced
<1>3. d[Len(k)] \in Nat /\ Len(s.frames) = d[Len(k)] + 1
  <2>1. One(Last(k).at \in CallItems) = 1
    BY DEF One, CallItems
  <2>2. d[Len(k)] \in Nat /\ Len(s.frames) = d[Len(k)] + One(Last(k).at \in CallItems)
    BY <1>1, <1>2, DepthPop
  <2> QED BY <2>1, <2>2
<1>4. s.frames # <<>> /\ Len(ss.frames) = d[Len(k)]
  <2>1. s.frames # <<>>
    BY <1>3, SeqShape
  <2>2. Len(Front(s.frames)) = Len(s.frames) - 1
    BY <2>1, FrontShape
  <2> QED BY <1>3, <2>1, <2>2
<1>5. PICK dd : Depths(dd, kk, Len(ss.frames)) /\ \A j \in 1..Len(k) : dd[j] = d[j]
  BY <1>1, <1>2, <1>4, DepthPop
<1>6. IsSeq(ss.bt)
  BY DEF Traced
<1> HIDE DEF kk
<1>7. CASE Fine(m, k, s, r)
  <2>1. \A j \in 1..Len(kk) : j \in 1..Len(k) /\ kk[j] = k[j]
    BY <1>1
  <2>2. Fine(m, kk, ss, r)
    BY <1>7, <2>1 DEF Fine
  <2> QED BY <1>5, <1>6, <2>2 DEF Traced, kk
<1>8. CASE Failing(m, k, s, r, d)
  <2>1. PICK n : Carried(r[1], m, k, n) /\ Known(r[2], s, d[n])
    BY <1>8 DEF Failing
  <2>2. n \in 1..(Len(k) + 1) /\ n # Len(k)
    BY <1>1, <2>1 DEF Carried
  <2>3. IsSeq(r[2]) /\ Len(r[2]) \in Nat
    BY <1>8, SeqShape DEF Failing
  <2>4. CASE m[1] = "err"
    <3>1. Leads(r[2], ss.bt)
      BY <2>1, <2>3, <2>4, KnownOnce
    <3>2. \E i : Carried(r[1], m, kk, i)
      <4>1. CASE n = Len(k) + 1
        <5>1. \A j \in 1..Len(kk) : j \in 1..Len(k) /\ kk[j] = k[j] /\ j < n
          BY <1>1, <4>1
        <5>2. Len(k) = Len(kk) + 1 /\ Len(k) \in 1..(Len(kk) + 1)
          BY <1>1
        <5>3. Carried(r[1], m, kk, Len(k))
          BY <2>1, <4>1, <5>1, <5>2 DEF Carried
        <5> QED BY <5>3
      <4>2. CASE n # Len(k) + 1
        <5>1. n <= Len(k) /\ n <= Len(kk)
          BY <1>1, <2>2, <4>2
        <5>2. Carried(r[1], m, kk, n)
          BY <1>1, <2>1, <5>1, CarriedOn
        <5> QED BY <5>2
      <4> QED BY <4>1, <4>2
    <3>3. Failing(m, kk, ss, r, dd)
      BY <1>8, <3>1, <3>2 DEF Failing, Known
    <3> QED BY <1>5, <1>6, <3>3 DEF Traced, kk
  <2>5. CASE m[1] # "err"
    <3>1. n # Len(k) + 1
      BY <2>1, <2>5 DEF Carried
    <3>2. n <= Len(k) /\ n <= Len(kk) /\ n \in 1..Len(k) /\ n <= Len(k) + 1
      BY <1>1, <2>2, <3>1
    <3>3. Carried(r[1], m, kk, n) /\ dd[n] = d[n]
      BY <1>1, <1>5, <2>1, <3>2, CarriedOn
    <3>4. d[n] \in Nat /\ d[n] <= d[Len(k)]
      <4>1. n \in 1..(Len(k) + 1) /\ Len(k) \in 1..(Len(k) + 1)
        BY <1>1, <3>2
      <4>2. /\ d \in [1..(Len(k) + 1) -> Nat]
            /\ \A i, j \in 1..(Len(k) + 1) : i <= j => d[i] <= d[j]
        BY <1>2 DEF Depths
      <4> QED BY <3>2, <4>1, <4>2
    <3>5. Known(r[2], ss, d[n])
      <4>1. CASE Leads(r[2], s.bt)
        BY <2>5, <4>1 DEF Known
      <4>2. CASE s.bt = <<>> /\ Leads(r[2], s.frames) /\ Len(r[2]) <= d[n]
        <5>1. Len(r[2]) <= Len(s.frames) - 1
          BY <1>3, <2>3, <3>4, <4>2
        <5>2. Leads(r[2], ss.frames)
          BY <1>4, <2>3, <4>2, <5>1, LeadsLess
        <5> QED BY <2>5, <4>2, <5>2 DEF Known
      <4> QED BY <2>1, <4>1, <4>2 DEF Known
    <3>6. Failing(m, kk, ss, r, dd)
      BY <1>8, <3>3, <3>5 DEF Failing
    <3> QED BY <1>5, <1>6, <3>6 DEF Traced, kk
  <2> QED BY <2>4, <2>5
<1> QED BY <1>2, <1>7, <1>8

-----------------------------------------------------------------------------
(* The steps of a task that keep its first failure.                          *)

\* Where a task is, with regard to its first failure.
Sound(t) == Traced(tasks[t].mode, tasks[t].kont, interps[tasks[t].in], tasks[t].raised)

\* Items that hold no error and are no calls come and go.
Light(x) == x.at \notin CallItems /\ ~Holding(x)
Follows(k, kk) ==
    /\ IsSeq(kk)
    /\ \A m, s, r : IsSeq(s.frames) /\ m[1] # "err" /\ Traced(m, k, s, r) => Traced(m, kk, s, r)
FramesStay(i) == interps'[i].frames = interps[i].frames /\ interps'[i].bt = interps[i].bt

\* A continuation that stays, grows or shrinks.
LEMMA FollowsSame == ASSUME NEW k, IsSeq(k) PROVE Follows(k, k)
BY DEF Follows

\* One light item more.
LEMMA FollowsPush ==
    ASSUME NEW k, IsSeq(k), NEW kk, Follows(k, kk), NEW x, Light(x)
    PROVE  Follows(k, Append(kk, x))
<1>1. IsSeq(kk) /\ IsSeq(Append(kk, x))
  BY AppendShape DEF Follows
<1>2. ASSUME NEW m, NEW s, NEW r, IsSeq(s.frames), m[1] # "err", Traced(m, k, s, r)
      PROVE  Traced(m, Append(kk, x), s, r)
  <2>1. Traced(m, kk, s, r)
    BY <1>2 DEF Follows
  <2> QED BY <1>1, <1>2, <2>1, TracePush DEF Light
<1> QED BY <1>1, <1>2 DEF Follows

\* One less.
LEMMA FollowsPop ==
    ASSUME NEW k, IsSeq(k), k # <<>>, Light(Last(k))
    PROVE  Follows(k, Front(k))
<1>1. IsSeq(Front(k))
  BY FrontShape
<1>2. ASSUME NEW m, NEW s, NEW r, IsSeq(s.frames), m[1] # "err", Traced(m, k, s, r)
      PROVE  Traced(m, Front(k), s, r)
  BY <1>2, TracePop DEF Light
<1> QED BY <1>1, <1>2 DEF Follows

\* Another one in its place.
LEMMA FollowsSwap ==
    ASSUME NEW k, IsSeq(k), k # <<>>, Light(Last(k)), NEW x, Light(x)
    PROVE  Follows(k, Append(Front(k), x))
BY FollowsPop, FollowsPush

\* What Settle does to the task.
LEMMA SettleMarks ==
    ASSUME Shape, NEW t \in DOMAIN tasks, NEW m, NEW kk, Settle(t, m, kk),
           m[1] # "val" \/ tasks[t].mode[1] # "err"
    PROVE  /\ tasks'[t].mode = m /\ tasks'[t].kont = kk /\ tasks'[t].in = tasks[t].in
           /\ tasks'[t].raised = Marked(tasks[t].raised, m, interps[tasks[t].in])
<1>1. DOMAIN tasks[t] = TaskRecord
  BY DEF Shape, TaskOK
<1> QED BY <1>1 DEF Settle, Marked, TaskRecord

\* A task that goes on with what it had on its way, and its calls.
LEMMA KeepTraced ==
    ASSUME Shape, NEW t \in DOMAIN tasks, NEW m, NEW kk, Settle(t, m, kk),
           m[1] # "val" \/ tasks[t].mode[1] # "err",
           Traced(m, kk, interps'[tasks[t].in], tasks[t].raised)
    PROVE  Sound(t)'
<1>1. m[1] = "err" => tasks[t].raised # <<>>
  BY DEF Traced, Fine, Failing
<1>2. Marked(tasks[t].raised, m, interps[tasks[t].in]) = tasks[t].raised
  BY <1>1 DEF Marked
<1> QED BY <1>2, SettleMarks DEF Sound

\* A task that has no failure on its way goes on with any mode.
LEMMA GoTraced ==
    ASSUME Shape, NEW t \in DOMAIN tasks, Sound(t), tasks[t].mode[1] # "err",
           NEW m, NEW kk, Settle(t, m, kk), Follows(tasks[t].kont, kk),
           FramesStay(tasks[t].in)
    PROVE  Sound(t)'
<1> DEFINE m0 == tasks[t].mode
           s == interps[tasks[t].in]
           r == tasks[t].raised
<1>1. IsSeq(s.frames) /\ IsSeq(kk)
  BY Here DEF Follows
<1>2. Traced(m0, kk, s, r)
  BY <1>1 DEF Follows, Sound
<1>3. Traced(m, kk, s, Marked(r, m, s))
  BY <1>1, <1>2, TraceMode
<1>4. Traced(m, kk, interps'[tasks[t].in], Marked(r, m, s))
  BY <1>3, TraceInterp DEF FramesStay
<1> QED BY <1>4, SettleMarks DEF Sound

\* A failure leaves the item on top, which is light.
LEMMA FailTraced ==
    ASSUME Shape, NEW t \in DOMAIN tasks, Sound(t), tasks[t].kont # <<>>, Light(Last(tasks[t].kont)),
           Settle(t, tasks[t].mode, Front(tasks[t].kont)), FramesStay(tasks[t].in)
    PROVE  Sound(t)'
<1> DEFINE s == interps[tasks[t].in]
           r == tasks[t].raised
           kk == Front(tasks[t].kont)
<1>1. IsSeq(s.frames) /\ IsSeq(tasks[t].kont)
  BY Here
<1>2. Traced(tasks[t].mode, kk, s, r)
  BY <1>1, TracePop DEF Light, Sound
<1>3. Traced(tasks[t].mode, kk, interps'[tasks[t].in], r)
  BY <1>2, TraceInterp DEF FramesStay
<1>4. tasks[t].mode[1] # "val" \/ tasks[t].mode[1] # "err"
  OBVIOUS
<1> HIDE DEF kk
<1> QED BY <1>3, <1>4, KeepTraced DEF kk

\* Other scopes, or none.
LEMMA ScopesOnly ==
    ASSUME Shape, running # 0, interps' = interps \/ \E e : SetEnv(e)
    PROVE  FramesStay(T.in)
<1>1. T.in \in DOMAIN interps /\ DOMAIN interps[T.in] = InterpRecord
  BY Runs, Here DEF T, InterpOK
<1>2. ASSUME NEW e, SetEnv(e) PROVE FramesStay(T.in)
  BY <1>1, <1>2 DEF SetEnv, FramesStay, InterpRecord
<1> QED BY <1>2 DEF FramesStay

\* A block is entered.
LEMMA EnterTraced ==
    ASSUME Shape, running # 0, NEW t, t = running, Sound(t), tasks[t].mode[1] # "err",
           NEW b, NEW kk, NEW e, EnterBlock(b, kk, e), Follows(tasks[t].kont, kk)
    PROVE  Sound(t)'
<1> DEFINE x == BlockItem(b)
<1>1. Light(x)
  BY DEF BlockItem, Light, Holding, CallItems
<1>2. t \in DOMAIN tasks /\ IsSeq(tasks[t].kont)
  BY Runs, Here
<1>3. Settle(t, Done, Append(kk, x)) /\ SetEnv(Push(e))
  BY DEF EnterBlock, To, BlockItem
<1> HIDE DEF x
<1>4. Follows(tasks[t].kont, Append(kk, x))
  BY <1>1, <1>2, FollowsPush
<1>5. FramesStay(tasks[t].in)
  BY <1>3, ScopesOnly DEF T
<1> QED BY <1>2, <1>3, <1>4, <1>5, GoTraced

\* The running task goes on with a continuation that follows.
LEMMA OnTraced ==
    ASSUME Shape, running # 0, NEW t, t = running, Sound(t), Kind # "err",
           NEW m, NEW kk, To(m, kk), Follows(tasks[t].kont, kk),
           interps' = interps \/ \E e : SetEnv(e)
    PROVE  Sound(t)'
<1>1. t \in DOMAIN tasks /\ tasks[t].mode[1] # "err" /\ Settle(t, m, kk)
  BY Runs DEF To, Kind, Mode, T
<1>2. FramesStay(tasks[t].in)
  BY ScopesOnly DEF T
<1> QED BY <1>1, <1>2, GoTraced

\* With the one it has.
LEMMA StayTraced ==
    ASSUME Shape, running # 0, NEW t, t = running, Sound(t), Kind # "err",
           NEW m, To(m, T.kont), interps' = interps \/ \E e : SetEnv(e)
    PROVE  Sound(t)'
<1>1. Follows(tasks[t].kont, T.kont)
  BY Runs, Here, FollowsSame DEF T
<1> QED BY <1>1, OnTraced

\* The items on top of it, as the actions name them.
LEMMA TopFollows ==
    ASSUME Shape, running # 0, NEW t, t = running
    PROVE  /\ IsSeq(T.kont) /\ T.kont # <<>> /\ T.kont = tasks[t].kont
           /\ Follows(tasks[t].kont, T.kont)
           /\ Light(Top) => Follows(tasks[t].kont, Rest)
           /\ \A x : Light(x) => Follows(tasks[t].kont, Append(T.kont, x))
           /\ \A x : Light(Top) /\ Light(x) => Follows(tasks[t].kont, Append(Rest, x))
<1>1. IsSeq(T.kont) /\ T.kont # <<>> /\ T.kont = tasks[t].kont
  BY Runs, Here DEF T
<1>2. Follows(T.kont, T.kont)
  BY <1>1, FollowsSame
<1>3. \A x : Light(x) => Follows(T.kont, Append(T.kont, x))
  BY <1>1, <1>2, FollowsPush
<1>4. Light(Top) => Follows(T.kont, Rest)
  BY <1>1, FollowsPop DEF Top, Rest
<1>5. \A x : Light(Top) /\ Light(x) => Follows(T.kont, Append(Rest, x))
  BY <1>1, <1>4, FollowsPush
<1> QED BY <1>1, <1>2, <1>3, <1>4, <1>5

\* Items other than calls, handlers and scope blocks are light.
LEMMA LightItem == ASSUME NEW x, x.at \notin CallItems \cup {"scope"} PROVE Light(x)
BY DEF Light, Holding

\* A failure goes past the item on top.
LEMMA DropTraced ==
    ASSUME Shape, running # 0, NEW t, t = running, Sound(t), To(Mode, Rest), Light(Top),
           interps' = interps \/ \E e : SetEnv(e)
    PROVE  Sound(t)'
<1>1. /\ t \in DOMAIN tasks /\ tasks[t].kont # <<>> /\ Light(Last(tasks[t].kont))
      /\ Settle(t, tasks[t].mode, Front(tasks[t].kont))
  BY Runs DEF To, Mode, Rest, Top, T
<1>2. FramesStay(tasks[t].in)
  BY ScopesOnly DEF T
<1> QED BY <1>1, <1>2, FailTraced

\* Expressions that neither wait for a call nor begin one.
LEMMA ApplyTraced ==
    ASSUME Shape, running # 0, NEW t, t = running, Sound(t),
           \/ ApplyValue \/ ApplyMethod \/ ApplySpecial \/ ApplyWait \/ ApplyDispatch
           \/ ExecLet \/ ExecAssign \/ ExecAssignField \/ ExecAssignIndex \/ ExecSimple
    PROVE  Sound(t)'
<1>1. Kind # "err"
  BY DEF ApplyValue, ApplyMethod, ApplySpecial, ApplyWait, ApplyDispatch,
         ExecLet, ExecAssign, ExecAssignField, ExecAssignIndex, ExecSimple
<1>2. \E m : To(m, T.kont)
  <2>1. CASE ApplyValue \/ ApplyMethod \/ ApplyWait \/ ApplyDispatch
    BY <2>1 DEF ApplyValue, ApplyMethod, ApplyWait, ApplyDispatch
  <2>2. CASE ApplySpecial
    BY <2>2 DEF ApplySpecial, Special
  <2>3. CASE ExecLet \/ ExecAssign \/ ExecAssignField \/ ExecAssignIndex \/ ExecSimple
    BY <2>3 DEF ExecLet, ExecAssign, ExecAssignField, ExecAssignIndex, ExecSimple
  <2> QED BY <2>1, <2>2, <2>3
<1>3. interps' = interps \/ \E e : SetEnv(e)
  BY DEF ApplyValue, ApplyMethod, ApplySpecial, ApplyWait, ApplyDispatch,
         ExecLet, ExecAssign, ExecAssignField, ExecAssignIndex, ExecSimple
<1> QED BY <1>1, <1>2, <1>3, StayTraced

\* Operands, and try expressions as they begin.
LEMMA OperandsTraced ==
    ASSUME Shape, running # 0, NEW t, t = running, Sound(t), Evaluate \/ Operand \/ TryStart
    PROVE  Sound(t)'
<1>0. Kind # "err" /\ interps' = interps
  BY DEF Evaluate, Operand, TryStart
<1>1. CASE Evaluate
  <2> DEFINE x == [at |-> "args", n |-> Node_, vals |-> <<>>]
  <2>1. Light(x)
    BY LightItem DEF CallItems
  <2>2. \E m : To(m, T.kont) \/ To(m, Append(T.kont, x))
    BY <1>1 DEF Evaluate
  <2> HIDE DEF x
  <2> QED BY <1>0, <2>1, <2>2, TopFollows, OnTraced
<1>2. CASE Operand
  <2> DEFINE x == [Top EXCEPT !.vals = Append(Top.vals, Mode[2])]
  <2>1. Light(Top) /\ Light(x)
    <3>1. Top.at = "args" /\ "at" \in DOMAIN Top
      BY <1>2, TopItem DEF Operand, At, Top, T, ItemOK
    <3>2. x.at = "args"
      BY <3>1
    <3> QED BY <3>1, <3>2, LightItem DEF CallItems
  <2>2. \E m : To(m, Rest) \/ To(m, Append(Rest, x))
    BY <1>2 DEF Operand
  <2> HIDE DEF x
  <2> QED BY <1>0, <2>1, <2>2, TopFollows, OnTraced
<1>3. CASE TryStart
  <2> DEFINE x == [at |-> "try"]
  <2>1. Light(x)
    BY LightItem DEF CallItems
  <2>2. \E m : To(m, Append(T.kont, x))
    BY <1>3 DEF TryStart
  <2> HIDE DEF x
  <2> QED BY <1>0, <2>1, <2>2, TopFollows, OnTraced
<1> QED BY <1>1, <1>2, <1>3

\* What a try expression catches is caught.
LEMMA TryTraced ==
    ASSUME Shape, running # 0, NEW t, t = running, Sound(t), TryReturn
    PROVE  Sound(t)' \/ interps'[tasks[t].in].caught
<1>1. /\ t \in DOMAIN tasks /\ tasks[t].in \in DOMAIN interps
      /\ DOMAIN interps[tasks[t].in] = InterpRecord
  BY Runs, Here DEF InterpOK
<1>2. interps' = [interps EXCEPT ![tasks[t].in].caught = @ \/ Failed]
  BY DEF TryReturn, T
<1>3. CASE Failed
  BY <1>1, <1>2, <1>3 DEF InterpRecord
<1>4. CASE ~Failed
  <2>1. Light(Top)
    BY LightItem DEF TryReturn, At, CallItems
  <2>2. FramesStay(tasks[t].in)
    BY <1>1, <1>2 DEF FramesStay, InterpRecord
  <2>3. PICK m : To(m, Rest)
    BY DEF TryReturn
  <2>4. Settle(t, m, Rest) /\ tasks[t].mode[1] # "err"
    BY <1>4, <2>3 DEF To, Failed, Kind, Mode, T
  <2> QED BY <1>1, <2>1, <2>2, <2>4, TopFollows, GoTraced
<1> QED BY <1>3, <1>4

\* A call is made.
LEMMA InvokeTraced ==
    ASSUME Shape, running # 0, NEW t, t = running, Sound(t), Invoke
    PROVE  Sound(t)'
<1> DEFINE i == tasks[t].in
           k == tasks[t].kont
           f == Mode[2]
           frames == Append(interps[i].frames, f.x)
           s == interps[i]
           r == tasks[t].raised
           ss == interps'[i]
<1>1. /\ t \in DOMAIN tasks /\ k # <<>> /\ IsSeq(k)
      /\ i \in DOMAIN interps /\ DOMAIN s = InterpRecord /\ IsSeq(s.frames)
  BY Runs, Here DEF InterpOK
<1>2. tasks[t].mode[1] # "err" /\ Traced(tasks[t].mode, k, s, r)
  BY DEF Invoke, Kind, Mode, T, Sound
<1>3. CASE Accepts(f, Mode[3])
  <2> DEFINE c == [at |-> "call", f |-> f]
             b == BlockItem(f.body)
             e == Push(Append(s.env, Bind(f.params, Mode[3])))
  <2>1. /\ Settle(t, Done, k \o <<c, b>>)
        /\ interps' = [interps EXCEPT ![i].frames = frames, ![i].env = e]
    BY <1>3 DEF Invoke, To, T, I, BlockItem
  <2>2. k \o <<c, b>> = Append(Append(k, c), b)
    <3> HIDE DEF c, b
    <3> QED BY <1>1, AppendTwo
  <2>3. c.at = "call" /\ Light(b)
    BY LightItem DEF BlockItem, CallItems
  <2> HIDE DEF e
  <2>4. ss.frames = frames /\ ss.bt = s.bt
    BY <1>1, <2>1 DEF InterpRecord
  <2> HIDE DEF c, b, ss
  <2>5. Traced(tasks[t].mode, k, s, Marked(r, Done, s))
    BY <1>2 DEF Marked, Done
  <2>6. Traced(Done, k, s, r)
    <3>1. Marked(r, Done, s) = r
      BY DEF Marked, Done
    <3> QED BY <1>1, <1>2, <3>1, TraceMode
  <2>7. Traced(Done, Append(k, c), ss, r) /\ Done[1] # "err"
    <3>1. Done[1] # "err"
      BY DEF Done
    <3> QED BY <1>1, <2>3, <2>4, <2>6, <3>1, TraceCall
  <2>8. IsSeq(Append(k, c)) /\ IsSeq(ss.frames)
    BY <1>1, <2>4, AppendShape
  <2>9. Traced(Done, Append(Append(k, c), b), ss, r)
    BY <2>3, <2>7, <2>8, TracePush DEF Light
  <2> QED BY <1>1, <1>2, <2>1, <2>2, <2>9, KeepTraced DEF ss
<1>4. CASE ~Accepts(f, Mode[3])
  <2> DEFINE m == Fail("Panic", "argument")
  <2>1. Settle(t, m, k) /\ interps' = [interps EXCEPT ![i].bt = Backtrace(i, frames)]
    BY <1>4 DEF Invoke, To, T, I
  <2>2. ss.frames = s.frames /\ ss.bt = IF s.bt = <<>> THEN frames ELSE s.bt
    BY <1>1, <2>1 DEF InterpRecord, Backtrace
  <2>3. m[1] = "err"
    BY DEF Fail
  <2> HIDE DEF m, ss
  <2>4. Traced(m, k, s, Marked(r, m, s))
    BY <1>1, <1>2, TraceMode
  <2>5. Traced(m, k, ss, Marked(r, m, s))
    BY <1>1, <2>2, <2>3, <2>4, TraceRefuse
  <2> QED BY <1>1, <1>2, <2>1, <2>5, SettleMarks DEF Sound, ss
<1> QED BY <1>3, <1>4

\* A call is over.
LEMMA ReturnTraced ==
    ASSUME Shape, running # 0, NEW t, t = running, Sound(t), CallReturn
    PROVE  Sound(t)'
<1> DEFINE i == tasks[t].in
           k == tasks[t].kont
           s == interps[i]
           r == tasks[t].raised
           ss == interps'[i]
           m0 == tasks[t].mode
           kk == Front(k)
           m == IF Failed THEN Mode ELSE Yield(IF Kind = "ret" THEN Mode[2] ELSE Void)
<1>1. /\ t \in DOMAIN tasks /\ k # <<>> /\ IsSeq(k)
      /\ i \in DOMAIN interps /\ DOMAIN s = InterpRecord /\ IsSeq(s.frames)
      /\ Last(k).at = "call"
  BY TopItem, Here DEF InterpOK, CallReturn
<1>2. Traced(m0, k, s, r)
  BY DEF Sound
<1>3. Settle(t, m, kk)
  BY DEF CallReturn, To, T, Rest
<1>4. /\ ss.frames = Front(s.frames)
      /\ ss.bt = IF Failed THEN IF s.bt = <<>> THEN s.frames ELSE s.bt ELSE s.bt
  <2> DEFINE bt == IF Failed THEN IF s.bt = <<>> THEN s.frames ELSE s.bt ELSE s.bt
             e == Pop(s.env)
             fr == Front(s.frames)
  <2>1. interps' = [interps EXCEPT ![i].env = e, ![i].frames = fr, ![i].bt = bt]
    BY DEF CallReturn, T, I, Backtrace
  <2> HIDE DEF bt, e, fr
  <2>2. ss.frames = fr /\ ss.bt = bt
    BY <1>1, <2>1 DEF InterpRecord
  <2> QED BY <2>2 DEF bt, fr
<1>5. Failed <=> m0[1] = "err"
  BY DEF Failed, Kind, Mode, T
<1> HIDE DEF ss
<1>6. Traced(m0, kk, ss, r)
  BY <1>1, <1>2, <1>4, <1>5, TraceReturn
<1>7. CASE Failed
  <2>1. m = m0
    BY <1>7 DEF Mode, T
  <2> HIDE DEF m, kk
  <2> QED BY <1>1, <1>3, <1>5, <1>6, <1>7, <2>1, KeepTraced DEF ss
<1>8. CASE ~Failed
  <2>1. m[1] # "err"
    BY <1>8 DEF Yield
  <2>2. IsSeq(kk) /\ IsSeq(ss.frames)
    <3>1. IsSeq(kk)
      BY <1>1, FrontShape
    <3>2. IsSeq(interps[i].frames) => IsSeq(Front(interps[i].frames))
      BY PopShape
    <3> QED BY <1>1, <1>4, <3>1, <3>2
  <2> HIDE DEF m, kk
  <2>3. Traced(m, kk, ss, Marked(r, m, ss))
    BY <1>5, <1>6, <1>8, <2>2, TraceMode
  <2>4. Marked(r, m, ss) = r
    BY <2>1 DEF Marked
  <2> QED BY <1>1, <1>3, <1>5, <1>8, <2>3, <2>4, KeepTraced DEF ss
<1> QED BY <1>7, <1>8

\* A task that begins another one goes on.
LEMMA ForkTraced ==
    ASSUME Shape, NEW t \in DOMAIN tasks, Sound(t), tasks[t].mode[1] # "err",
           NEW mm, mm[1] # "err", NEW x, NEW s,
           tasks' = Append([tasks EXCEPT ![t].mode = mm], x), interps' = Append(interps, s)
    PROVE  Sound(t)'
<1> DEFINE ts == [tasks EXCEPT ![t].mode = mm]
           i == tasks[t].in
           k == tasks[t].kont
           r == tasks[t].raised
<1>1. /\ IsSeq(tasks) /\ IsSeq(interps) /\ DOMAIN tasks[t] = TaskRecord
      /\ i \in DOMAIN interps /\ IsSeq(k) /\ IsSeq(interps[i].frames)
  BY Here DEF Shape, TaskOK
<1>2. /\ IsSeq(ts) /\ DOMAIN ts = DOMAIN tasks
      /\ ts[t].mode = mm /\ ts[t].kont = k /\ ts[t].in = i /\ ts[t].raised = r
  BY <1>1, ExceptShape DEF TaskRecord
<1> HIDE DEF ts
<1>3. tasks'[t] = ts[t] /\ interps'[i] = interps[i]
  BY <1>1, <1>2, AppendShape, SeqShape DEF ts
<1>4. Traced(mm, k, interps[i], Marked(r, mm, interps[i]))
  BY <1>1, TraceMode DEF Sound
<1>5. Marked(r, mm, interps[i]) = r
  BY DEF Marked
<1> QED BY <1>2, <1>3, <1>4, <1>5 DEF Sound

\* A call that goes on in this task or in another one.
LEMMA AsyncTraced ==
    ASSUME Shape, running # 0, NEW t, t = running, Sound(t), ApplyCall
    PROVE  Sound(t)'
<1> DEFINE f == Named(I.funcs, Node_.x)[1]
<1>0. Kind # "err"
  BY DEF ApplyCall
<1>1. CASE f.kind # "async"
  <2>1. interps' = interps /\ \E m : To(m, T.kont)
    BY <1>1 DEF ApplyCall
  <2> QED BY <1>0, <2>1, StayTraced
<1>2. CASE f.kind = "async"
  <2> DEFINE mm == Yield(Ref("Future", Len(heap) + 1))
  <2>1. \E x, s : /\ tasks' = Append([tasks EXCEPT ![t].mode = mm], x)
                  /\ interps' = Append(interps, s)
    BY <1>2 DEF ApplyCall
  <2>2. mm[1] # "err" /\ tasks[t].mode[1] # "err" /\ t \in DOMAIN tasks
    BY <1>0, Runs DEF Yield, Kind, Mode, T
  <2> HIDE DEF mm
  <2> QED BY <2>1, <2>2, ForkTraced
<1> QED BY <1>1, <1>2

\* A block is entered on top of what the task is in.
LEMMA BlockTraced ==
    ASSUME Shape, running # 0, NEW t, t = running, Sound(t), Kind # "err",
           NEW b, NEW kk, NEW e, EnterBlock(b, kk, e), Follows(tasks[t].kont, kk)
    PROVE  Sound(t)'
<1>1. tasks[t].mode[1] # "err"
  BY DEF Kind, Mode, T
<1> QED BY <1>1, EnterTraced

\* The ends of blocks and loops, and of operands.
LEMMA EndsTraced ==
    ASSUME Shape, running # 0, NEW t, t = running, Sound(t),
           \/ BlockStep \/ OperandFails \/ FillFails \/ WhileStep \/ FillSlot
    PROVE  Sound(t)'
<1>1. CASE BlockStep
  <2>1. Light(Top)
    BY <1>1, LightItem DEF BlockStep, At, CallItems
  <2>2. CASE Failed
    <3>1. To(Mode, Rest) /\ interps' = interps
      BY <1>1, <2>2 DEF BlockStep, Failed
    <3> QED BY <2>1, <3>1, DropTraced
  <2>3. CASE ~Failed
    <3> DEFINE x == [at |-> "block", rest |-> Tail(Top.rest)]
    <3>1. Light(x)
      BY LightItem DEF CallItems
    <3>2. /\ \E m : To(m, Rest) \/ To(m, Append(Rest, x))
          /\ interps' = interps \/ \E e : SetEnv(e)
      BY <1>1, <2>3 DEF BlockStep
    <3>3. Kind # "err"
      BY <2>3 DEF Failed
    <3> HIDE DEF x
    <3> QED BY <2>1, <3>1, <3>2, <3>3, TopFollows, OnTraced
  <2> QED BY <2>2, <2>3
<1>2. CASE OperandFails \/ FillFails
  <2>1. To(Mode, Rest) /\ interps' = interps
    BY <1>2 DEF OperandFails, FillFails
  <2>2. Light(Top)
    BY <1>2, LightItem DEF OperandFails, FillFails, At, CallItems
  <2> QED BY <2>1, <2>2, DropTraced
<1>3. CASE WhileStep
  <2>1. Light(Top) /\ Kind # "err" /\ interps' = interps
    BY <1>3, LightItem DEF WhileStep, At, CallItems, Completed
  <2>2. \E m : To(m, Rest)
    BY <1>3 DEF WhileStep
  <2> QED BY <2>1, <2>2, TopFollows, OnTraced
<1>4. CASE FillSlot
  <2> DEFINE x == [Top EXCEPT !.k = Top.k + 1]
  <2>1. Top.at = "fill" /\ "at" \in DOMAIN Top
    BY <1>4, TopItem DEF FillSlot, At, Top, T, ItemOK
  <2>2. x.at = "fill"
    BY <2>1
  <2> HIDE DEF x
  <2>3. Light(Top) /\ Light(x)
    BY <2>1, <2>2, LightItem DEF CallItems
  <2>4. Kind # "err" /\ interps' = interps
    BY <1>4 DEF FillSlot, Completed
  <2>5. \E m : To(m, Rest) \/ To(m, Append(Rest, x))
    BY <1>4 DEF FillSlot, x
  <2> QED BY <2>3, <2>4, <2>5, TopFollows, OnTraced
<1> QED BY <1>1, <1>2, <1>3, <1>4

\* Statements that enter a block, or do not.
LEMMA BranchTraced ==
    ASSUME Shape, running # 0, NEW t, t = running, Sound(t),
           \/ ExecIf \/ ExecWhile \/ ExecFor \/ ExecExclusive
    PROVE  Sound(t)'
<1>0. Kind # "err"
  BY DEF ExecIf, ExecWhile, ExecFor, ExecExclusive
<1>1. CASE ExecIf \/ ExecExclusive
  <2>1. \/ \E b : EnterBlock(b, T.kont, I.env)
        \/ interps' = interps /\ \E m : To(m, T.kont)
    BY <1>1 DEF ExecIf, ExecExclusive
  <2> QED BY <1>0, <2>1, TopFollows, BlockTraced, StayTraced
<1>2. CASE ExecWhile
  <2> DEFINE x == [at |-> "while", n |-> Node_]
  <2>1. \/ \E b : EnterBlock(b, Append(T.kont, x), I.env)
        \/ interps' = interps /\ \E m : To(m, T.kont)
    BY <1>2 DEF ExecWhile
  <2>2. Light(x)
    BY LightItem DEF CallItems
  <2> HIDE DEF x
  <2> QED BY <1>0, <2>1, <2>2, TopFollows, BlockTraced, StayTraced
<1>3. CASE ExecFor
  <2> DEFINE x == [at |-> "for", n |-> Node_, part |-> "init"]
  <2>1. (\E m : To(m, Append(T.kont, x))) /\ SetEnv(Push(I.env))
    BY <1>3 DEF ExecFor
  <2>2. Light(x)
    BY LightItem DEF CallItems
  <2> HIDE DEF x
  <2> QED BY <1>0, <2>1, <2>2, TopFollows, OnTraced
<1> QED BY <1>1, <1>2, <1>3

\* The parts of a for loop.
LEMMA ForTraced ==
    ASSUME Shape, running # 0, NEW t, t = running, Sound(t), ForStep
    PROVE  Sound(t)'
<1> DEFINE x(part) == [Top EXCEPT !.part = part]
<1>1. Top.at = "for" /\ "at" \in DOMAIN Top
  BY TopItem DEF ForStep, At, Top, T, ItemOK
<1>2. \A part : x(part).at = "for"
  BY <1>1
<1>3. Light(Top) /\ \A part : Light(x(part))
  BY <1>1, <1>2, LightItem DEF CallItems
<1>4. Kind # "err"
  BY DEF ForStep, Completed
<1>5. \/ \E b : EnterBlock(b, Append(Rest, x("body")), I.env)
      \/ (\E m : To(m, Rest)) /\ SetEnv(Pop(I.env))
      \/ (\E m, part : To(m, Append(Rest, x(part)))) /\ interps' = interps
  BY ONLY ForStep DEF ForStep
<1> HIDE DEF x
<1>6. /\ Follows(tasks[t].kont, Rest)
      /\ \A part : Follows(tasks[t].kont, Append(Rest, x(part)))
  BY <1>3, TopFollows
<1>7. CASE \E b : EnterBlock(b, Append(Rest, x("body")), I.env)
  BY <1>4, <1>6, <1>7, BlockTraced
<1>8. CASE (\E m : To(m, Rest)) /\ SetEnv(Pop(I.env))
  BY <1>4, <1>6, <1>8, OnTraced
<1>9. CASE (\E m, part : To(m, Append(Rest, x(part)))) /\ interps' = interps
  BY <1>4, <1>6, <1>9, OnTraced
<1> QED BY <1>5, <1>7, <1>8, <1>9

\* A scope block is begun.
LEMMA BeginTraced ==
    ASSUME Shape, running # 0, NEW t, t = running, Sound(t), ScopeStart
    PROVE  Sound(t)'
<1>0. Kind # "err"
  BY DEF ScopeStart
<1> DEFINE d == Named(program.scopes, Node_.x)
           obj == Len(heap) + 1
           x(stage) == [at |-> "scope", n |-> Node_, d |-> d, obj |-> obj,
                        stage |-> stage, prims |-> {}, res |-> Done]
           fill(slots) == Fill(slots, obj)
<1>1. /\ \A stage : Light(x(stage))
      /\ \A slots : Light(fill(slots))
  BY DEF Light, Holding, CallItems, Done, Fill
<1>2. CASE d = <<>>
  <2>1. EnterBlock(Node_.blocks[1], Append(T.kont, x("body")), Push(I.env))
    BY <1>2 DEF ScopeStart
  <2> HIDE DEF x
  <2> QED BY <1>0, <1>1, <2>1, TopFollows, BlockTraced
<1>3. CASE d # <<>> /\ Len(d[1].params) # Len(Node_.args)
  <2>1. (\E m : To(m, T.kont)) /\ SetEnv(Push(I.env))
    BY <1>3 DEF ScopeStart
  <2> QED BY <1>0, <2>1, StayTraced
<1>4. CASE d # <<>> /\ Len(d[1].params) = Len(Node_.args)
  <2>1. PICK slots : To(Done, T.kont \o <<x("fill"), fill(slots)>>)
    BY <1>4 DEF ScopeStart
  <2>2. SetEnv(Push(I.env))
    BY <1>4 DEF ScopeStart
  <2> HIDE DEF x, fill
  <2>3. IsSeq(T.kont)
    BY TopFollows
  <2>4. T.kont \o <<x("fill"), fill(slots)>> = Append(Append(T.kont, x("fill")), fill(slots))
    BY <2>3, AppendTwo
  <2>5. IsSeq(tasks[t].kont) /\ Follows(tasks[t].kont, Append(T.kont, x("fill")))
    BY <1>1, <2>3, TopFollows
  <2>6. Follows(tasks[t].kont, T.kont \o <<x("fill"), fill(slots)>>)
    BY <1>1, <2>4, <2>5, FollowsPush
  <2> QED BY <1>0, <2>1, <2>2, <2>6, OnTraced
<1> QED BY <1>2, <1>3, <1>4

\* What the items of scope blocks hold before the exit hook.
LEMMA ScopeTop ==
    ASSUME Shape, running # 0, At("scope")
    PROVE  /\ Top.at = "scope" /\ {"at", "obj", "stage", "d", "res"} \subseteq DOMAIN Top
           /\ Top.stage # "exit" => Light(Top)
           /\ ~Holding(Top) => Light(Top)
<1>1. ItemOK(Top) /\ Top.at = "scope"
  BY TopItem DEF At, Top, T
<1> QED BY <1>1 DEF ItemOK, Light, Holding, CallItems

\* A scope block is entered.
LEMMA EnteringTraced ==
    ASSUME Shape, running # 0, NEW t, t = running, Sound(t),
           \/ ScopeFillFails \/ ScopeEnter \/ ScopeEnterFails \/ ScopeBody
    PROVE  Sound(t)'
<1>1. At("scope") /\ Top.stage # "exit"
  BY DEF ScopeFillFails, ScopeEnter, ScopeEnterFails, ScopeBody
<1>2. /\ Light(Top) /\ Top.at = "scope" /\ {"at", "stage", "res"} \subseteq DOMAIN Top
      /\ Top.res[1] # "err"
  BY <1>1, ScopeTop DEF Light, Holding
<1>3. CASE ScopeFillFails \/ ScopeEnterFails
  <2>1. To(Mode, Rest) /\ (interps' = interps \/ \E e : SetEnv(e))
    BY <1>3 DEF ScopeFillFails, ScopeEnterFails
  <2> QED BY <1>2, <2>1, DropTraced
<1>4. CASE ScopeEnter
  <2> DEFINE x == [Top EXCEPT !.stage = "enter"]
  <2>1. Light(x)
    <3>1. x.at = "scope" /\ x.res = Top.res
      BY <1>2
    <3> QED BY <1>2, <3>1 DEF Light, Holding, CallItems
  <2>2. \/ To(Done, Append(Rest, x)) /\ \E e : SetEnv(e)
        \/ \E b, e : EnterBlock(b, Append(Rest, x), e)
    BY <1>4 DEF ScopeEnter
  <2>3. Kind # "err"
    BY <1>4 DEF ScopeEnter, Completed
  <2> HIDE DEF x
  <2>4. Follows(tasks[t].kont, Append(Rest, x))
    BY <1>2, <2>1, TopFollows
  <2> QED BY <2>2, <2>3, <2>4, OnTraced, BlockTraced
<1>5. CASE ScopeBody
  <2> DEFINE x == [Top EXCEPT !.stage = "body", !.prims = PrimsOf(Top.d, Top.obj)]
  <2>1. Light(x)
    <3>1. x.at = "scope" /\ x.res = Top.res
      BY <1>2
    <3> QED BY <1>2, <3>1 DEF Light, Holding, CallItems
  <2>2. EnterBlock(Top.n.blocks[1], Append(Rest, x), I.env)
    BY <1>5 DEF ScopeBody
  <2>3. Kind # "err"
    BY <1>5 DEF ScopeBody, Completed
  <2> HIDE DEF x
  <2>4. Follows(tasks[t].kont, Append(Rest, x))
    BY <1>2, <2>1, TopFollows
  <2> QED BY <2>2, <2>3, <2>4, BlockTraced
<1> QED BY <1>3, <1>4, <1>5

\* The exit hook begins: the block keeps what its body ended with.
LEMMA ExitTraced ==
    ASSUME Shape, running # 0, NEW t, t = running, Sound(t), ScopeExit
    PROVE  Sound(t)'
<1> DEFINE x == [Top EXCEPT !.stage = "exit", !.res = Mode]
           s == interps[tasks[t].in]
           r == tasks[t].raised
<1>1. At("scope") /\ Top.stage # "exit"
  BY DEF ScopeExit
<1>2. /\ Light(Top) /\ Top.at = "scope" /\ {"at", "stage", "res"} \subseteq DOMAIN Top
      /\ x.at = "scope" /\ x.res = Mode
  BY <1>1, ScopeTop
<1>3. \/ To(Done, Append(Rest, x)) /\ interps' = interps
      \/ \E b, e : EnterBlock(b, Append(Rest, x), e)
  BY DEF ScopeExit
<1> HIDE DEF x
<1>4. CASE Failed
  <2>1. /\ t \in DOMAIN tasks /\ IsSeq(T.kont) /\ T.kont # <<>> /\ IsSeq(s.frames)
        /\ Traced(Mode, T.kont, s, r)
    BY Runs, Here DEF Sound, Mode, T
  <2>2. Traced(Mode, Rest, s, r) /\ IsSeq(Rest)
    BY <1>2, <2>1, TracePop, FrontShape DEF Top, Rest, Light
  <2>3. Traced(Done, Append(Rest, x), s, r) /\ IsSeq(Append(Rest, x))
    <3>1. Mode[1] = "err"
      BY <1>4 DEF Failed, Kind
    <3> QED BY <1>2, <2>1, <2>2, <3>1, TraceAbsorb, AppendShape
  <2>4. CASE To(Done, Append(Rest, x)) /\ interps' = interps
    <3>1. Traced(Done, Append(Rest, x), interps'[tasks[t].in], r)
      BY <2>3, <2>4
    <3>2. Settle(t, Done, Append(Rest, x))
      BY <2>4 DEF To
    <3>3. Done[1] # "val"
      BY DEF Done
    <3> QED BY <2>1, <3>1, <3>2, <3>3, KeepTraced
  <2>5. ASSUME NEW b, NEW e, EnterBlock(b, Append(Rest, x), e) PROVE Sound(t)'
    <3> DEFINE y == BlockItem(b)
    <3>1. Light(y)
      BY DEF BlockItem, Light, Holding, CallItems
    <3>2. Settle(t, Done, Append(Append(Rest, x), y)) /\ SetEnv(Push(e))
      BY <2>5 DEF EnterBlock, To, BlockItem
    <3> HIDE DEF y
    <3>3. Traced(Done, Append(Append(Rest, x), y), s, r)
      <4>1. Done[1] # "err"
        BY DEF Done
      <4> QED BY <2>1, <2>3, <3>1, <4>1, TracePush DEF Light
    <3>4. FramesStay(tasks[t].in)
      BY <3>2, ScopesOnly DEF T
    <3>5. Traced(Done, Append(Append(Rest, x), y), interps'[tasks[t].in], r)
      BY <3>3, <3>4, TraceInterp DEF FramesStay
    <3>6. Done[1] # "val"
      BY DEF Done
    <3> QED BY <2>1, <3>2, <3>5, <3>6, KeepTraced
  <2> QED BY <1>3, <2>4, <2>5
<1>5. CASE ~Failed
  <2>1. Light(x) /\ Kind # "err"
    BY <1>2, <1>5 DEF Light, Holding, CallItems, Failed, Kind
  <2>2. Follows(tasks[t].kont, Append(Rest, x))
    BY <1>2, <2>1, TopFollows
  <2> QED BY <1>3, <2>1, <2>2, OnTraced, BlockTraced
<1> QED BY <1>4, <1>5

\* A scope block is left: the error of its body goes on, before the hook's.
LEMMA LeaveTraced ==
    ASSUME Shape, running # 0, NEW t, t = running, Sound(t), ScopeLeave
    PROVE  Sound(t)'
<1>1. /\ At("scope") /\ SetEnv(Pop(I.env))
      /\ To(IF Top.res[1] # "err" /\ Failed THEN Mode ELSE Top.res, Rest)
  BY DEF ScopeLeave
<1>2. Top.at = "scope" /\ (~Holding(Top) => Light(Top))
  BY <1>1, ScopeTop
<1>3. CASE Holding(Top)
  <2>1. To(Top.res, Rest)
    BY <1>1, <1>3 DEF Holding
  <2>2. /\ t \in DOMAIN tasks /\ IsSeq(T.kont) /\ T.kont # <<>> /\ IsSeq(interps[tasks[t].in].frames)
        /\ Traced(Mode, T.kont, interps[tasks[t].in], tasks[t].raised)
    BY Runs, Here DEF Sound, Mode, T
  <2>3. Traced(Top.res, Rest, interps[tasks[t].in], tasks[t].raised)
    BY <1>3, <2>2, TraceLeave DEF Top, Rest
  <2>4. FramesStay(tasks[t].in)
    BY <1>1, ScopesOnly DEF T
  <2>5. Traced(Top.res, Rest, interps'[tasks[t].in], tasks[t].raised)
    BY <2>3, <2>4, TraceInterp DEF FramesStay
  <2>6. Settle(t, Top.res, Rest)
    BY <2>1 DEF To
  <2>7. Top.res[1] # "val"
    BY <1>3 DEF Holding
  <2> QED BY <2>2, <2>5, <2>6, <2>7, KeepTraced
<1>4. CASE ~Holding(Top) /\ Failed
  <2>1. To(Mode, Rest)
    BY <1>1, <1>2, <1>4 DEF Holding
  <2> QED BY <1>1, <1>2, <1>4, <2>1, DropTraced
<1>5. CASE ~Holding(Top) /\ ~Failed
  <2>1. To(Top.res, Rest) /\ Kind # "err"
    BY <1>1, <1>5 DEF Failed
  <2> QED BY <1>1, <1>2, <1>5, <2>1, TopFollows, OnTraced
<1> QED BY <1>3, <1>4, <1>5

\* A thread is spawned.
LEMMA SpawnTraced ==
    ASSUME Shape, running # 0, NEW t, t = running, Sound(t), ExecSpawn
    PROVE  Sound(t)'
<1> DEFINE mm == <<"ready", Len(threads) + 1, Node_.bind>>
<1>1. \E x, s : /\ tasks' = Append([tasks EXCEPT ![t].mode = mm], x)
                /\ interps' = Append(interps, s)
  BY DEF ExecSpawn
<1>2. mm[1] # "err" /\ tasks[t].mode[1] # "err" /\ t \in DOMAIN tasks
  BY Runs DEF ExecSpawn, Kind, Mode, T
<1> HIDE DEF mm
<1> QED BY <1>1, <1>2, ForkTraced

\* The next statement of the main program.
LEMMA TopTraced ==
    ASSUME Shape, running # 0, NEW t, t = running, Sound(t), TopStep
    PROVE  Sound(t)'
<1> DEFINE x == [at |-> "top", rest |-> Tail(Top.rest)]
<1>1. \E m : To(m, <<x>>)
  BY DEF TopStep
<1>2. /\ IsSeq(T.kont) /\ Len(T.kont) = 1 /\ Top.at = "top"
      /\ Kind # "err" /\ interps' = interps
  BY TopItem, TopFollows DEF TopStep, At, Bases, Completed, T, Top
<1>3. Light(Top) /\ Light(x)
  BY <1>2, LightItem DEF CallItems
<1> HIDE DEF x
<1>4. Append(Rest, x) = <<x>>
  BY <1>2, OnlyItem DEF Rest
<1>5. Follows(tasks[t].kont, <<x>>)
  BY <1>3, <1>4, TopFollows
<1> QED BY <1>1, <1>2, <1>5, OnTraced

\* A task gets the answer it waits for.
LEMMA ResumeTraced ==
    ASSUME Shape, NEW t \in DOMAIN tasks, Sound(t), Resume(t)
    PROVE  Sound(t)'
<1>1. /\ tasks[t].mode[1] # "err" /\ \E m : Settle(t, m, tasks[t].kont)
      /\ Follows(tasks[t].kont, tasks[t].kont)
  BY Here, FollowsSame DEF Resume, Waiting
<1>2. FramesStay(tasks[t].in)
  <2>1. tasks[t].in \in DOMAIN interps /\ DOMAIN interps[tasks[t].in] = InterpRecord
    BY Here DEF InterpOK
  <2>2. interps' = interps \/ \E e : interps' = [interps EXCEPT ![tasks[t].in].env = e]
    BY DEF Resume
  <2> QED BY <2>1, <2>2 DEF FramesStay, InterpRecord
<1> QED BY <1>1, <1>2, GoTraced

-----------------------------------------------------------------------------
(* The main task by itself.                                                  *)

\* Nobody else runs on its interpreter state.
TraceInv ==
    /\ 1 \in DOMAIN tasks /\ tasks[1].in = 1
    /\ tasks[1].kont # <<>> /\ tasks[1].kont[1].at = "top"
    /\ interps[1].caught \/ Sound(1)

\* A step of a task changes no other task and no other interpreter state.
LEMMA ElseStays ==
    ASSUME Shape, NEW t \in DOMAIN tasks, StepOf(t)
    PROVE  /\ tasks[t].kont # <<>>
           /\ \A u \in DOMAIN tasks \ {t} : u \in DOMAIN tasks' /\ tasks'[u] = tasks[u]
           /\ \A i \in DOMAIN interps \ {tasks[t].in} : interps'[i] = interps[i]
<1>1. DOMAIN tasks = 1..Len(tasks) /\ Len(tasks) \in Nat
  BY SeqShape DEF Shape
<1>2. ASSUME Turn(t)
      PROVE  /\ tasks[t].kont # <<>>
             /\ \A u \in DOMAIN tasks \ {t} : u \in DOMAIN tasks' /\ tasks'[u] = tasks[u]
             /\ \A i \in DOMAIN interps \ {tasks[t].in} : interps'[i] = interps[i]
  <2>1. DOMAIN tasks' = 1..Len(tasks') /\ Len(tasks') \in Nat /\ Len(tasks') >= Len(tasks)
    BY <1>2, SeqShape DEF Turn, TaskTurn
  <2>2. DOMAIN tasks \subseteq DOMAIN tasks'
    BY <1>1, <2>1
  <2> QED BY <1>2, <2>2 DEF Turn, TaskTurn, InterpTurn, Forward
<1>3. ASSUME NEW how, Gone(t, how)
      PROVE  /\ tasks[t].kont # <<>>
             /\ \A u \in DOMAIN tasks \ {t} : u \in DOMAIN tasks' /\ tasks'[u] = tasks[u]
  <2>1. DOMAIN tasks' = DOMAIN tasks
    BY <1>1, <1>3, SeqShape DEF Gone
  <2> QED BY <1>3, <2>1 DEF Gone
<1>4. CASE ScopeTurn(t) \/ Enters(t) \/ Asks(t) \/ Calls(t) \/ Spawns(t)
  BY <1>2, <1>4 DEF ScopeTurn, Steady, Enters, Asks, Calls, Spawns, Forks
<1>5. CASE Starts(t)
  <2>1. DOMAIN tasks' = DOMAIN tasks
    BY <1>1, <1>5, SeqShape DEF Starts
  <2>2. tasks[t].kont # <<>>
    BY <1>5, Here DEF Starts, TaskOK, Over
  <2> QED BY <1>5, <2>1, <2>2 DEF Starts, InterpTurn
<1>6. CASE HandlerOver(t)
  BY <1>3, <1>6 DEF HandlerOver, InterpTurn
<1>7. CASE FutureOver(t) \/ Panics(t) \/ \E th, status : BodyOver(t, th, status)
  BY <1>3, <1>7 DEF FutureOver, Panics, BodyOver
<1>8. CASE Takes(t)
  <2>1. tasks[t].kont # <<>> /\ interps' = interps
    BY <1>8 DEF Takes
  <2>2. tasks' = tasks \/ \E i, cell : Begins(i, cell)
    BY <1>8 DEF Takes
  <2>3. ASSUME NEW i, NEW cell, Begins(i, cell)
        PROVE  \A u \in DOMAIN tasks \ {t} : u \in DOMAIN tasks' /\ tasks'[u] = tasks[u]
    <3>1. PICK new : new = Len(tasks) + 1
      OBVIOUS
    <3>2. Begun(new, i, cell)
      BY <2>3, <3>1, NewHandler
    <3> QED BY <3>2 DEF Begun
  <2> QED BY <2>1, <2>2, <2>3
<1> QED BY <1>4, <1>5, <1>6, <1>7, <1>8 DEF StepOf

\* The main task goes on until the program is over.
LEMMA TopTurns ==
    ASSUME Shape, NEW t \in DOMAIN tasks, StepOf(t), tasks[t].kont[1].at = "top"
    PROVE  Turn(t)
<1>1. ~Starts(t)
  BY Here DEF Starts, TaskOK
<1>2. /\ ~HandlerOver(t) /\ ~FutureOver(t) /\ ~Panics(t) /\ ~Takes(t)
      /\ \A th, status : ~BodyOver(t, th, status)
  BY DEF HandlerOver, FutureOver, Panics, Takes, BodyOver
<1> QED BY <1>1, <1>2 DEF StepOf, ScopeTurn, Steady, Enters, Asks, Calls, Spawns, Forks

\* So it is where it was.
LEMMA MainStays ==
    ASSUME Shape, TraceInv, StepOf(1), Sound(1) => Sound(1)' \/ interps'[1].caught
    PROVE  TraceInv'
<1>1. 1 \in DOMAIN tasks /\ tasks[1].in = 1 /\ Turn(1)
  BY TopTurns DEF TraceInv
<1>2. 1 \in DOMAIN tasks'
  <2>1. DOMAIN tasks = 1..Len(tasks) /\ Len(tasks) \in Nat
    BY SeqShape DEF Shape
  <2>2. DOMAIN tasks' = 1..Len(tasks') /\ Len(tasks') \in Nat /\ Len(tasks') >= Len(tasks)
    BY <1>1, SeqShape DEF Turn, TaskTurn
  <2> QED BY <1>1, <2>1, <2>2
<1>3. interps[1].caught => interps'[1].caught
  BY <1>1 DEF Turn, InterpTurn
<1> QED BY <1>1, <1>2, <1>3 DEF TraceInv, Turn, TaskTurn, Forward

\* The other tasks are in other interpreter states.
LEMMA MainAlone ==
    ASSUME Shape, StackInv, TraceInv, NEW t \in DOMAIN tasks, t # 1, StepOf(t)
    PROVE  TraceInv'
<1>1. tasks[t].kont # <<>> /\ 1 \in DOMAIN tasks' /\ tasks'[1] = tasks[1]
  BY ElseStays DEF TraceInv
<1>2. tasks[t].in # 1 /\ 1 \in DOMAIN interps
  BY <1>1, Here DEF TraceInv, StackInv, Alone, Alive
<1>3. interps'[1] = interps[1]
  BY <1>2, ElseStays
<1> QED BY <1>1, <1>3 DEF TraceInv, Sound

\* What the running task does to its first failure, if it is the main task.
LEMMA ExpressionTraced ==
    ASSUME Shape, running # 0, NEW t, t = running, Sound(t), Expression
    PROVE  Sound(t)' \/ interps'[tasks[t].in].caught
BY ApplyTraced, OperandsTraced, TryTraced, InvokeTraced, ReturnTraced, AsyncTraced
   DEF Expression

\* Statements and scope blocks.
LEMMA StatementTraced ==
    ASSUME Shape, running # 0, NEW t, t = running, Sound(t), Statement \/ Scoped
    PROVE  Sound(t)'
BY ApplyTraced, EndsTraced, BranchTraced, ForTraced, BeginTraced, EnteringTraced, ExitTraced,
   LeaveTraced DEF Statement, Scoped

\* Of the steps of threads only the spawning is the main task's.
LEMMA ThreadedTraced ==
    ASSUME Shape, running # 0, NEW t, t = running, Sound(t), Threaded \/ TopStep,
           tasks[t].kont[1].at = "top"
    PROVE  Sound(t)'
<1>1. ASSUME NEW a \in Bases, At(a) PROVE a = "top"
  <2>1. /\ tasks[t].kont # <<>> /\ KontOK(tasks[t].kont) /\ Last(tasks[t].kont).at = a
        /\ Len(tasks[t].kont) = 1
    BY <1>1, TopItem
  <2> QED BY <2>1, TopPlace
<1>2. ~At("thread") /\ ~At("handler") /\ ~At("mini")
  BY <1>1 DEF Bases
<1>3. Kind # "handle"
  BY Runs, Here DEF TaskOK, Kind, Mode, T
<1>4. ~TaskPanics
  BY DEF TaskPanics, T
<1> QED BY <1>2, <1>3, <1>4, SpawnTraced, TopTraced
        DEF Threaded, ThreadSetup, ThreadEntered, ThreadBodyEnds, ThreadEnds, HandlerStart,
            HandlerEnds, MiniEnds, Stage

\* Every step.
LEMMA RunTraced == ASSUME Shape, StackInv, TraceInv, Run PROVE TraceInv'
<1>1. CASE running # 0 /\ (Expression \/ Statement \/ Scoped \/ Threaded \/ TopStep)
  <2>1. PICK t : t = running
    OBVIOUS
  <2>2. t \in DOMAIN tasks /\ StepOf(t)
    BY <1>1, <2>1, Runs, ExpressionStep, StatementStep, ThreadedStep
  <2>3. CASE t = 1
    <3>1. Sound(t) => Sound(t)' \/ interps'[tasks[t].in].caught
      BY <1>1, <2>1, <2>3, ExpressionTraced, StatementTraced, ThreadedTraced DEF TraceInv
    <3>2. Sound(1) => Sound(1)' \/ interps'[1].caught
      BY <2>3, <3>1 DEF TraceInv
    <3> QED BY <2>2, <2>3, <3>2, MainStays
  <2>4. CASE t # 1
    BY <2>2, <2>4, MainAlone
  <2> QED BY <2>3, <2>4
<1>2. CASE TopEnds \/ Park \/ \E t \in DOMAIN tasks : Poll(t)
  <2>1. tasks' = tasks /\ interps' = interps
    BY <1>2 DEF TopEnds, Park, Poll, machine
  <2> QED BY <2>1 DEF TraceInv, Sound
<1>3. ASSUME NEW t \in DOMAIN tasks, DispatchHandler(t) PROVE TraceInv'
  <2>1. Takes(t)
    BY <1>3, DispatchTakes
  <2>2. t # 1
    BY <2>1 DEF Takes, TraceInv
  <2> QED BY <2>1, <2>2, MainAlone DEF StepOf
<1>4. ASSUME NEW t \in DOMAIN tasks, Resume(t) PROVE TraceInv'
  <2>1. StepOf(t)
    BY <1>4, ResumePlain, PlainScope DEF StepOf
  <2>2. CASE t = 1
    BY <1>4, <2>1, <2>2, ResumeTraced, MainStays
  <2> QED BY <2>1, <2>2, MainAlone
<1> QED BY <1>1, <1>2, <1>3, <1>4 DEF Run

\* At first the main task is the only one, nothing was raised and nothing called.
LEMMA BootTraced == ASSUME Boot PROVE TraceInv
<1>1. PICK p \in Programs : Start(p)
  BY DEF Boot
<1> DEFINE x == [at |-> "top", rest |-> p.main]
           k == <<x>>
           d == [j \in 1..2 |-> 0]
<1>2. DOMAIN k = {1} /\ Len(k) = 1 /\ k[1].at = "top" /\ k # <<>>
  OBVIOUS
<1>3. tasks = <<NewTask(1, Done, k)>> /\ interps = <<NewInterp(p.funcs)>>
  BY <1>1 DEF Start
<1> HIDE DEF k
<1>4. /\ 1 \in DOMAIN tasks /\ tasks[1].in = 1 /\ tasks[1].kont = k
      /\ tasks[1].mode = <<"done">> /\ tasks[1].raised = <<>>
  BY <1>3 DEF NewTask, Done
<1>5. interps[1].frames = <<>> /\ interps[1].bt = <<>>
  BY <1>3 DEF NewInterp
<1>6. d \in [1..2 -> Nat] /\ d[1] = 0 /\ d[2] = 0 /\ \A j \in 1..2 : d[j] = 0
  OBVIOUS
<1> HIDE DEF d
<1>7. Depths(d, k, 0)
  <2>1. One(k[1].at \in CallItems) = 0
    BY <1>2 DEF One, CallItems
  <2> QED BY <1>2, <1>6, <2>1 DEF Depths
<1>8. \A j \in 1..Len(k) : ~Holding(k[j])
  BY <1>2 DEF Holding
<1>9. Sound(1)
  BY <1>4, <1>5, <1>7, <1>8, EmptyShape DEF Sound, Traced, Fine
<1> QED BY <1>2, <1>4, <1>9 DEF TraceInv

\* What leads a sequence is a prefix of it.
LEMMA LeadsPrefix ==
    ASSUME NEW R, NEW f, IsSeq(R), IsSeq(f), Leads(R, f)
    PROVE  IsPrefix(R, f)
<1> DEFINE S == {R[i] : i \in DOMAIN R} \cup {f[i] : i \in DOMAIN f}
           n == Len(R)
<1>1. n \in Nat /\ Len(f) \in Nat /\ n <= Len(f) /\ DOMAIN R = 1..n /\ DOMAIN f = 1..Len(f)
  BY SeqShape DEF Leads
<1>2. R \in Seq(S) /\ f \in Seq(S)
  <2>1. ASSUME NEW A, NEW B, A \subseteq B, NEW g \in Seq(A) PROVE g \in Seq(B)
    BY <2>1
  <2>2. {R[i] : i \in DOMAIN R} \subseteq S /\ {f[i] : i \in DOMAIN f} \subseteq S
    BY DEF S
  <2> HIDE DEF S
  <2> QED BY <2>1, <2>2 DEF IsSeq
<1> HIDE DEF S
<1>3. \A i \in 1..n : R[i] = f[i] /\ R[i] \in S /\ f[i] \in S
  BY <1>1, <1>2 DEF Leads
<1> HIDE DEF n
<1>4. ASSUME NEW g, \A i \in 1..n : g[i] \in S
      PROVE  /\ SubSeq(g, 1, n) \in Seq(S) /\ Len(SubSeq(g, 1, n)) = n
             /\ \A i \in 1..n : SubSeq(g, 1, n)[i] = g[i]
  <2>1. /\ SubSeq(g, 1, n) \in Seq(S)
        /\ Len(SubSeq(g, 1, n)) = IF 1 <= n THEN n - 1 + 1 ELSE 0
        /\ \A i \in 1..(n - 1 + 1) : SubSeq(g, 1, n)[i] = g[1 + i - 1]
    BY <1>1, <1>4, SubSeqProperties
  <2> QED BY <1>1, <2>1
<1>5. /\ SubSeq(R, 1, n) \in Seq(S) /\ Len(SubSeq(R, 1, n)) = n
      /\ SubSeq(f, 1, n) \in Seq(S) /\ Len(SubSeq(f, 1, n)) = n
      /\ \A i \in 1..n : SubSeq(R, 1, n)[i] = SubSeq(f, 1, n)[i]
  BY <1>3, <1>4
<1>6. SubSeq(R, 1, n) = SubSeq(f, 1, n)
  BY <1>5, SeqEqual
<1> QED BY <1>1, <1>6 DEF IsPrefix, n

\* With nothing but the top level left the first failure is the one at hand, and
\* no call is left to be added to its chain.
LEMMA TracesComplete == ASSUME Shape, TraceInv PROVE TracebackComplete
<1> DEFINE t == tasks[1]
           s == interps[1]
<1>1. SUFFICES ASSUME t.mode[1] = "err", Len(t.kont) = 1, ~s.caught
               PROVE  /\ t.raised # <<>> /\ t.raised[1] = t.mode
                      /\ IsPrefix(t.raised[2], s.bt)
  BY DEF TracebackComplete, Fails, Reports
<1>2. Traced(t.mode, t.kont, s, t.raised) /\ t.kont[1].at = "top"
  BY <1>1 DEF TraceInv, Sound
<1> HIDE DEF t, s
<1>3. PICK d : Depths(d, t.kont, Len(s.frames)) /\ Failing(t.mode, t.kont, s, t.raised, d)
  BY <1>1, <1>2 DEF Traced, Fine
<1>4. PICK n : Carried(t.raised[1], t.mode, t.kont, n) /\ Known(t.raised[2], s, d[n])
  BY <1>3 DEF Failing
<1>5. n = 2 /\ t.raised[1] = t.mode
  BY <1>1, <1>2, <1>4 DEF Carried
<1>6. d[2] = 0
  <2>1. One(t.kont[1].at \in CallItems) = 0
    BY <1>2 DEF One, CallItems
  <2> QED BY <1>1, <1>3, <2>1 DEF Depths
<1>7. IsSeq(t.raised[2]) /\ IsSeq(s.bt) /\ t.raised # <<>>
  BY <1>2, <1>3 DEF Failing, Traced
<1>8. Leads(t.raised[2], s.bt)
  <2>1. Len(t.raised[2]) \in Nat /\ Len(s.bt) \in Nat
    BY <1>7, SeqShape
  <2> QED BY <1>4, <1>5, <1>6, <2>1 DEF Known, Leads
<1> QED BY <1>5, <1>7, <1>8, LeadsPrefix

\* An error that ends a program is the first that was raised on the way, and the
\* traceback has every call that was in progress then, from the outermost to the
\* one that failed, unless a `try` recovered in between: the exit hooks that run
\* on the way out neither replace the error nor the chain of its calls.
THEOREM TracebackKept == Interpreter => []TracebackComplete
<1>1. StackInv /\ Shape /\ [Run]_<<program, machine>> => StackInv'
  BY NextStep, StepStacks
<1>2. TraceInv /\ StackInv /\ Shape /\ [Run]_<<program, machine>> => TraceInv'
  <2>1. CASE Run
    BY <2>1, RunTraced
  <2>2. CASE UNCHANGED <<program, machine>>
    BY <2>2 DEF machine, TraceInv, Sound
  <2> QED BY <2>1, <2>2
<1>3. Shape /\ TraceInv => TracebackComplete
  BY TracesComplete
<1> QED BY <1>1, <1>2, <1>3, BootTraced, BootStacks, WellFormed, PTL DEF Interpreter
=============================================================================
