--------------------------- MODULE RpcClientProofs ---------------------------
(***************************************************************************)
(* Theorems about the EVM client below the wallet: what its queries may    *)
(* call final (ChainReads), and which endpoints its transport sends to     *)
(* (FallbackTransport).                                                    *)
(***************************************************************************)
EXTENDS RpcClient, Naturals, Sequences, TLAPS

-----------------------------------------------------------------------------
(* The inductive invariant. *)

Orders == {Reads!NoOrder} \cup OrderValues
          \cup {[v EXCEPT !.state = s] : v \in OrderValues, s \in {"released", "refunded"}}

Blocks == [hash : Nat, tx : BOOLEAN, order : Orders]

ChainInv ==
    /\ chain \in Seq(Blocks) /\ minted \in Nat
    /\ final \in 1 .. Len(chain)
    /\ active \in Nodes
    /\ view \in [Nodes -> [chain : Seq(Blocks), final : Nat]]

\* An endpoint may lag and may serve orphaned blocks, but what it calls final is final.
ViewInv ==
    \A e \in Nodes :
        /\ view[e].final \in 1 .. final /\ view[e].final <= Len(view[e].chain)
        /\ \A h \in 1 .. view[e].final : view[e].chain[h] = chain[h]

\* A query: between two, under way, or answered.
Running ==
    [pc : {"canonical", "head", "finalized", "recheck", "order", "settled"},
     query : {"transaction", "order"}, still : BOOLEAN, same : BOOLEAN,
     block : Nat \ {0}, hash : Nat, order : Orders, at : Nat]

OpInv ==
    \/ op \in [pc : {"idle"}, query : {"transaction", "order"}]
    \/ op \in Running
    \/ /\ op = [pc |-> op.pc, query |-> op.query, still |-> op.still, same |-> op.same,
                answer |-> op.answer]
       /\ op.pc = "answered" /\ op.query \in {"transaction", "order"}

\* What the query has found out of the endpoint that answers the next RPC, as long as
\* it is the one that answered the last.
ReadInv ==
    /\ op.pc \in {"head", "recheck"} => op.query = "transaction"
    /\ op.pc \in {"order", "settled"} => op.query = "order"
    /\ op.pc = "recheck" /\ op.same => op.block <= view[active].final
    /\ op.pc = "settled" => op.at # 0
    /\ op.pc = "settled" /\ op.same => op.at <= view[active].final
    /\ op.pc \in {"canonical", "finalized"} /\ op.query = "order" /\ op.still =>
          /\ op.block <= Len(view[active].chain)
          /\ op.order = view[active].chain[op.block].order

ReadsInv ==
    ChainInv /\ ViewInv /\ OpInv /\ ReadInv /\ FinalLookupIsFinal /\ FinalOrderIsFinal

-----------------------------------------------------------------------------
(* Facts the steps share. *)

\* Two orders with the same three fields are the same order (SameOrder compares the
\* fields, as EscrowOrder does).
LEMMA SameOrderIsEqual ==
    ASSUME NEW a \in Orders, NEW b \in Orders, Reads!SameOrder(a, b)
    PROVE  a = b
  <1>1. ASSUME NEW o \in Orders
        PROVE  o = [seller |-> o.seller, amount |-> o.amount, state |-> o.state]
    <2>1. CASE o = Reads!NoOrder
      BY <2>1 DEF Reads!NoOrder
    <2>2. CASE o \in OrderValues
      BY <2>2, OrderValuesAssumption
    <2>3. ASSUME NEW v \in OrderValues, NEW s, o = [v EXCEPT !.state = s]
          PROVE  o = [seller |-> o.seller, amount |-> o.amount, state |-> o.state]
      <3>1. v = [seller |-> v.seller, amount |-> v.amount, state |-> v.state]
        BY OrderValuesAssumption
      <3>2. o = [seller |-> v.seller, amount |-> v.amount, state |-> s]
        BY <2>3, <3>1
      <3> QED BY <3>2
    <2> QED BY <2>1, <2>2, <2>3 DEF Orders
  <1> QED BY <1>1 DEF Reads!SameOrder

\* What the types say of the endpoint that answers.
LEMMA ServedTypes ==
    ASSUME ChainInv, ViewInv
    PROVE  /\ Len(chain) \in Nat /\ final \in Nat /\ 1 <= final /\ final <= Len(chain)
           /\ \A e \in Nodes :
                /\ view[e].chain \in Seq(Blocks) /\ Len(view[e].chain) \in Nat
                /\ view[e].final \in Nat /\ 1 <= view[e].final /\ view[e].final <= final
                /\ view[e].final <= Len(view[e].chain)
                /\ \A h \in 1 .. Len(view[e].chain) : view[e].chain[h] \in Blocks
  <1>1. Len(chain) \in Nat /\ final \in Nat /\ 1 <= final /\ final <= Len(chain)
    BY DEF ChainInv
  <1>2. ASSUME NEW e \in Nodes
        PROVE  /\ view[e].chain \in Seq(Blocks) /\ Len(view[e].chain) \in Nat
               /\ view[e].final \in Nat /\ 1 <= view[e].final /\ view[e].final <= final
               /\ view[e].final <= Len(view[e].chain)
               /\ \A h \in 1 .. Len(view[e].chain) : view[e].chain[h] \in Blocks
    <2>1. view[e] \in [chain : Seq(Blocks), final : Nat]
      BY DEF ChainInv
    <2>2. view[e].chain \in Seq(Blocks) /\ view[e].final \in Nat
      BY <2>1
    <2>3. view[e].final \in 1 .. final /\ view[e].final <= Len(view[e].chain)
      BY DEF ViewInv
    <2> QED BY <1>1, <2>2, <2>3
  <1> QED BY <1>1, <1>2

\* No step takes a finalized block back.
FinalKept == final' \in Nat /\ final <= final' /\ \A h \in 1 .. final : chain'[h] = chain[h]

\* What was answered stays true.
LEMMA AnswerKept ==
    ASSUME ChainInv, ViewInv, FinalKept, FinalLookupIsFinal, FinalOrderIsFinal,
           op'.pc = op.pc, op'.query = op.query, op.pc = "answered" => op'.answer = op.answer
    PROVE  FinalLookupIsFinal' /\ FinalOrderIsFinal'
  <1>1. final \in Nat /\ 1 .. final \subseteq 1 .. final'
    BY ServedTypes DEF FinalKept
  <1>2. FinalLookupIsFinal'
    BY <1>1 DEF FinalLookupIsFinal, Reads!FinalLookupIsFinal, Reads!Claims, FinalKept
  <1>3. FinalOrderIsFinal'
    BY <1>1 DEF FinalOrderIsFinal, Reads!FinalOrderIsFinal, Reads!Claims, FinalKept
  <1> QED BY <1>2, <1>3

\* The views stay final when only the chain moves.
LEMMA ViewKept ==
    ASSUME ChainInv, ViewInv, FinalKept, view' = view
    PROVE  ViewInv'
  <1> SUFFICES ASSUME NEW e \in Nodes
               PROVE  /\ view[e].final \in 1 .. final' /\ view[e].final <= Len(view[e].chain)
                      /\ \A h \in 1 .. view[e].final : view[e].chain[h] = chain'[h]
    BY DEF ViewInv
  <1>1. final \in Nat /\ view[e].final \in Nat /\ 1 <= view[e].final /\ view[e].final <= final
        /\ view[e].final <= Len(view[e].chain)
    BY ServedTypes
  <1>2. \A h \in 1 .. view[e].final : h \in 1 .. final /\ view[e].chain[h] = chain[h]
    BY <1>1 DEF ViewInv
  <1> QED BY <1>1, <1>2 DEF FinalKept

\* Nor does the query notice.
LEMMA ChainMoves ==
    ASSUME ReadsInv, ChainInv', FinalKept, view' = view, active' = active, op' = op
    PROVE  ReadsInv'
  <1>1. ViewInv'
    BY ViewKept DEF ReadsInv
  <1>2. FinalLookupIsFinal' /\ FinalOrderIsFinal'
    BY AnswerKept DEF ReadsInv
  <1>3. OpInv'
    BY DEF ReadsInv, OpInv, Running, Orders
  <1>4. ReadInv'
    BY DEF ReadsInv, ReadInv
  <1> QED BY <1>1, <1>2, <1>3, <1>4 DEF ReadsInv

-----------------------------------------------------------------------------
(* The chain and its endpoints. *)

\* A new block.
LEMMA MintStep == ASSUME ReadsInv, Reads!Mint PROVE ReadsInv'
  <1>1. ChainInv /\ ViewInv
    BY DEF ReadsInv
  <1>2. PICK tx \in BOOLEAN, order \in Reads!Later(chain[Len(chain)].order) :
            chain' = Append(chain, [hash |-> minted + 1, tx |-> tx, order |-> order])
    BY DEF Reads!Mint
  <1>3. PICK b : b = [hash |-> minted + 1, tx |-> tx, order |-> order]
    OBVIOUS
  <1>4. order \in Orders
    BY DEF Reads!Later, Orders
  <1>5. b \in Blocks /\ chain' = Append(chain, b)
    BY <1>1, <1>2, <1>3, <1>4 DEF Blocks, ChainInv
  <1>6. chain' \in Seq(Blocks) /\ Len(chain') = Len(chain) + 1
        /\ \A h \in 1 .. Len(chain) : chain'[h] = chain[h]
    BY <1>1, <1>5 DEF ChainInv
  <1>7. final' = final /\ minted' = minted + 1 /\ view' = view /\ active' = active /\ op' = op
    BY DEF Reads!Mint
  <1>8. final \in Nat /\ 1 <= final /\ final <= Len(chain) /\ Len(chain) \in Nat
    BY <1>1, ServedTypes
  <1>9. FinalKept
    BY <1>6, <1>7, <1>8 DEF FinalKept
  <1>10. ChainInv'
    BY <1>1, <1>6, <1>7, <1>8 DEF ChainInv
  <1> QED BY <1>7, <1>9, <1>10, ChainMoves

\* Blocks above the finalized one are lost.
LEMMA ReorgStep == ASSUME ReadsInv, NEW k, Reads!Reorg(k) PROVE ReadsInv'
  <1>1. ChainInv /\ ViewInv
    BY DEF ReadsInv
  <1>2. final \in Nat /\ 1 <= final /\ final <= Len(chain) /\ Len(chain) \in Nat
    BY <1>1, ServedTypes
  <1>3. k \in Nat /\ final <= k /\ k < Len(chain) /\ chain' = SubSeq(chain, 1, k)
    BY <1>2 DEF Reads!Reorg
  <1>4. chain' \in Seq(Blocks) /\ Len(chain') = k /\ \A h \in 1 .. k : chain'[h] = chain[h]
    BY <1>1, <1>2, <1>3 DEF ChainInv
  <1>5. final' = final /\ minted' = minted /\ view' = view /\ active' = active /\ op' = op
    BY DEF Reads!Reorg
  <1>6. FinalKept
    BY <1>2, <1>3, <1>4, <1>5 DEF FinalKept
  <1>7. ChainInv'
    BY <1>1, <1>2, <1>3, <1>4, <1>5 DEF ChainInv
  <1> QED BY <1>5, <1>6, <1>7, ChainMoves

\* A block becomes final.
LEMMA FinalizeStep == ASSUME ReadsInv, Reads!Finalize PROVE ReadsInv'
  <1>1. ChainInv /\ ViewInv
    BY DEF ReadsInv
  <1>2. final \in Nat /\ 1 <= final /\ Len(chain) \in Nat
    BY <1>1, ServedTypes
  <1>3. final < Len(chain) /\ final' = final + 1 /\ chain' = chain /\ minted' = minted
        /\ view' = view /\ active' = active /\ op' = op
    BY DEF Reads!Finalize
  <1>4. FinalKept
    BY <1>2, <1>3 DEF FinalKept
  <1>5. ChainInv'
    BY <1>1, <1>2, <1>3 DEF ChainInv
  <1> QED BY <1>3, <1>4, <1>5, ChainMoves

\* A flag of a query, and nothing else of it, changes.
LEMMA FlagsChange ==
    ASSUME OpInv, op.pc # "idle",
           \/ op' = [op EXCEPT !.still = FALSE]
           \/ op' = [op EXCEPT !.still = FALSE, !.same = FALSE]
    PROVE  /\ OpInv' /\ op'.pc = op.pc /\ op'.query = op.query /\ ~op'.still
           /\ op'.same => op.same
           /\ op.pc = "answered" => op'.answer = op.answer
           /\ op.pc # "answered" => op'.block = op.block /\ op'.at = op.at /\ op'.order = op.order
  <1>1. CASE op \in Running
    <2>1. op' \in Running /\ op'.pc = op.pc /\ op'.query = op.query /\ ~op'.still
          /\ (op'.same => op.same) /\ op.pc # "answered"
          /\ op'.block = op.block /\ op'.at = op.at /\ op'.order = op.order
      BY <1>1 DEF Running
    <2>2. Running' = Running
      BY DEF Running, Orders
    <2> QED BY <2>1, <2>2 DEF OpInv
  <1>2. CASE /\ op = [pc |-> op.pc, query |-> op.query, still |-> op.still, same |-> op.same,
                      answer |-> op.answer]
             /\ op.pc = "answered" /\ op.query \in {"transaction", "order"}
    <2>1. PICK q, still, same, answer :
             op = [pc |-> "answered", query |-> q, still |-> still, same |-> same, answer |-> answer]
      BY <1>2
    <2>2. \/ op' = [pc |-> "answered", query |-> q, still |-> FALSE, same |-> same,
                    answer |-> answer]
          \/ op' = [pc |-> "answered", query |-> q, still |-> FALSE, same |-> FALSE, answer |-> answer]
      <3>1. CASE op' = [op EXCEPT !.still = FALSE]
        BY <2>1, <3>1
      <3>2. CASE op' = [op EXCEPT !.still = FALSE, !.same = FALSE]
        BY <2>1, <3>2
      <3> QED BY <3>1, <3>2
    <2>3. op.pc = "answered" /\ op.query = q /\ op.same = same /\ op.answer = answer
      BY <2>1
    <2>4. op'.pc = "answered" /\ op'.query = q /\ ~op'.still /\ (op'.same => same) /\ op'.answer = answer
      BY <2>2
    <2>5. op' = [pc |-> op'.pc, query |-> op'.query, still |-> op'.still, same |-> op'.same,
                 answer |-> op'.answer]
      BY <2>2
    <2> QED BY <1>2, <2>3, <2>4, <2>5 DEF OpInv
  <1> QED BY <1>1, <1>2 DEF OpInv

\* An endpoint catches up; the final height of its view grows.
LEMMA SyncStep == ASSUME ReadsInv, NEW e \in Nodes, Reads!Sync(e) PROVE ReadsInv'
  <1>1. ChainInv /\ ViewInv /\ OpInv /\ ReadInv
    BY DEF ReadsInv
  <1>2. final \in Nat /\ 1 <= final /\ final <= Len(chain) /\ Len(chain) \in Nat /\ active \in Nodes
        /\ chain \in Seq(Blocks)
    BY <1>1, ServedTypes DEF ChainInv
  <1>3. view' = [view EXCEPT ![e] = [chain |-> chain, final |-> final]]
        /\ chain' = chain /\ final' = final /\ minted' = minted /\ active' = active
    BY DEF Reads!Sync, Reads!chainVars
  <1>4. \A x \in Nodes : view'[x] = IF x = e THEN [chain |-> chain,
  final |-> final] ELSE view[x]
    BY <1>1, <1>3 DEF ChainInv
  <1>5. ChainInv'
    <2>1. [chain |-> chain, final |-> final] \in [chain : Seq(Blocks), final : Nat]
      BY <1>2
    <2>2. view' \in [Nodes -> [chain : Seq(Blocks), final : Nat]]
      BY <1>1, <1>3, <2>1 DEF ChainInv
    <2> QED BY <1>1, <1>3, <2>2 DEF ChainInv
  <1>6. ViewInv'
    <2> SUFFICES ASSUME NEW x \in Nodes
                 PROVE  /\ view'[x].final \in 1 .. final /\ view'[x].final <= Len(view'[x].chain)
                        /\ \A h \in 1 .. view'[x].final : view'[x].chain[h] = chain[h]
      BY <1>3 DEF ViewInv
    <2>1. CASE x = e
      BY <1>2, <1>4, <2>1
    <2>2. CASE x # e
      BY <1>1, <1>4, <2>2 DEF ViewInv
    <2> QED BY <2>1, <2>2
  <1>7. FinalKept
    BY <1>2, <1>3 DEF FinalKept
  <1>8. view[active].final \in Nat /\ view[active].final <= view'[active].final
        /\ view'[active].final \in Nat
        /\ (e # active => view'[active] = view[active])
    BY <1>1, <1>2, <1>4, ServedTypes
  <1>9. CASE e = active /\ op.pc # "idle"
    <2>1. op' = [op EXCEPT !.still = FALSE]
      BY <1>9 DEF Reads!Sync
    <2>2. OpInv' /\ op'.pc = op.pc /\ op'.query = op.query /\ ~op'.still /\ (op'.same => op.same)
          /\ (op.pc = "answered" => op'.answer = op.answer)
          /\ (op.pc # "answered" => op'.block = op.block /\ op'.at = op.at /\ op'.order = op.order)
      BY <1>1, <1>9, <2>1, FlagsChange
    <2>3. FinalLookupIsFinal' /\ FinalOrderIsFinal'
      BY <1>1, <1>7, <2>2, AnswerKept DEF ReadsInv
    <2>4. op.pc \in {"recheck", "settled"} => op.block \in Nat /\ op.at \in Nat
      BY <1>1 DEF OpInv, Running
    <2>5. ReadInv'
      BY <1>1, <1>3, <1>8, <2>2, <2>4 DEF ReadInv
    <2> QED BY <1>5, <1>6, <2>2, <2>3, <2>5 DEF ReadsInv
  <1>10. CASE ~(e = active /\ op.pc # "idle")
    <2>1. op' = op
      BY <1>10 DEF Reads!Sync
    <2>2. OpInv'
      BY <1>1, <2>1 DEF OpInv, Running, Orders
    <2>3. FinalLookupIsFinal' /\ FinalOrderIsFinal'
      BY <1>1, <1>7, <2>1, AnswerKept DEF ReadsInv
    <2>4. ReadInv'
      BY <1>1, <1>3, <1>8, <1>10, <2>1 DEF ReadInv
    <2> QED BY <1>5, <1>6, <2>2, <2>3, <2>4 DEF ReadsInv
  <1> QED BY <1>9, <1>10

\* The transport moves to another endpoint: nothing is known of its view.
LEMMA FailoverStep == ASSUME ReadsInv, NEW e \in Nodes, Reads!Failover(e) PROVE ReadsInv'
  <1>1. ChainInv /\ ViewInv /\ OpInv /\ ReadInv
    BY DEF ReadsInv
  <1>2. final \in Nat
    BY <1>1, ServedTypes
  <1>3. active' = e /\ chain' = chain /\ final' = final /\ minted' = minted /\ view' = view
    BY DEF Reads!Failover, Reads!chainVars
  <1>4. ChainInv' /\ ViewInv' /\ FinalKept
    BY <1>1, <1>2, <1>3 DEF ChainInv, ViewInv, FinalKept
  <1>5. CASE op.pc # "idle"
    <2>1. op' = [op EXCEPT !.still = FALSE, !.same = FALSE]
      BY <1>5 DEF Reads!Failover
    <2>2. OpInv' /\ op'.pc = op.pc /\ op'.query = op.query /\ ~op'.still
          /\ (op.pc = "answered" => op'.answer = op.answer)
          /\ (op.pc # "answered" => op'.block = op.block /\ op'.at = op.at /\ op'.order = op.order)
      BY <1>1, <1>5, <2>1, FlagsChange
    <2>3. op.pc # "answered" => ~op'.same
      BY <1>1, <1>5, <2>1 DEF OpInv, Running
    <2>4. FinalLookupIsFinal' /\ FinalOrderIsFinal'
      BY <1>1, <1>4, <2>2, AnswerKept DEF ReadsInv
    <2>5. ReadInv'
      BY <1>1, <2>2, <2>3 DEF ReadInv
    <2> QED BY <1>4, <2>2, <2>4, <2>5 DEF ReadsInv
  <1>6. CASE op.pc = "idle"
    <2>1. op' = op
      BY <1>6 DEF Reads!Failover
    <2>2. OpInv'
      BY <1>1, <2>1 DEF OpInv, Running, Orders
    <2>3. FinalLookupIsFinal' /\ FinalOrderIsFinal' /\ ReadInv'
      BY <1>6, <2>1 DEF ReadInv, FinalLookupIsFinal, Reads!FinalLookupIsFinal, FinalOrderIsFinal,
         Reads!FinalOrderIsFinal, Reads!Claims
    <2> QED BY <1>4, <2>2, <2>3 DEF ReadsInv
  <1> QED BY <1>5, <1>6

-----------------------------------------------------------------------------
(* The queries.  Nothing but the query moves between two of its RPCs' answers. *)

\* An RPC that leads to another.
LEMMA GoesOn ==
    ASSUME ReadsInv, Reads!Quiet, op' \in Running, ReadInv'
    PROVE  ReadsInv'
  <1>1. chain' = chain /\ final' = final /\ minted' = minted /\ view' = view /\ active' = active
    BY DEF Reads!Quiet, Reads!chainVars
  <1>2. ChainInv' /\ ViewInv'
    BY <1>1 DEF ReadsInv, ChainInv, ViewInv
  <1>3. OpInv'
    BY DEF OpInv, Running, Orders
  <1>4. op'.pc # "answered"
    BY DEF Running
  <1>5. FinalLookupIsFinal' /\ FinalOrderIsFinal'
    BY <1>4 DEF FinalLookupIsFinal, Reads!FinalLookupIsFinal, FinalOrderIsFinal,
       Reads!FinalOrderIsFinal, Reads!Claims
  <1> QED BY <1>2, <1>3, <1>5 DEF ReadsInv

\* The query's answer: a claim of finality has to be true.
LEMMA Answers ==
    ASSUME ReadsInv, Reads!Quiet, NEW result, Reads!Answer(result),
           op.query = "transaction" /\ result.final /\ result.sure
               => \E h \in 1 .. final : chain[h].hash = result.hash,
           op.query = "order" /\ result.final /\ result.sure
               => \E h \in 1 .. final : chain[h].order = result.order
    PROVE  ReadsInv'
  <1>1. chain' = chain /\ final' = final /\ minted' = minted /\ view' = view /\ active' = active
    BY DEF Reads!Quiet, Reads!chainVars
  <1>2. ChainInv' /\ ViewInv'
    BY <1>1 DEF ReadsInv, ChainInv, ViewInv
  <1>3. PICK q : q = op.query
    OBVIOUS
  <1>4. q \in {"transaction", "order"}
    BY <1>3 DEF ReadsInv, OpInv, Running
  <1>5. op' = [pc |-> "answered", query |-> q, still |-> TRUE, same |-> TRUE, answer |-> result]
    BY <1>3 DEF Reads!Answer
  <1>6. op'.pc = "answered" /\ op'.query = q /\ op'.still = TRUE /\ op'.same = TRUE /\ op'.answer = result
    BY <1>5
  <1>7. op' = [pc |-> op'.pc, query |-> op'.query, still |-> op'.still, same |-> op'.same,
               answer |-> op'.answer]
    BY <1>5
  <1>8. OpInv'
    BY <1>4, <1>6, <1>7 DEF OpInv
  <1>9. ReadInv'
    BY <1>6 DEF ReadInv
  <1>10. FinalLookupIsFinal' /\ FinalOrderIsFinal'
    BY <1>1, <1>3, <1>6 DEF FinalLookupIsFinal, Reads!FinalLookupIsFinal, FinalOrderIsFinal,
       Reads!FinalOrderIsFinal, Reads!Claims
  <1> QED BY <1>2, <1>8, <1>9, <1>10 DEF ReadsInv

\* The query's answer claims nothing.
LEMMA AnswersNothing ==
    ASSUME ReadsInv, Reads!Quiet, Reads!Answer([final |-> FALSE])
    PROVE  ReadsInv'
  <1>1. ~[final |-> FALSE].final
    OBVIOUS
  <1> QED BY <1>1, Answers

\* A query under way, and what its endpoint serves.
LEMMA UnderWay ==
    ASSUME ReadsInv
    PROVE  /\ op.pc \in {"canonical", "head", "finalized", "recheck", "order", "settled"}
                => op \in Running /\ op.block \in Nat /\ 1 <= op.block /\ op.at \in Nat
           /\ op.query \in {"transaction", "order"}
           /\ active \in Nodes
           /\ Reads!Served.chain \in Seq(Blocks) /\ Reads!Height = Len(Reads!Served.chain) /\ Reads!Height \in Nat
           /\ Reads!Served.final \in Nat /\ 1 <= Reads!Served.final /\ Reads!Served.final <= final
           /\ Reads!Served.final <= Reads!Height
           /\ \A h \in 1 .. Reads!Height :
                 Reads!Served.chain[h].hash \in Nat /\ Reads!Served.chain[h].order \in Orders
           /\ \A h \in 1 .. Reads!Served.final : h \in 1 .. final /\ Reads!Served.chain[h] = chain[h]
  <1>1. ChainInv /\ ViewInv /\ OpInv /\ active \in Nodes
    BY DEF ReadsInv, ChainInv
  <1>2. op.pc \in {"canonical", "head", "finalized", "recheck", "order",
  "settled"} => op \in Running
    BY <1>1 DEF OpInv
  <1>3. op \in Running => op.block \in Nat /\ 1 <= op.block /\ op.at \in Nat
    BY DEF Running
  <1>4. op.query \in {"transaction", "order"}
    BY <1>1 DEF OpInv, Running
  <1>5. /\ Reads!Served.chain \in Seq(Blocks) /\ Reads!Height = Len(Reads!Served.chain) /\ Reads!Height \in Nat
        /\ Reads!Served.final \in Nat /\ 1 <= Reads!Served.final /\ Reads!Served.final <= final /\ final \in Nat
        /\ Reads!Served.final <= Reads!Height
        /\ \A h \in 1 .. Reads!Height : Reads!Served.chain[h] \in Blocks
    BY <1>1, ServedTypes DEF Reads!Served, Reads!Height
  <1>6. \A h \in 1 .. Reads!Height : Reads!Served.chain[h].hash \in Nat /\ Reads!Served.chain[h].order \in Orders
    BY <1>5 DEF Blocks
  <1>7. \A h \in 1 .. Reads!Served.final : h \in 1 .. final /\ Reads!Served.chain[h] = chain[h]
    BY <1>1, <1>5 DEF ViewInv, Reads!Served
  <1> QED BY <1>1, <1>2, <1>3, <1>4, <1>5, <1>6, <1>7

\* The first RPC of a query.
LEMMA BeginStep ==
    ASSUME ReadsInv, Reads!Quiet, NEW h \in 1 .. Reads!Height,
           NEW pc \in {"canonical", "order"}, Reads!Begin(pc, h), op.pc = "idle",
           pc = IF op.query = "transaction" THEN "canonical" ELSE "order"
    PROVE  ReadsInv'
  <1>1. PICK q, hash : q = op.query /\ hash = Reads!HashAt(h)
    OBVIOUS
  <1>2. q \in {"transaction", "order"} /\ hash \in Nat /\ h \in Nat \ {0}
    BY <1>1, UnderWay DEF Reads!HashAt
  <1>3. op' = [pc |-> pc, query |-> q, still |-> TRUE, same |-> TRUE,
               block |-> h, hash |-> hash, order |-> Reads!NoOrder, at |-> 0]
    BY <1>1 DEF Reads!Begin
  <1>4. op' \in Running
    BY <1>2, <1>3 DEF Running, Orders
  <1>5. op'.pc = pc /\ op'.query = q
    BY <1>3
  <1>6. ReadInv'
    BY <1>1, <1>2, <1>5 DEF ReadInv
  <1> QED BY <1>4, <1>6, GoesOn

\* Client.Transaction reads the receipt.
LEMMA ReadReceiptStep == ASSUME ReadsInv, Reads!ReadReceipt PROVE ReadsInv'
  <1>1. Reads!Quiet /\ op.pc = "idle" /\ op.query = "transaction"
    BY DEF Reads!ReadReceipt
  <1>2. ASSUME NEW h \in Reads!Included, Reads!Begin("canonical", h) PROVE ReadsInv'
    <2>1. h \in 1 .. Reads!Height
      BY UnderWay DEF Reads!Included
    <2> QED BY <1>1, <1>2, <2>1, BeginStep
  <1>3. CASE Reads!Answer([final |-> FALSE])
    BY <1>1, <1>3, AnswersNothing
  <1> QED BY <1>2, <1>3 DEF Reads!ReadReceipt

\* Service.EscrowOrder reads the head.
LEMMA ReadLatestStep == ASSUME ReadsInv, Reads!ReadLatest PROVE ReadsInv'
  <1>1. Reads!Quiet /\ op.pc = "idle" /\ op.query = "order" /\ Reads!Begin("order", Reads!Height)
    BY DEF Reads!ReadLatest
  <1>2. Reads!Height \in 1 .. Reads!Height
    BY UnderWay
  <1> QED BY <1>1, <1>2, BeginStep

\* A step that only moves the query on.
LEMMA StepEffect ==
    ASSUME op \in Running, NEW pc \in {"canonical", "head", "finalized", "recheck", "order", "settled"},
           Reads!Step(pc)
    PROVE  /\ op' \in Running
           /\ op'.pc = pc /\ op'.query = op.query /\ op'.still = op.still
           /\ op'.block = op.block /\ op'.order = op.order /\ op'.at = op.at
  <1>1. op' \in Running
    BY DEF Reads!Step, Running
  <1> QED BY <1>1 DEF Reads!Step, Running

\* The block of the receipt is on the endpoint's chain, or the receipt is orphaned.
LEMMA ReadCanonicalStep == ASSUME ReadsInv, Reads!ReadCanonical PROVE ReadsInv'
  <1>1. Reads!Quiet /\ op.pc = "canonical" /\ op.query = "transaction" /\ op \in Running
    BY UnderWay DEF Reads!ReadCanonical
  <1>2. CASE Reads!Step("head")
    <2>1. op' \in Running /\ op'.pc = "head" /\ op'.query = "transaction"
      BY <1>1, <1>2, StepEffect
    <2>2. ReadInv'
      BY <2>1 DEF ReadInv
    <2> QED BY <1>1, <2>1, <2>2, GoesOn
  <1>3. CASE Reads!Answer([final |-> FALSE])
    BY <1>1, <1>3, AnswersNothing
  <1> QED BY <1>2, <1>3 DEF Reads!ReadCanonical

\* The head is not behind the receipt.
LEMMA ReadHeadStep == ASSUME ReadsInv, Reads!ReadHead PROVE ReadsInv'
  <1>1. Reads!Quiet /\ op.pc = "head" /\ op.query = "transaction" /\ op \in Running /\ Reads!Step("finalized")
    BY UnderWay DEF Reads!ReadHead
  <1>2. op' \in Running /\ op'.pc = "finalized" /\ op'.query = "transaction"
    BY <1>1, StepEffect
  <1>3. ReadInv'
    BY <1>2 DEF ReadInv
  <1> QED BY <1>1, <1>2, <1>3, GoesOn

\* The endpoint calls the receipt's height final.
LEMMA ReadFinalizedStep == ASSUME ReadsInv, Reads!ReadFinalized PROVE ReadsInv'
  <1>1. Reads!Quiet /\ op.pc = "finalized" /\ op.query = "transaction" /\ op \in Running
    BY UnderWay DEF Reads!ReadFinalized
  <1>2. CASE Reads!Served.final >= op.block /\ Reads!Step("recheck")
    <2>1. op' \in Running /\ op'.pc = "recheck" /\ op'.query = "transaction" /\ op'.block = op.block
      BY <1>1, <1>2, StepEffect
    <2>2. op'.block <= Reads!Served.final /\ Reads!Served' = Reads!Served
      BY <1>1, <1>2, <2>1, UnderWay DEF Reads!Served, Reads!Quiet
    <2>3. ReadInv'
      BY <2>1, <2>2 DEF ReadInv, Reads!Served
    <2> QED BY <1>1, <2>1, <2>3, GoesOn
  <1>3. CASE Reads!Answer([final |-> FALSE])
    BY <1>1, <1>3, AnswersNothing
  <1> QED BY <1>2, <1>3 DEF Reads!ReadFinalized

\* The endpoint that calls the height final has the receipt's block there: it is the
\* finalized block of the chain.
LEMMA RecheckStep == ASSUME ReadsInv, Reads!Recheck PROVE ReadsInv'
  <1>1. Reads!Quiet /\ op.pc = "recheck"
        /\ Reads!Answer([final |-> Reads!HashAt(op.block) = op.hash, hash |-> op.hash, sure |-> op.same])
    BY DEF Reads!Recheck
  <1>2. op.query = "transaction" /\ (op.same => op.block <= Reads!Served.final)
    BY <1>1 DEF ReadsInv, ReadInv, Reads!Served
  <1>3. PICK result :
           result = [final |-> Reads!HashAt(op.block) = op.hash, hash |-> op.hash, sure |-> op.same]
    OBVIOUS
  <1>4. (result.final <=> Reads!HashAt(op.block) = op.hash) /\ result.hash = op.hash
        /\ (result.sure <=> op.same)
    <2>1. op.same \in BOOLEAN
      BY <1>1, UnderWay DEF Running
    <2> QED BY <1>3, <2>1
  <1>5. ASSUME result.final, result.sure PROVE \E h \in 1 .. final : chain[h].hash = result.hash
    <2>1. op.block \in 1 .. Reads!Served.final /\ op.block <= Reads!Height
      BY <1>1, <1>2, <1>4, <1>5, UnderWay
    <2>2. Reads!HashAt(op.block) = Reads!Served.chain[op.block].hash
      BY <2>1 DEF Reads!HashAt
    <2> QED BY <1>4, <1>5, <2>1, <2>2, UnderWay
  <1>6. Reads!Answer(result)
    BY <1>1, <1>3
  <1> QED BY <1>1, <1>2, <1>5, <1>6, Answers

\* The order at the head.
LEMMA ReadOrderStep == ASSUME ReadsInv, Reads!ReadOrder PROVE ReadsInv'
  <1>1. Reads!Quiet /\ op.pc = "order" /\ op.block <= Reads!Height /\ op \in Running /\ op.query = "order"
    BY UnderWay DEF Reads!ReadOrder, ReadsInv, ReadInv
  <1>2. PICK o : o = Reads!Served.chain[op.block].order
    OBVIOUS
  <1>3. o \in Orders
    BY <1>1, <1>2, UnderWay
  <1>4. op' = [op EXCEPT !.pc = "canonical", !.same = TRUE, !.order = o]
    BY <1>2 DEF Reads!ReadOrder
  <1>5. op' \in Running
    BY <1>1, <1>3, <1>4 DEF Running
  <1>6. op'.pc = "canonical" /\ op'.query = "order" /\ op'.block = op.block /\ op'.order = o
    BY <1>1, <1>4 DEF Running
  <1>7. ReadInv'
    BY <1>1, <1>2, <1>6, UnderWay DEF ReadInv, Reads!Served, Reads!Height, Reads!Quiet
  <1> QED BY <1>1, <1>5, <1>7, GoesOn

\* The head's block is still there.
LEMMA ReadOrderBlockStep == ASSUME ReadsInv, Reads!ReadOrderBlock PROVE ReadsInv'
  <1>1. Reads!Quiet /\ op.pc = "canonical" /\ op.query = "order" /\ op \in Running /\ Reads!Step("finalized")
    BY UnderWay DEF Reads!ReadOrderBlock
  <1>2. op' \in Running /\ op'.pc = "finalized" /\ op'.query = "order" /\ op'.still = op.still
        /\ op'.block = op.block /\ op'.order = op.order
    BY <1>1, StepEffect
  <1>3. ReadInv'
    BY <1>1, <1>2 DEF ReadsInv, ReadInv, Reads!Quiet
  <1> QED BY <1>1, <1>2, <1>3, GoesOn

\* Finality trails the head; or it has passed it, and the order of an endpoint that
\* has stayed the same is the one of the finalized block.
LEMMA ReadOrderFinalizedStep == ASSUME ReadsInv, Reads!ReadOrderFinalized PROVE ReadsInv'
  <1>1. Reads!Quiet /\ op.pc = "finalized" /\ op.query = "order" /\ op \in Running
    BY UnderWay DEF Reads!ReadOrderFinalized
  <1>2. CASE Reads!Answer([final |-> FALSE])
    BY <1>1, <1>2, AnswersNothing
  <1>3. CASE /\ Reads!Served.final >= op.block
             /\ Reads!Answer([final |-> TRUE, order |-> op.order, sure |-> op.still])
    <2>1. PICK result : result = [final |-> TRUE, order |-> op.order, sure |-> op.still]
      OBVIOUS
    <2>2. op.still \in BOOLEAN
      BY <1>1 DEF Running
    <2>3. result.order = op.order /\ (result.sure <=> op.still)
      BY <2>1, <2>2
    <2>4. ASSUME result.sure PROVE \E h \in 1 .. final : chain[h].order = result.order
      <3>1. op.order = Reads!Served.chain[op.block].order
        BY <1>1, <2>3, <2>4 DEF ReadsInv, ReadInv, Reads!Served
      <3>2. op.block \in 1 .. Reads!Served.final
        BY <1>1, <1>3, UnderWay
      <3> QED BY <2>3, <3>1, <3>2, UnderWay
    <2>5. Reads!Answer(result)
      BY <1>3, <2>1
    <2> QED BY <1>1, <2>4, <2>5, Answers
  <1>4. CASE /\ Reads!Served.final < op.block
             /\ op' = [op EXCEPT !.pc = "settled", !.same = TRUE, !.at = Reads!Served.final]
    <2>1. PICK at : at = Reads!Served.final
      OBVIOUS
    <2>2. at \in Nat /\ at # 0
      BY <2>1, UnderWay
    <2>3. op' = [op EXCEPT !.pc = "settled", !.same = TRUE, !.at = at]
      BY <1>4, <2>1
    <2>4. op' \in Running
      BY <1>1, <2>2, <2>3 DEF Running
    <2>5. op'.pc = "settled" /\ op'.query = "order" /\ op'.at = at
      BY <1>1, <2>3 DEF Running
    <2>6. at <= view'[active'].final
      BY <1>1, <2>1, <2>2 DEF Reads!Quiet, Reads!Served
    <2>7. ReadInv'
      BY <2>2, <2>5, <2>6 DEF ReadInv
    <2> QED BY <1>1, <2>4, <2>7, GoesOn
  <1> QED BY <1>2, <1>3, <1>4 DEF Reads!ReadOrderFinalized

\* The order at the finalized head, from the endpoint that gave the head, agrees.
LEMMA ReadSettledStep == ASSUME ReadsInv, Reads!ReadSettled PROVE ReadsInv'
  <1>1. Reads!Quiet /\ op.pc = "settled" /\ op \in Running /\ op.query = "order"
    BY UnderWay DEF Reads!ReadSettled, ReadsInv, ReadInv
  <1>2. PICK agrees, result :
           /\ agrees = (op.at <= Reads!Height /\ Reads!SameOrder(Reads!Served.chain[op.at].order, op.order))
           /\ result = [final |-> agrees, order |-> op.order, sure |-> op.same]
    OBVIOUS
  <1>3. op.same \in BOOLEAN /\ op.order \in Orders
    BY <1>1 DEF Running
  <1>4. (result.final = agrees) /\ result.order = op.order /\ (result.sure = op.same)
    BY <1>2
  <1>5. Reads!Answer(result)
    BY <1>2 DEF Reads!ReadSettled
  <1>6. ASSUME result.final, result.sure PROVE \E h \in 1 .. final : chain[h].order = result.order
    <2>1. op.same /\ op.at <= Reads!Height /\ Reads!SameOrder(Reads!Served.chain[op.at].order, op.order)
      BY <1>2, <1>4, <1>6
    <2>2. op.at # 0 /\ op.at <= Reads!Served.final
      BY <1>1, <2>1 DEF ReadsInv, ReadInv, Reads!Served
    <2>3. op.at \in 1 .. Reads!Served.final /\ op.at \in 1 .. Reads!Height
      BY <1>1, <2>1, <2>2, UnderWay
    <2>4. Reads!Served.chain[op.at].order \in Orders
      BY <2>3, UnderWay
    <2>5. Reads!Served.chain[op.at].order = op.order
      BY <1>3, <2>1, <2>4, SameOrderIsEqual
    <2> QED BY <1>4, <2>3, <2>5, UnderWay
  <1> QED BY <1>1, <1>5, <1>6, Answers

\* A query that fails claims nothing.
LEMMA FailStep == ASSUME ReadsInv, Reads!Fail PROVE ReadsInv'
  <1>1. chain' = chain /\ final' = final /\ minted' = minted /\ view' = view /\ active' = active
    BY DEF Reads!Fail, Reads!Quiet, Reads!chainVars
  <1>2. ChainInv' /\ ViewInv'
    BY <1>1 DEF ReadsInv, ChainInv, ViewInv
  <1>3. op' \in [pc : {"idle"}, query : {"transaction", "order"}]
    BY UnderWay DEF Reads!Fail
  <1>4. OpInv' /\ op'.pc = "idle"
    BY <1>3 DEF OpInv
  <1>5. ReadInv' /\ FinalLookupIsFinal' /\ FinalOrderIsFinal'
    BY <1>4 DEF ReadInv, FinalLookupIsFinal, Reads!FinalLookupIsFinal, FinalOrderIsFinal,
       Reads!FinalOrderIsFinal, Reads!Claims
  <1> QED BY <1>2, <1>4, <1>5 DEF ReadsInv

-----------------------------------------------------------------------------
(* Theorems about the queries. *)

\* Whatever the chain, the endpoints and the transport do between two RPCs.
LEMMA NextReads == ASSUME ReadsInv, [Reads!Next]_(Reads!vars) PROVE ReadsInv'
  <1>1. CASE UNCHANGED Reads!vars
    <2>1. chain' = chain /\ final' = final /\ minted' = minted /\ view' = view /\ active' = active
          /\ op' = op
      BY <1>1 DEF Reads!vars, Reads!chainVars
    <2>2. ChainInv' /\ FinalKept
      BY <2>1, ServedTypes DEF ReadsInv, ChainInv, FinalKept
    <2> QED BY <2>1, <2>2, ChainMoves
  <1>2. CASE Reads!Query
    BY <1>2, ReadReceiptStep, ReadCanonicalStep, ReadHeadStep, ReadFinalizedStep, RecheckStep,
       ReadLatestStep, ReadOrderStep, ReadOrderBlockStep, ReadOrderFinalizedStep, ReadSettledStep,
       FailStep DEF Reads!Query
  <1>3. CASE Reads!Next
    BY <1>2, <1>3, MintStep, FinalizeStep, ReorgStep, SyncStep, FailoverStep DEF Reads!Next
  <1> QED BY <1>1, <1>3

\* Nodes and queries are consistent with the chain's finalized prefix.
THEOREM ReadsInvariant == Reads!Spec => []ReadsInv
  <1>1. Reads!Init => ReadsInv
    <2> SUFFICES ASSUME Reads!Init PROVE ReadsInv
      OBVIOUS
    <2>1. Reads!Genesis \in Blocks
      BY DEF Reads!Genesis, Blocks, Orders
    <2>2. chain = <<Reads!Genesis>> /\ chain \in Seq(Blocks) /\ Len(chain) = 1 /\ final = 1
      BY <2>1 DEF Reads!Init
    <2>3. view = [e \in Nodes |-> [chain |-> chain, final |-> 1]]
          /\ minted = 0 /\ active \in Nodes
          /\ op \in {[pc |-> "idle", query |-> q] : q \in {"transaction", "order"}}
      BY DEF Reads!Init
    <2>4. ChainInv /\ ViewInv
      <3>1. PICK c : c = chain
        OBVIOUS
      <3>2. c \in Seq(Blocks) /\ Len(c) = 1 /\ view = [e \in Nodes |-> [chain |-> c, final |-> 1]]
        BY <2>2, <2>3, <3>1
      <3>3. view \in [Nodes -> [chain : Seq(Blocks), final : Nat]]
        BY <3>2
      <3>4. \A e \in Nodes : view[e].final = 1 /\ view[e].chain = c
        BY <3>2
      <3>5. ChainInv
        BY <2>2, <2>3, <3>3 DEF ChainInv
      <3>6. ASSUME NEW e \in Nodes
            PROVE  /\ view[e].final \in 1 .. final /\ view[e].final <= Len(view[e].chain)
                   /\ \A h \in 1 .. view[e].final : view[e].chain[h] = chain[h]
        <4>1. view[e].final = 1 /\ view[e].chain = chain
          BY <3>1, <3>4
        <4>2. Len(view[e].chain) = 1
          BY <2>2, <4>1
        <4> QED BY <2>2, <4>1, <4>2
      <3> QED BY <3>5, <3>6 DEF ViewInv
    <2>5. op \in [pc : {"idle"}, query : {"transaction", "order"}] /\ op.pc = "idle"
      BY <2>3
    <2> QED BY <2>4, <2>5 DEF ReadsInv, OpInv, ReadInv, FinalLookupIsFinal,
               Reads!FinalLookupIsFinal, FinalOrderIsFinal, Reads!FinalOrderIsFinal, Reads!Claims
  <1>2. ReadsInv /\ [Reads!Next]_(Reads!vars) => ReadsInv'
    BY NextReads
  <1> QED BY <1>1, <1>2, PTL DEF Reads!Spec

\* A transaction that Client.Transaction reports as final is in a finalized block,
\* for any number of endpoints that lag, forks and failovers (but a failover between
\* the finalized head and the recheck).
THEOREM LookupsAreFinal == Reads!Spec => []FinalLookupIsFinal
  <1>1. ReadsInv => FinalLookupIsFinal
    BY DEF ReadsInv
  <1> QED BY <1>1, ReadsInvariant, PTL

\* An order that Service.EscrowOrder reports as final has that value at a finalized
\* height, under the same conditions.
THEOREM OrdersAreFinal == Reads!Spec => []FinalOrderIsFinal
  <1>1. ReadsInv => FinalOrderIsFinal
    BY DEF ReadsInv
  <1> QED BY <1>1, ReadsInvariant, PTL

-----------------------------------------------------------------------------
(* The transport: the inductive invariant. *)

\* An RPC that is under way, and one that has its answer.
Sending == {"send", "active", "fast", "start", "probe", "attempt"}
Answered == {"swap", "add", "mark", "answered"}

\* The fields that the code's local variables have at each point.
FieldsInv(q) ==
    /\ "pc" \in DOMAIN q
    /\ q.pc \in {"count"} \cup Sending \cup Answered => "rpc" \in DOMAIN q
    /\ q.pc \in {"start", "probe", "attempt", "swap"} => "skip" \in DOMAIN q
    /\ q.pc \in {"probe", "attempt", "swap"} => {"start", "offset"} \subseteq DOMAIN q
    /\ q.pc = "compare" => "seen" \in DOMAIN q
    /\ q.pc \in Answered => "at" \in DOMAIN q /\ q.at \in Nat

\* verifyNetwork: the counter was loaded before the RPC, hence before its answer.
SeenInv(q) ==
    q.pc \in Sending \cup Answered /\ q.rpc = "verify" =>
        /\ "seen" \in DOMAIN q /\ q.seen \in Nat
        /\ q.pc \in Sending => q.seen <= failovers
        /\ q.pc \in Answered => q.seen <= q.at

\* Only endpoints that were checked are sent to, and a request that finds another
\* active endpoint than it started from finds one that was checked.
TargetInv(r) ==
    /\ req[r].pc \in {"fast", "attempt"} => req[r].to \in checked
    /\ req[r].pc \in {"attempt", "swap"} => Transport!Index(r) \in checked
    /\ req[r].pc \in {"active", "add", "mark"} => activeIndex \in checked
    /\ req[r].pc \in {"probe", "attempt", "swap"} => activeIndex \in checked \/ req[r].start = activeIndex

TransportInv ==
    /\ req = [r \in Requests |-> req[r]]
    /\ failovers \in Nat
    /\ healthy => activeIndex \in checked
    /\ networkVerified => verifiedFailovers <= answeredAt
    /\ \A r \in Requests : FieldsInv(req[r]) /\ SeenInv(req[r]) /\ TargetInv(r)


-----------------------------------------------------------------------------
(* The transport: steps of one request. *)

\* The fields that r does not set keep their values, and so do the other requests.
LEMMA GoesEffect ==
    ASSUME req = [q \in Requests |-> req[q]], NEW r \in Requests, NEW f, Transport!Goes(r, f)
    PROVE  /\ req' = [q \in Requests |-> req'[q]]
           /\ \A q \in Requests \ {r} : req'[q] = req[q]
           /\ DOMAIN req'[r] = DOMAIN req[r] \cup DOMAIN f
           /\ \A x \in DOMAIN f : req'[r][x] = f[x]
           /\ \A x \in DOMAIN req[r] \ DOMAIN f : req'[r][x] = req[r][x]
BY DEF Transport!Goes

\* A request that stays where it is keeps its invariant while others count failovers,
\* check endpoints and activate endpoints that were checked.
LEMMA Undisturbed ==
    ASSUME TransportInv, NEW q \in Requests, req'[q] = req[q],
           failovers' \in Nat, failovers <= failovers', checked \subseteq checked',
           activeIndex' = activeIndex \/ activeIndex' \in checked'
    PROVE  FieldsInv(req[q])' /\ SeenInv(req[q])' /\ TargetInv(q)'
<1>1. FieldsInv(req[q])'
  BY DEF TransportInv, FieldsInv
<1>2. SeenInv(req[q])'
  BY DEF TransportInv, SeenInv, Sending, Answered
<1>3. TargetInv(q)'
  BY DEF TransportInv, TargetInv, Transport!Index
<1> QED
  BY <1>1, <1>2, <1>3

\* So a step of r keeps the invariant if it keeps the shared part and r's own.
LEMMA OneMoves ==
    ASSUME TransportInv, NEW r \in Requests,
           req' = [q \in Requests |-> req'[q]], \A q \in Requests \ {r} : req'[q] = req[q],
           failovers' \in Nat, failovers <= failovers', checked \subseteq checked',
           activeIndex' = activeIndex \/ activeIndex' \in checked',
           healthy' => activeIndex' \in checked',
           networkVerified' => verifiedFailovers' <= answeredAt',
           FieldsInv(req[r])', SeenInv(req[r])', TargetInv(r)'
    PROVE  TransportInv'
<1>1. ASSUME NEW q \in Requests \ {r} PROVE FieldsInv(req[q])' /\ SeenInv(req[q])' /\ TargetInv(q)'
  BY Undisturbed
<1> QED
  BY <1>1 DEF TransportInv

\* checkNetwork begins: nothing is sent yet.
LEMMA CheckNetworkStep ==
    ASSUME TransportInv, NEW r \in Requests, Transport!CheckNetwork(r)
    PROVE  TransportInv'
<1> USE DEF TransportInv, Transport!At, Transport!clientVars, Transport!transportVars
<1>1. req' = [q \in Requests |-> req'[q]] /\ \A q \in Requests \ {r} : req'[q] = req[q]
  BY DEF Transport!CheckNetwork
<1>2. FieldsInv(req[r])'
  BY GoesEffect DEF Transport!CheckNetwork, FieldsInv, Sending, Answered, Transport!Idle
<1>3. SeenInv(req[r])'
  BY GoesEffect DEF Transport!CheckNetwork, FieldsInv, SeenInv, Sending, Answered, Transport!Idle
<1>4. TargetInv(r)'
  BY GoesEffect DEF Transport!CheckNetwork, FieldsInv, TargetInv, Transport!Index, Transport!Idle
<1> QED
  BY GoesEffect, OneMoves, <1>2, <1>3, <1>4, <1>1 DEF Transport!CheckNetwork

\* The cached check is taken, or a new one begins.
LEMMA CompareCachedStep ==
    ASSUME TransportInv, NEW r \in Requests, Transport!CompareCached(r)
    PROVE  TransportInv'
<1> USE DEF TransportInv, Transport!At, Transport!clientVars, Transport!transportVars
<1>1. req' = [q \in Requests |-> req'[q]] /\ \A q \in Requests \ {r} : req'[q] = req[q]
  BY DEF Transport!CompareCached
<1>2. FieldsInv(req[r])'
  BY GoesEffect DEF Transport!CompareCached, FieldsInv, Sending, Answered, Transport!Idle
<1>3. SeenInv(req[r])'
  BY GoesEffect DEF Transport!CompareCached, FieldsInv, SeenInv, Sending, Answered, Transport!Idle
<1>4. TargetInv(r)'
  BY GoesEffect DEF Transport!CompareCached, FieldsInv, TargetInv, Transport!Index, Transport!Idle
<1> QED
  BY GoesEffect, OneMoves, <1>2, <1>3, <1>4, <1>1 DEF Transport!CompareCached

\* verifyNetwork loads the counter, which only grows from here.
LEMMA LoadFailoversStep ==
    ASSUME TransportInv, NEW r \in Requests, Transport!LoadFailovers(r)
    PROVE  TransportInv'
<1> USE DEF TransportInv, Transport!At, Transport!clientVars, Transport!transportVars
<1>2. FieldsInv(req[r])'
  BY GoesEffect DEF Transport!LoadFailovers, FieldsInv, Sending, Answered, Transport!Idle
<1>3. SeenInv(req[r])'
  BY GoesEffect DEF Transport!LoadFailovers, FieldsInv, SeenInv, Sending, Answered, Transport!Idle
<1>4. TargetInv(r)'
  BY GoesEffect DEF Transport!LoadFailovers, FieldsInv, TargetInv, Transport!Index, Transport!Idle
<1> QED
  BY GoesEffect, OneMoves, <1>2, <1>3, <1>4 DEF Transport!LoadFailovers

\* verifyNetwork records a counter that is not younger than the answer.
LEMMA VerifiedStep ==
    ASSUME TransportInv, NEW r \in Requests, Transport!Verified(r)
    PROVE  TransportInv'
<1> USE DEF TransportInv, Transport!At, Transport!clientVars, Transport!transportVars,
   Transport!Seen
<1>1. req' = [q \in Requests |-> req'[q]] /\ \A q \in Requests \ {r} : req'[q] = req[q]
  BY DEF Transport!Verified
<1>2. FieldsInv(req[r])'
  BY GoesEffect DEF Transport!Verified, FieldsInv, Sending, Answered, Transport!Idle
<1>3. SeenInv(req[r])'
  BY GoesEffect DEF Transport!Verified, FieldsInv, SeenInv, Sending, Answered, Transport!Idle
<1>4. TargetInv(r)'
  BY GoesEffect DEF Transport!Verified, FieldsInv, TargetInv, Transport!Index, Transport!Idle
<1>5. networkVerified' => verifiedFailovers' <= answeredAt'
  BY DEF Transport!Verified, SeenInv, Answered
<1> QED
  BY OneMoves, <1>1, <1>2, <1>3, <1>4, <1>5 DEF Transport!Verified

\* The operation is over.
LEMMA DoneStep ==
    ASSUME TransportInv, NEW r \in Requests, Transport!Done(r)
    PROVE  TransportInv'
<1> USE DEF TransportInv, Transport!At, Transport!clientVars, Transport!transportVars
<1>1. req' = [q \in Requests |-> req'[q]] /\ \A q \in Requests \ {r} : req'[q] = req[q]
  BY DEF Transport!Done
<1>2. FieldsInv(req[r])'
  BY GoesEffect DEF Transport!Done, FieldsInv, Sending, Answered, Transport!Idle
<1>3. SeenInv(req[r])'
  BY GoesEffect DEF Transport!Done, FieldsInv, SeenInv, Sending, Answered, Transport!Idle
<1>4. TargetInv(r)'
  BY GoesEffect DEF Transport!Done, FieldsInv, TargetInv, Transport!Index, Transport!Idle
<1> QED
  BY GoesEffect, OneMoves, <1>2, <1>3, <1>4, <1>1 DEF Transport!Done

\* The fast path is only taken once the active endpoint was checked.
LEMMA LoadHealthyStep ==
    ASSUME TransportInv, NEW r \in Requests, Transport!LoadHealthy(r)
    PROVE  TransportInv'
<1> USE DEF TransportInv, Transport!At, Transport!clientVars, Transport!transportVars
<1>2. FieldsInv(req[r])'
  BY GoesEffect DEF Transport!LoadHealthy, FieldsInv, Sending, Answered, Transport!Idle
<1>3. SeenInv(req[r])'
  BY GoesEffect DEF Transport!LoadHealthy, FieldsInv, SeenInv, Sending, Answered, Transport!Idle
<1>4. TargetInv(r)'
  BY GoesEffect DEF Transport!LoadHealthy, FieldsInv, TargetInv, Transport!Index, Transport!Idle
<1> QED
  BY GoesEffect, OneMoves, <1>2, <1>3, <1>4 DEF Transport!LoadHealthy

\* The active endpoint may have changed meanwhile, to another that was checked.
LEMMA LoadActiveStep ==
    ASSUME TransportInv, NEW r \in Requests, Transport!LoadActive(r)
    PROVE  TransportInv'
<1> USE DEF TransportInv, Transport!At, Transport!clientVars, Transport!transportVars
<1>2. FieldsInv(req[r])'
  BY GoesEffect DEF Transport!LoadActive, FieldsInv, Sending, Answered, Transport!Idle
<1>3. SeenInv(req[r])'
  BY GoesEffect DEF Transport!LoadActive, FieldsInv, SeenInv, Sending, Answered, Transport!Idle
<1>4. TargetInv(r)'
  BY GoesEffect DEF Transport!LoadActive, FieldsInv, TargetInv, Transport!Index, Transport!Idle
<1> QED
  BY GoesEffect, OneMoves, <1>2, <1>3, <1>4 DEF Transport!LoadActive

\* The active endpoint answers.
LEMMA FastAnswerStep ==
    ASSUME TransportInv, NEW r \in Requests, Transport!FastAnswer(r)
    PROVE  TransportInv'
<1> USE DEF TransportInv, Transport!At, Transport!clientVars, Transport!transportVars
<1>2. FieldsInv(req[r])'
  BY GoesEffect DEF Transport!FastAnswer, FieldsInv, Sending, Answered, Transport!Idle
<1>3. SeenInv(req[r])'
  BY GoesEffect DEF Transport!FastAnswer, FieldsInv, SeenInv, Sending, Answered, Transport!Idle
<1>4. TargetInv(r)'
  BY GoesEffect DEF Transport!FastAnswer, FieldsInv, TargetInv, Transport!Index, Transport!Idle
<1> QED
  BY GoesEffect, OneMoves, <1>2, <1>3, <1>4 DEF Transport!FastAnswer

\* The active endpoint fails; the flag is taken back.
LEMMA FastFailStep ==
    ASSUME TransportInv, NEW r \in Requests, Transport!FastFail(r)
    PROVE  TransportInv'
<1> USE DEF TransportInv, Transport!At, Transport!clientVars, Transport!transportVars
<1>2. FieldsInv(req[r])'
  BY GoesEffect DEF Transport!FastFail, FieldsInv, Sending, Answered, Transport!Idle
<1>3. SeenInv(req[r])'
  BY GoesEffect DEF Transport!FastFail, FieldsInv, SeenInv, Sending, Answered, Transport!Idle
<1>4. TargetInv(r)'
  BY GoesEffect DEF Transport!FastFail, FieldsInv, TargetInv, Transport!Index, Transport!Idle
<1> QED
  BY GoesEffect, OneMoves, <1>2, <1>3, <1>4 DEF Transport!FastFail

\* The caller has gone.
LEMMA CancelStep ==
    ASSUME TransportInv, NEW r \in Requests, Transport!Cancel(r)
    PROVE  TransportInv'
<1> USE DEF TransportInv, Transport!At, Transport!clientVars, Transport!transportVars
<1>2. FieldsInv(req[r])'
  BY GoesEffect DEF Transport!Cancel, FieldsInv, Sending, Answered, Transport!Idle
<1>3. SeenInv(req[r])'
  BY GoesEffect DEF Transport!Cancel, FieldsInv, SeenInv, Sending, Answered, Transport!Idle
<1>4. TargetInv(r)'
  BY GoesEffect DEF Transport!Cancel, FieldsInv, TargetInv, Transport!Index, Transport!Idle
<1> QED
  BY GoesEffect, OneMoves, <1>2, <1>3, <1>4 DEF Transport!Cancel

\* The loop starts at the endpoint that is active now.
LEMMA LoadStartStep ==
    ASSUME TransportInv, NEW r \in Requests, Transport!LoadStart(r)
    PROVE  TransportInv'
<1> USE DEF TransportInv, Transport!At, Transport!clientVars, Transport!transportVars
<1>2. FieldsInv(req[r])'
  BY GoesEffect DEF Transport!LoadStart, FieldsInv, Sending, Answered, Transport!Idle
<1>3. SeenInv(req[r])'
  BY GoesEffect DEF Transport!LoadStart, FieldsInv, SeenInv, Sending, Answered, Transport!Idle
<1>4. TargetInv(r)'
  BY GoesEffect DEF Transport!LoadStart, FieldsInv, TargetInv, Transport!Index, Transport!Idle
<1> QED
  BY GoesEffect, OneMoves, <1>2, <1>3, <1>4 DEF Transport!LoadStart

\* An endpoint shows the chain id; it is checked before it is sent to.
LEMMA ProbeStep ==
    ASSUME TransportInv, NEW r \in Requests, Transport!Probe(r)
    PROVE  TransportInv'
<1> USE DEF TransportInv, Transport!At, Transport!clientVars, Transport!transportVars,
   Transport!ProbePasses
<1>2. FieldsInv(req[r])'
  BY GoesEffect DEF Transport!Probe, FieldsInv, Sending, Answered, Transport!Idle
<1>3. SeenInv(req[r])'
  BY GoesEffect DEF Transport!Probe, FieldsInv, SeenInv, Sending, Answered, Transport!Idle
<1>4. TargetInv(r)'
  BY GoesEffect DEF Transport!Probe, FieldsInv, TargetInv, Transport!Index, Transport!Idle
<1> QED
  BY GoesEffect, OneMoves, <1>2, <1>3, <1>4 DEF Transport!Probe

\* The loop goes on, or all endpoints have failed.
LEMMA ProbeFailsStep ==
    ASSUME TransportInv, NEW r \in Requests, Transport!ProbeFails(r)
    PROVE  TransportInv'
<1> USE DEF TransportInv, Transport!At, Transport!clientVars, Transport!transportVars,
   Transport!NextTarget
<1>2. FieldsInv(req[r])'
  BY GoesEffect DEF Transport!ProbeFails, FieldsInv, Sending, Answered, Transport!Idle
<1>3. SeenInv(req[r])'
  BY GoesEffect DEF Transport!ProbeFails, FieldsInv, SeenInv, Sending, Answered, Transport!Idle
<1>4. TargetInv(r)'
  BY GoesEffect DEF Transport!ProbeFails, FieldsInv, TargetInv, Transport!Index, Transport!Idle
<1> QED
  BY GoesEffect, OneMoves, <1>2, <1>3, <1>4 DEF Transport!ProbeFails

\* The loop goes on after an endpoint that was checked has failed.
LEMMA AttemptFailsStep ==
    ASSUME TransportInv, NEW r \in Requests, Transport!AttemptFails(r)
    PROVE  TransportInv'
<1> USE DEF TransportInv, Transport!At, Transport!clientVars, Transport!transportVars,
   Transport!NextTarget
<1>2. FieldsInv(req[r])'
  BY GoesEffect DEF Transport!AttemptFails, FieldsInv, Sending, Answered, Transport!Idle
<1>3. SeenInv(req[r])'
  BY GoesEffect DEF Transport!AttemptFails, FieldsInv, SeenInv, Sending, Answered, Transport!Idle
<1>4. TargetInv(r)'
  BY GoesEffect DEF Transport!AttemptFails, FieldsInv, TargetInv, Transport!Index, Transport!Idle
<1> QED
  BY GoesEffect, OneMoves, <1>2, <1>3, <1>4 DEF Transport!AttemptFails

\* An endpoint that was checked answers.
LEMMA AttemptAnswerStep ==
    ASSUME TransportInv, NEW r \in Requests, Transport!AttemptAnswer(r)
    PROVE  TransportInv'
<1> USE DEF TransportInv, Transport!At, Transport!clientVars, Transport!transportVars
<1>2. FieldsInv(req[r])'
  BY GoesEffect DEF Transport!AttemptAnswer, FieldsInv, Sending, Answered, Transport!Idle
<1>3. SeenInv(req[r])'
  BY GoesEffect DEF Transport!AttemptAnswer, FieldsInv, SeenInv, Sending, Answered, Transport!Idle
<1>4. TargetInv(r)'
  BY GoesEffect DEF Transport!AttemptAnswer, FieldsInv, TargetInv, Transport!Index, Transport!Idle
<1> QED
  BY GoesEffect, OneMoves, <1>2, <1>3, <1>4 DEF Transport!AttemptAnswer

\* Whoever stores the active endpoint stores one that was checked; a request whose
\* compare-and-swap fails finds that another one has done so.
LEMMA SwapStep ==
    ASSUME TransportInv, NEW r \in Requests, Transport!Swap(r)
    PROVE  TransportInv'
<1> USE DEF TransportInv, Transport!At, Transport!clientVars, Transport!transportVars
<1>2. FieldsInv(req[r])'
  BY GoesEffect DEF Transport!Swap, FieldsInv, Sending, Answered, Transport!Idle
<1>3. SeenInv(req[r])'
  BY GoesEffect DEF Transport!Swap, FieldsInv, SeenInv, Sending, Answered, Transport!Idle
<1>4. TargetInv(r)'
  BY GoesEffect DEF Transport!Swap, FieldsInv, TargetInv, Transport!Index, Transport!Idle
<1>5. Transport!Index(r) \in checked /\ (activeIndex \in checked \/ req[r].start = activeIndex)
  BY DEF Transport!Swap, TargetInv
<1>6. activeIndex' = activeIndex \/ activeIndex' \in checked'
  BY <1>5 DEF Transport!Swap
<1>7. healthy' => activeIndex' \in checked'
  BY <1>5 DEF Transport!Swap
<1>8. PICK pc : Transport!Goes(r, [pc |-> pc])
  BY DEF Transport!Swap
<1> QED
  BY GoesEffect, OneMoves, <1>2, <1>3, <1>4, <1>6, <1>7, <1>8 DEF Transport!Swap

\* The counter grows.
LEMMA AddFailoverStep ==
    ASSUME TransportInv, NEW r \in Requests, Transport!AddFailover(r)
    PROVE  TransportInv'
<1> USE DEF TransportInv, Transport!At, Transport!clientVars, Transport!transportVars
<1>2. FieldsInv(req[r])'
  BY GoesEffect DEF Transport!AddFailover, FieldsInv, Sending, Answered, Transport!Idle
<1>3. SeenInv(req[r])'
  BY GoesEffect DEF Transport!AddFailover, FieldsInv, SeenInv, Sending, Answered, Transport!Idle
<1>4. TargetInv(r)'
  BY GoesEffect DEF Transport!AddFailover, FieldsInv, TargetInv, Transport!Index, Transport!Idle
<1> QED
  BY GoesEffect, OneMoves, <1>2, <1>3, <1>4 DEF Transport!AddFailover

\* The flag is set when the active endpoint is one that was checked.
LEMMA MarkHealthyStep ==
    ASSUME TransportInv, NEW r \in Requests, Transport!MarkHealthy(r)
    PROVE  TransportInv'
<1> USE DEF TransportInv, Transport!At, Transport!clientVars, Transport!transportVars
<1>2. FieldsInv(req[r])'
  BY GoesEffect DEF Transport!MarkHealthy, FieldsInv, Sending, Answered, Transport!Idle
<1>3. SeenInv(req[r])'
  BY GoesEffect DEF Transport!MarkHealthy, FieldsInv, SeenInv, Sending, Answered, Transport!Idle
<1>4. TargetInv(r)'
  BY GoesEffect DEF Transport!MarkHealthy, FieldsInv, TargetInv, Transport!Index, Transport!Idle
<1>5. healthy' => activeIndex' \in checked'
  BY DEF Transport!MarkHealthy, TargetInv
<1> QED
  BY GoesEffect, OneMoves, <1>2, <1>3, <1>4, <1>5 DEF Transport!MarkHealthy

\* A provider that starts to serve another network disturbs nothing the transport
\* relies on: what was checked was right when it was checked.
LEMMA MisrouteStep ==
    ASSUME TransportInv, NEW e, Transport!Misroute(e)
    PROVE  TransportInv'
BY DEF Transport!Misroute, TransportInv, FieldsInv, SeenInv, TargetInv, Transport!Index,
   Transport!transportVars, Transport!clientVars

\* Nothing is sent and nothing is cached at the start.
LEMMA InitTransport == Transport!Init => TransportInv
BY DEF Transport!Init, Transport!Idle, TransportInv, FieldsInv, SeenInv, TargetInv, Sending,
   Answered

\* Every load, store, compare-and-swap and RPC keeps the invariant.
LEMMA NextTransport == TransportInv /\ [Transport!Next]_(Transport!vars) => TransportInv'
<1> SUFFICES ASSUME TransportInv, [Transport!Next]_(Transport!vars) PROVE TransportInv'
  OBVIOUS
<1>1. ASSUME NEW r \in Requests, Transport!RoundTrip(r) PROVE TransportInv'
  BY <1>1, LoadHealthyStep, LoadActiveStep, FastAnswerStep, FastFailStep, CancelStep,
     LoadStartStep, ProbeStep, ProbeFailsStep, AttemptFailsStep, AttemptAnswerStep,
     SwapStep, AddFailoverStep, MarkHealthyStep DEF Transport!RoundTrip
<1>2. CASE UNCHANGED Transport!vars
  BY <1>2 DEF Transport!vars, Transport!transportVars, Transport!clientVars, TransportInv,
     FieldsInv, SeenInv, TargetInv, Transport!Index
<1> QED
  BY <1>1, <1>2, CheckNetworkStep, CompareCachedStep, LoadFailoversStep, VerifiedStep, DoneStep,
     MisrouteStep DEF Transport!Next

\* Every request keeps its fields, its counter and its checked target.
THEOREM TransportInvariant == Transport!Spec => []TransportInv
<1>1. Transport!Init => TransportInv
  BY InitTransport
<1>2. TransportInv /\ [Transport!Next]_(Transport!vars) => TransportInv'
  BY NextTransport
<1> QED
  BY <1>1, <1>2, PTL DEF Transport!Spec

\* No endpoint gets a request before it has shown the selected chain id, on the fast
\* path either, and the cached check never vouches for an endpoint after a failover
\* that it was made before (RoundTrip, checkNetwork, verifyNetwork).
THEOREM OnlyCheckedEndpoints == Transport!Spec => []EndpointsAreChecked
<1>1. TransportInv => EndpointsAreChecked
  BY DEF TransportInv, TargetInv, EndpointsAreChecked,
     Transport!EndpointsAreChecked
<1> QED
  BY <1>1, TransportInvariant, PTL
=============================================================================
