--------------------------- MODULE MCAgentSession ---------------------------
(* TLC instances of AgentSession. *)
EXTENDS AgentSession, TLC

\* Handlers are interchangeable: nothing but Init and the actions names them.
HandlerSymmetry == Permutations(Handlers)

\* What decides the future of a behaviour and the concurrent invariants: no
\* guard reads acked or which way a gate was resolved, and a handler
\* no longer reads the gate it looked up once it is past resolving it.
BehaviourView ==
  <<sess, PendingGates, Len(gates), research, branch, prDoc, prs, public, faults,
    reaper,
    [h \in Handlers |-> IF task[h].pc = "resolve" THEN task[h]
                        ELSE [task[h] EXCEPT !.gate = 0]]>>
=============================================================================
