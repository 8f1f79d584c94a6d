---------------------------- MODULE MCAgentPorts ----------------------------
(* Small instances of AgentPorts. *)
EXTENDS AgentPorts, TLC

(* Identities are interchangeable: every property quantifies over them     *)
(* alike.                                                                  *)
Symmetry == Permutations(Conns) \cup Permutations(Udps)

(* What an identity nothing refers to was last used for, and how the last  *)
(* request of a goroutine ended, make no difference to any later step:     *)
(* states that differ only in that are one.                                *)
View == <<tcpSock, udpSock, mapVars, pc, call, conn, fwd, histVars,
          [c \in Conns |-> IF FreshConn(c) THEN "none" ELSE lst[c]],
          [u \in Udps |-> IF FreshUdp(u) THEN NoUdp ELSE udp[u]]>>
=============================================================================
