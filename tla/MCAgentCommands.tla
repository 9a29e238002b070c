--------------------------- MODULE MCAgentCommands ---------------------------
(***************************************************************************)
(* Instances of AgentCommands for TLC: what each command does.             *)
(***************************************************************************)
EXTENDS AgentCommands, TLC

CONSTANTS Opens, Closes   \* the commands that open, and that close, a position

MCKind == [c \in Cmds |-> IF c \in Opens THEN "OPEN"
                          ELSE IF c \in Closes THEN "CLOSE" ELSE "INFO"]

\* The connections are interchangeable (for invariants only).
Symmetry == Permutations(Conns)

ASSUME Opens \cap Closes = {} /\ Opens \cup Closes \subseteq Cmds
=============================================================================
