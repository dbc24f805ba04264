---------------------------- MODULE Demonstration ----------------------------
(***************************************************************************)
(* Who calls the verifier: a caller with any container, and the            *)
(* demonstration program (src/main.cpp), which makes a random forest,      *)
(* sorts a copy of it and has the copy verified, all through the functions *)
(* for 128-bit ids (uint128_forest.hpp).  Random ids may be equal, and one *)
(* may be the sentinel.  The sort is taken by its promise, ForestOrder.    *)
(***************************************************************************)
EXTENDS VerifySorted, Sequences

\* The root's parent id is 0, which 128-bit ids take for "no parent".
ASSUME ZeroAssumption == 0 \in Ids /\ 0 \in Sentinels

VARIABLES
  stage,    \* "called" by a caller; of the program "make", "sort", "verify" or "exited"
  nodes,    \* the nodes the program has made: their id and parentId
  exitCode  \* what main returns

programVars == <<stage, nodes, exitCode>>
allVars == <<vars, programVars>>

Order ==
  INSTANCE ForestOrder WITH
    Ops <- {"copy"}, op <- "copy", Sizes <- {NodeCount}, size <- NodeCount,
    ParentIds <- Ids, Depths <- {}, supplied <- <<>>,
    id <- [n \in Nodes |-> nodes[n + 1].id], parentId <- [n \in Nodes |-> nodes[n + 1].parentId],
    outcome <- "pending", result <- <<>>, container <- <<>>

-----------------------------------------------------------------------------

CallerInit == Init /\ stage = "called"

MainInit ==
  /\ id = [n \in Nodes |-> 0] /\ parentId = [n \in Nodes |-> 0]
  /\ pc = "idle" /\ parentIndex = [n \in Nodes |-> NoParent]
  /\ nodeIdx = 0 /\ verifiedDepth = [n \in Nodes |-> 0] /\ depthReady = {} /\ verdict = TRUE
  /\ stage = "make"

DemonstrationInit == (CallerInit \/ MainInit) /\ nodes = <<>> /\ exitCode = 0

\* The parent id of the next node: 0 for the root, then the id of a node made
\* before.  The mistake is to make it up like the id.
MadeUp == Ids
ParentPicks == IF nodes = <<>> THEN {0} ELSE {nodes[k].id : k \in 1 .. Len(nodes)}

MakeNode ==
  /\ stage = "make" /\ Len(nodes) < NodeCount
  /\ \E randomId \in Ids : \E parent \in ParentPicks :
       nodes' = Append(nodes, [id |-> randomId, parentId |-> parent])
  /\ stage' = IF Len(nodes) + 1 = NodeCount THEN "sort" ELSE "make"
  /\ UNCHANGED <<vars, exitCode>>

\* sortedCopyByDepthAndId returns, and the copy is handed to the verifier.
SortCopy ==
  /\ stage = "sort"
  /\ \E order \in Order!Answers :
       /\ id' = [n \in Nodes |-> nodes[order[n] + 1].id]
       /\ parentId' = [n \in Nodes |-> nodes[order[n] + 1].parentId]
  /\ pc' = "build" /\ stage' = "verify"
  /\ UNCHANGED <<parentIndex, nodeIdx, verifiedDepth, depthReady, verdict, nodes, exitCode>>

\* It throws, and main catches.
SortFails ==
  /\ stage = "sort" /\ Order!Answers = {}
  /\ stage' = "exited" /\ exitCode' = 1
  /\ UNCHANGED <<vars, nodes>>

Verify ==
  /\ stage \in {"called", "verify"}
  /\ Step
  /\ UNCHANGED programVars

\* main returns 0 whatever the verdict printed.
Exit ==
  /\ stage = "verify" /\ pc = "done"
  /\ stage' = "exited" /\ exitCode' = 0
  /\ UNCHANGED <<vars, nodes>>

Ended == (stage = "exited" \/ (stage = "called" /\ pc = "done")) /\ UNCHANGED allVars

DemonstrationNext == MakeNode \/ SortCopy \/ SortFails \/ Verify \/ Exit \/ Ended

DemonstrationSpec == DemonstrationInit /\ [][DemonstrationNext]_allVars

-----------------------------------------------------------------------------

\* A chain of nodes that passes the depth limit, each made after its parent.
TooDeep ==
  \E chain \in [0 .. MaxDepth + 1 -> 1 .. Len(nodes)] : \A k \in 0 .. MaxDepth :
    /\ chain[k] < chain[k + 1]
    /\ nodes[chain[k + 1]].parentId = nodes[chain[k]].id
    /\ nodes[chain[k]].id \notin Sentinels

\* The program never prints FAILED: what the sort returns is what the verifier
\* accepts, children of a node with the sentinel for an id included.  It exits
\* with an error only for equal ids or a chain past the depth limit: the nodes
\* it makes have no cycle.
DemonstrationVerifies ==
  stage = "exited" =>
    IF exitCode = 0 THEN verdict
    ELSE TooDeep \/ \E m, n \in 1 .. Len(nodes) : m # n /\ nodes[m].id = nodes[n].id
=============================================================================
