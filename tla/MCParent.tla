-------------------------------- MODULE MCParent --------------------------------
\* multiProcess1 for TLC: its parent and children, or their descriptors, with one child and
\* all visitors, or with more children and a pair of visitors.
EXTENDS ProcessServer1, Descriptors

CONSTANT Pair

VARIABLE kind

allVars == <<kind, vars, descriptorVars>>

MCInit ==
    /\ kind \in {"servers", "descriptors"}
    /\ Init
    /\ kind = "descriptors" => parent.at = "forking"
    /\ DescriptorsInit
    /\ kind = "servers" => processNum_ = 1

InServers(A)     == kind = "servers" /\ A /\ UNCHANGED <<kind, descriptorVars>>
InDescriptors(A) == /\ kind = "descriptors" /\ A /\ UNCHANGED <<kind, vars>>
                    /\ processNum_ = 1 \/ \A c \in Visitor \ Pair : visitor'[c] = "away"

MCNext == InServers(Next) \/ InDescriptors(DescriptorsNext)

\* The fairness of ProcessServer1, and that of Descriptors.
MCFairness ==
    /\ WF_vars(InServers(ParentLeaves)) /\ WF_vars(InServers(ParentPolls))
    /\ WF_vars(InServers(AcceptEnds))
    /\ WF_vars(InServers(\E c \in Client : Accept(c)))
    /\ \A i \in Child :
          /\ WF_vars(InServers(Fork(i))) /\ WF_vars(InServers(AddChild(i)))
          /\ WF_vars(InServers(ChildStarts(i))) /\ WF_vars(InServers(ChildPolls(i)))
          /\ WF_vars(InServers(ChildLeaves(i))) /\ WF_vars(InServers(ReceiveFd(i)))
          /\ \A c \in Client : /\ WF_vars(InServers(HandleMessage(i, c)))
                               /\ WF_vars(InServers(HandleClose(i, c)))
    /\ WF_descriptorVars(InDescriptors(Step))
    /\ \A i \in SubProcess : WF_descriptorVars(InDescriptors(SubStep(i)))

MCSpec == MCInit /\ [][MCNext]_allVars /\ MCFairness
=================================================================================
