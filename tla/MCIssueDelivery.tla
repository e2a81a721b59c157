-------------------------- MODULE MCIssueDelivery --------------------------
\* Instances of IssueDelivery for TLC: of IssueStart, as in MCIssueStart.
EXTENDS IssueDelivery, MCIssueStart

\* Two clones that push the same version; a clone beside CI; one that verifies while
\* developers commit, push and pull, in it and in another; one that publishes while its
\* developer goes on.
Working(clones, editing, runners, kinds, versions, commits) ==
  [clones |-> clones, editing |-> editing, runners |-> runners, kinds |-> kinds,
   env |-> {"e1"}, required |-> {"e1"}, versions |-> versions, commits |-> commits]
MCTeam ==
  [clones |-> Working({"c1", "c2"}, {}, {}, [c1 |-> {"push"}, c2 |-> {"push"}], 1, 3),
   CI |-> Working({"c1"}, {}, {"r"}, [c1 |-> {"push"}], 2, 2),
   restless |-> Working({"c1", "c2"}, {"c1", "c2"}, {}, [c1 |-> {"local"}, c2 |-> {}], 1, 2),
   publishing |-> Working({"c1"}, {"c1"}, {}, [c1 |-> {"push"}], 1, 3)]

\* Stages one upon the other; stages that are tested in the clone as well.
MCHosted ==
  [stages |-> [stages |-> {"GREEN", "regression"}, locally |-> {}, versions |-> 1, commits |-> 5,
               outcomes |-> {<<"succeeded", TRUE>>, <<"failed", TRUE>>, <<"succeeded", FALSE>>}],
   beside |-> [stages |-> {"regression"}, locally |-> {"regression"}, versions |-> 2, commits |-> 4,
               outcomes |-> {<<"succeeded", TRUE>>, <<"failed", TRUE>>}]]

\* Two branches, of which one client leaves the other; one that people push to.
MCRacing ==
  [clients |-> {"c1", "c2"}, argv |-> {"a"}, branches |-> {"s", "t"}, home |-> [c1 |-> "s", c2 |-> "t"],
   restless |-> {"c1"}, numbers |-> 1, tips |-> 0, retries |-> 0]
MCRepeating ==
  [clients |-> {"c1"}, argv |-> {"a"}, branches |-> {"s"}, home |-> [c1 |-> "s"],
   restless |-> {}, numbers |-> 1, tips |-> 1, retries |-> 1]
=============================================================================
