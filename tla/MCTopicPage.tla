---------------------------- MODULE MCTopicPage ----------------------------
(* Instances of TopicPage for TLC: two topics at first and one more.       *)
EXTENDS TopicPage
CONSTANTS t1, t2, t3
MCTopics == {t1, t2, t3}
MCInitially == {t1, t2}
=============================================================================
