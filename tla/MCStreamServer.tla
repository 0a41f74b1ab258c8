--------------------------- MODULE MCStreamServer ---------------------------
(***************************************************************************)
(* The replay cache and the stream server that stands on it, each checked  *)
(* by itself within one run and under a few assumptions that keep it       *)
(* small: a behaviour is about one topic.                                  *)
(***************************************************************************)
EXTENDS ReplayCache, StreamServer

CONSTANTS n1, n2, c1, r1

VARIABLE topic

CacheTopics == {"commit", "full", "window"}
ServerTopics == {"close", "reuse"}

topicVars == <<topic, vars, serverVars>>

TopicInit ==
  /\ topic \in CacheTopics \cup ServerTopics
  /\ Init /\ ServerInit
  /\ topic # "reuse" => stamp = [h \in Hellos |-> 1]

\* The cache: two callers with two nonces at one time, or one caller that fills
\* the map, or two callers with one nonce while time passes.
CacheNext ==
  /\ topic \in CacheTopics /\ Next
  /\ topic # "window" => clock' = clock
  /\ topic = "commit" => \A c \in Callers : nonce'[c] \in {NoOne, n1, n2}
  /\ topic = "full" => \A c \in Callers \ {c1} : pc'[c] = "idle"
  /\ topic = "window" => \A c \in Callers : nonce'[c] \in {NoOne, n1}
  /\ UNCHANGED <<topic, serverVars>>

\* The server: everything but the passing of time, where one connection may be
\* ended by its caller; or everything that time matters to but the end of the
\* server and of contexts.
StreamNext ==
  /\ topic \in ServerTopics /\ ServerNext
  /\ topic = "close" =>
       /\ wall' = wall
       /\ \A c \in ended' \ ended : c = r1 \/ handler[c] \in {"relay", "join"}
  /\ topic = "reuse" => server' = server /\ ended' = ended
  /\ UNCHANGED <<topic, vars>>

\* Of the part a behaviour is not about, no fair step is ever enabled.
TopicSpec ==
  /\ TopicInit /\ [][CacheNext \/ StreamNext]_topicVars
  /\ Fairness /\ ServerFairness
=============================================================================
