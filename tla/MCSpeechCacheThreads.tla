------------------------ MODULE MCSpeechCacheThreads ------------------------
(***************************************************************************)
(* Small instances of SpeechCacheThreads: two threads and a cap of two     *)
(* bytes, with replies of one byte that share the cache, of two that fill  *)
(* it and evict everything else, and of three that are refused.            *)
(***************************************************************************)
EXTENDS SpeechCacheThreads

CONSTANTS short, long, huge

MCSpeech == {short, long, huge}
MCNBytes ==
  [s \in MCSpeech |-> CASE s = short -> 1 [] s = long -> 2 [] s = huge -> 3]
=============================================================================
