---------------------------- MODULE MCSiteLedger ----------------------------
(* Small instances of the site ledger: two agents that hear two frames of  *)
(* one on-air key, and a handful of envelopes that clients repeat.         *)
EXTENDS SiteLedger, TLC

CONSTANTS f1, f2, a1, a2

MCKey == [f \in Frames |-> "k"]

MCRetention == [t \in Tables |-> IF t = "observation" THEN 3 ELSE 1]

Reading(id, at, session, seq, rank) ==
    [id |-> <<id>>, kind |-> "state", lacks |-> {}, subject |-> "door", at |-> at,
     session |-> session, seq |-> seq, rank |-> rank]

Chunk(id, file, index, total) ==
    [id |-> <<id>>, kind |-> "file_chunk", lacks |-> {}, file |-> file, correlation |-> Absent,
     source |-> "n", target |-> "log", index |-> index, total |-> total]

Beat(id, strict, kind, subject, gateway) ==
    [id |-> <<id>>, kind |-> "heartbeat", lacks |-> {}, strict |-> strict, subject_kind |-> kind,
     subject |-> subject, gateway |-> gateway, status |-> "live", source |-> "n"]

(* Three readings of one moment, two of them of one session: their order   *)
(* is a cycle once all three are kept.  A file cut anew while an upload is *)
(* under way.  A heartbeat that names no subject though it must, and one   *)
(* that need not.  An event that a client repeats under a new message id.  *)
MCPosts ==
    {Reading("s1", 2, "one", 1, 3), Reading("s2", 2, "one", 2, 1), Reading("s3", 2, NoSession, -1, 2),
     Chunk("c1", <<"img">>, 0, 1), Chunk("c2", <<"img">>, 0, 2), Chunk("c3", <<"img">>, 1, 2),
     Chunk("c4", Absent, 0, 1),
     Beat("b1", TRUE, "gateway", Absent, "g"), Beat("b2", FALSE, Absent, Absent, "g"),
     [id |-> <<"e1">>, kind |-> "event", lacks |-> {}, key |-> Absent, event |-> <<"door-7">>],
     [id |-> <<"e2">>, kind |-> "event", lacks |-> {}, key |-> Absent, event |-> <<"door-7">>],
     [id |-> <<"v1">>, kind |-> "fabric_summary", lacks |-> {"hop_limit"}, scope |-> Absent,
      site |-> "s", target |-> "s"],
     [id |-> <<"v2">>, kind |-> "fabric_summary", lacks |-> {}, scope |-> Absent,
      site |-> "s", target |-> "t"]}

(* Agents are alike, and so are the frames of one key. *)
Alike == Permutations(Frames) \cup Permutations(Agents)

(* Bound: frames and posts meet only in the table messages, so a behaviour *)
(* is about the ones or about the others.                                  *)
OneTopic == (\A f \in Frames : sent[f] = 0) \/ messages \cap Posts = {}

(* Readings that do not say when they were taken. *)
MCUndated == {Reading("u1", 0, NoSession, -1, 2), Reading("u2", 0, NoSession, -1, 1)}
=============================================================================
