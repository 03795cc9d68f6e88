----------------------------- MODULE MCPostFeed -----------------------------
EXTENDS PostFeed, TLC

CONSTANTS p1, p2, d1, d2, r1, r2

\* Posts, deleters and readers are told apart by nothing but their names.
MCSymmetry ==
    Permutations(Posts) \cup Permutations(Deleters) \cup Permutations(Readers)

\* The page keys that are still looked up: the current version's, and those of the
\* readers between GetFeedVersion and GetFeed.
LiveVersions == {ver} \cup {read[r].ver : r \in {q \in Readers : read[q].step = "getFeed"}}

\* What is left to matter of a request.  A version counts only by its age: no step
\* or property tells two states apart whose versions are all shifted.
LiveRequest(req) ==
    [req EXCEPT !.ver = IF req.cached /\ req.step \in {"getFeed", "query", "set"}
                        THEN ver - @ ELSE 0,
                !.cached = @ /\ req.step = "query"]

\* What the steps and the properties of this run depend on.  Nothing reads
\* auditLog, lost and delEvents; the verdict is read from the review to the UPDATE;
\* a page whose version is not live is never looked up again.
MCView ==
    <<db, slave, binlog, create, del, audit.step, audit.post,
      IF audit.step \in {"log", "update"} THEN audit.verdict ELSE "",
      queued, redelivered, missed,
      {<<ver - entry[1], entry[2]>> : entry \in {e \in cache : e[1] \in LiveVersions}},
      [r \in Readers |-> LiveRequest(read[r])]>>
=============================================================================
