----------------------------- MODULE AuthorPage -----------------------------
(***************************************************************************)
(* An author's own view of what he writes: ListByUser of                   *)
(* internal/service/post_service.go, UpdateProfile and GetMyProfile of     *)
(* internal/service/user_service.go, all routed by one read-your-writes    *)
(* marker (internal/cache/write_marker.go, repository/force_master.go).    *)
(*                                                                         *)
(* PostFeed is extended by the steps of Create and Delete that concern the *)
(* author: the marker and the PostEvent.  All posts are of one author; the *)
(* profile is the number of its last edit.  Posts and profile reach the    *)
(* replica through one stream, in the order of their commits.              *)
(***************************************************************************)
EXTENDS PostFeed

CONSTANTS
    Editors,        \* handler goroutines running UpdateProfile, once each
    Viewers,        \* handler goroutines running ListByUser or GetMyProfile
    MarkerMayFail   \* TRUE: SET and EXISTS of the marker may return an error

ASSUME AuthorPageAssumption == MarkerMayFail \in BOOLEAN

VARIABLES
    marker,         \* write:user:{author} exists
    owes,           \* requests that have committed and not come to Mark yet
    announced,      \* announced[p]: the PostEvent of p has been dealt with
    profile,        \* users row on the master: its last edit
    slaveProfile,   \* the same on the replica
    profileLog,     \* edits the replica has yet to take, each with the number
                    \* of changes in binlog that come before it
    edit,           \* edit[e]: the UpdateProfile request of e, and its edit
    view,           \* view[r]: the request of viewer r
    exposed         \* history: a write is not on the replica and reads are not
                    \* forced: its Mark failed or the marker is gone

ownVars == <<marker, owes, announced, profile, slaveProfile, profileLog, edit, view, exposed>>
authorVars == <<vars, ownVars>>

NoView == [step |-> "idle"]

AuthorInit ==
    /\ Init
    /\ marker = FALSE
    /\ owes = {}
    /\ announced = [p \in Posts |-> FALSE]
    /\ profile = 0
    /\ slaveProfile = 0
    /\ profileLog = <<>>
    /\ edit = [e \in Editors |-> [step |-> "update", edit |-> 0]]
    /\ view = [r \in Viewers |-> NoView]
    /\ exposed = FALSE

-----------------------------------------------------------------------------
(* Replication and the marker *)

\* A deletion or an edit is still on its way to the replica.
Behind == db.deleted # slave.deleted \/ profile # slaveProfile

ReplicatePosts ==
    /\ \A i \in DOMAIN profileLog : profileLog[i].after > 0
    /\ Replicate
    /\ profileLog' = [i \in DOMAIN profileLog |->
                        [profileLog[i] EXCEPT !.after = @ - 1]]
    /\ UNCHANGED <<marker, owes, announced, profile, slaveProfile, edit, view>>
    /\ exposed' = (exposed /\ Behind')

ReplicateProfile ==
    /\ profileLog # <<>>
    /\ Head(profileLog).after = 0
    /\ slaveProfile' = Head(profileLog).edit
    /\ profileLog' = Tail(profileLog)
    /\ UNCHANGED <<vars, marker, owes, announced, profile, edit, view>>
    /\ exposed' = (exposed /\ Behind')

\* Mark: SET write:user:{author} for a few seconds.
Mark(q) ==
    /\ q \in owes
    /\ owes' = owes \ {q}
    /\ marker' = TRUE
    /\ exposed' = FALSE
    /\ UNCHANGED <<vars, announced, profile, slaveProfile, profileLog, edit, view>>

\* An error is ignored.
MarkFails(q) ==
    /\ MarkerMayFail
    /\ q \in owes
    /\ owes' = owes \ {q}
    /\ exposed' = (exposed \/ (~marker /\ Behind))
    /\ UNCHANGED <<vars, marker, announced, profile, slaveProfile, profileLog, edit, view>>

MarkerExpires ==
    /\ marker
    /\ marker' = FALSE
    /\ exposed' = Behind
    /\ UNCHANGED <<vars, owes, announced, profile, slaveProfile, profileLog, edit, view>>

-----------------------------------------------------------------------------
(* Create and Delete: INSERT or UPDATE, Mark, PostEvent, and on as in PostFeed *)

rest == <<marker, profile, slaveProfile, profileLog, edit, view, exposed>>

InsertPost(p) ==
    /\ CreateInsert(p)
    /\ owes' = IF create'[p] = "publish" THEN owes \cup {<<"create", p>>} ELSE owes
    /\ UNCHANGED <<rest, announced>>

\* A failure is only logged.
PublishPostEvent(p) ==
    /\ create[p] = "publish"
    /\ <<"create", p>> \notin owes
    /\ ~announced[p]
    /\ announced' = [announced EXCEPT ![p] = TRUE]
    /\ UNCHANGED <<vars, rest, owes>>

CreateRest(p) ==
    /\ (announced[p] /\ PublishAuditEvent(p)) \/ CreateBump(p)
    /\ UNCHANGED ownVars

\* Variant: a deletion is not followed by Mark.
DeletePostUnmarked(d) ==
    /\ SoftDeleteByOwner(d)
    /\ UNCHANGED ownVars

DeletePost(d) ==
    /\ SoftDeleteByOwner(d)
    /\ owes' = IF del'[d].step = "publish" THEN owes \cup {<<"delete", d>>} ELSE owes
    /\ UNCHANGED <<rest, announced>>

DeleteRest(d) ==
    /\ <<"delete", d>> \notin owes
    /\ \/ DeleteFind(d)
       \/ PublishPostDeletedEvent(d)
       \/ DeleteBump(d)
       \/ \E p \in Posts : BeginDelete(d, p)
    /\ UNCHANGED ownVars

-----------------------------------------------------------------------------
(* UpdateProfile *)

\* The request is refused, or changes nothing, or its UPDATE fails; or the edit
\* is committed and the marker is next.  The user:info key that is deleted at
\* the end is never written.
UpdateProfile(e) ==
    /\ edit[e].step = "update"
    /\ \/ /\ edit' = [edit EXCEPT ![e].step = "returned"]
          /\ UNCHANGED <<owes, profile, slaveProfile, profileLog>>
       \/ /\ profile' = profile + 1
          /\ edit' = [edit EXCEPT ![e] = [step |-> "returned", edit |-> profile + 1]]
          /\ owes' = owes \cup {<<"edit", e>>}
          /\ IF Split
             THEN /\ profileLog' = Append(profileLog, [edit |-> profile + 1,
                                                       after |-> Len(binlog)])
                  /\ UNCHANGED slaveProfile
             ELSE slaveProfile' = profile + 1 /\ UNCHANGED profileLog
    /\ UNCHANGED <<vars, marker, announced, view, exposed>>

-----------------------------------------------------------------------------
(* ListByUser and GetMyProfile *)

\* Deletions whose request has come past Mark.
MarkedDeletions ==
    db.deleted \ {del[d].post : d \in {x \in Deleters : <<"delete", x>> \in owes}}

\* The last edit whose request has come past Mark.
MarkedEdit ==
    LET marked == {edit[e].edit : e \in {x \in Editors : <<"edit", x>> \notin owes}} \cup {0}
    IN  CHOOSE n \in marked : \A m \in marked : m <= n

\* Has: an error counts as no marker.  mustHide and mustSee record what the
\* answer has to reflect.
BeginView(r, step, probed) ==
    /\ view[r] = NoView
    /\ probed \/ MarkerMayFail
    /\ view' = [view EXCEPT ![r] =
                  [step |-> step, force |-> probed /\ marker,
                   mustHide |-> IF probed /\ ~exposed THEN MarkedDeletions ELSE {},
                   mustSee |-> IF probed /\ ~exposed THEN MarkedEdit ELSE 0]]
    /\ UNCHANGED <<vars, marker, owes, announced, profile, slaveProfile, profileLog, edit,
                   exposed>>

\* Apply: the replica is read unless the context forces the master.
FromReplica(force) == ~force

PostsFor(r) == Visible(IF FromReplica(view[r].force) THEN slave ELSE db)
ProfileFor(r) == IF FromReplica(view[r].force) THEN slaveProfile ELSE profile

ViewGoes(r, next) ==
    /\ view' = [view EXCEPT ![r] = next]
    /\ UNCHANGED <<vars, marker, owes, announced, profile, slaveProfile, profileLog, edit,
                   exposed>>

\* The page.  Its author is only loaded if it is not empty.
ListByUser(r) ==
    /\ view[r].step = "list"
    /\ ViewGoes(r, IF PostsFor(r) = {} THEN NoView ELSE [view[r] EXCEPT !.step = "author"])

\* LoadOne of the page's author, or FindByID of the user himself; the answer.
LoadProfile(r) ==
    /\ view[r].step = "author"
    /\ ViewGoes(r, NoView)

\* A query fails.
ViewFails(r) ==
    /\ view[r] # NoView
    /\ ViewGoes(r, NoView)

ViewStep(r) ==
    \/ \E step \in {"list", "author"}, probed \in BOOLEAN : BeginView(r, step, probed)
    \/ ListByUser(r)
    \/ LoadProfile(r)
    \/ ViewFails(r)

-----------------------------------------------------------------------------

\* The rest of PostFeed.  Readers of the home feed are left out: they change
\* nothing but the cached pages.
Others == AuditStep \/ \E p \in Posts : Redeliver(p)

CreateProceeds(p) ==
    \/ Mark(<<"create", p>>)
    \/ MarkFails(<<"create", p>>)
    \/ PublishPostEvent(p)
    \/ CreateRest(p)

AuthorNext ==
    \/ \E p \in Posts : InsertPost(p) \/ CreateProceeds(p)
    \/ \E d \in Deleters : DeletePost(d) \/ DeleteRest(d)
    \/ \E e \in Editors : UpdateProfile(e)
    \/ \E q \in owes : q[1] # "create" /\ (Mark(q) \/ MarkFails(q))
    \/ \E r \in Viewers : ViewStep(r)
    \/ ReplicatePosts
    \/ ReplicateProfile
    \/ MarkerExpires
    \/ Others /\ UNCHANGED ownVars

AuthorSpec == AuthorInit /\ [][AuthorNext]_authorVars

(***************************************************************************)
(* Fairness as in PostFeed: started Creates go on, the consumer's          *)
(* goroutine is scheduled, replication makes progress.                     *)
(***************************************************************************)
AuthorFairness ==
    /\ \A p \in Posts : WF_authorVars(CreateProceeds(p))
    /\ WF_authorVars(AuditStep /\ UNCHANGED ownVars)
    /\ WF_authorVars(ReplicatePosts \/ ReplicateProfile)

AuthorFairSpec == AuthorSpec /\ AuthorFairness

-----------------------------------------------------------------------------
(* Properties *)

\* write_marker.go:7-17: an author who asks for his page or his profile after
\* his own Delete or UpdateProfile has marked him sees neither the deleted post nor
\* an older profile, however far the replica is behind and whatever the marker's
\* expiry, other requests and replication do while the answer is put together;
\* unless Redis failed him or the marker was gone before the replica had the
\* write when the request arrived.
OwnWritesSeen ==
    [][\A r \in Viewers :
         /\ ListByUser(r) => PostsFor(r) \cap view[r].mustHide = {}
         /\ LoadProfile(r) => ProfileFor(r) >= view[r].mustSee]_authorVars

=============================================================================
