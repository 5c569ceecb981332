-------------------------- MODULE WebActionsProofs --------------------------
(***************************************************************************)
(* Proofs about two parts of a browser tab that share no state (see        *)
(* MCWebActions): its uploads (Uploads) and the overlay of a file drag     *)
(* (FileDrag).  For any number of files and folders, of uploads, calls,    *)
(* failures and moves, however deep a drag goes.                           *)
(***************************************************************************)
EXTENDS MCWebActions, SequenceTheorems, TLAPS

-----------------------------------------------------------------------------
(* The uploads.  LandedShows needs the whole path of a row: a list, or the  *)
(* answer to a call, that says a job done was given after its file landed   *)
(* and the server dropped the folder's listing; a listing or an answer read *)
(* since holds the file.                                                    *)

JobType == [folder : Folders, status : {"queued", "uploading"} \cup Up!Terminal, ctx : BOOLEAN,
            run : {"waiting", "holding", "landed", "finished", "gone"},
            landed : BOOLEAN, listed : BOOLEAN]
Fields == {"data", "invalid", "st", "ans"}

\* A file lands after its job has its slot, and a job done has landed.
JobSound(j) ==
    /\ j.run \in {"waiting", "holding"} => ~j.landed
    /\ j.run \in {"landed", "finished"} => j.landed
    /\ j.status = "done" => j.landed /\ j.run \in {"finished", "gone"}
JobsSound == uploads \in Seq(JobType) /\ \A i \in Up!Ids : JobSound(uploads[i])

\* What a list says done is done.
RowsOk(d) == \A r \in d : r.id \in Up!Ids /\ (r.status = "done" => uploads[r.id].status = "done")
ListSound ==
    /\ DOMAIN upList = Fields
    /\ upList.data # NoData => RowsOk(upList.data)
    /\ upList.st = "ready" => RowsOk(upList.ans)
CallsSound == \A c \in upCalls : /\ {"st", "ans"} \subseteq DOMAIN c
                                 /\ c.st = "served" => RowsOk(c.ans)
PostSound == post # Up!NoPost => post.id \in Up!Ids
TabSound == /\ place \in Folders \cup {None} /\ DOMAIN batch = {"files", "folder"}
            /\ batch.files # {} => batch.folder \in Folders
ToldSound == upSeen \subseteq told /\ told \subseteq Up!Ids
  /\ \A i \in told : uploads[i].status = "done"

\* A cached listing misses no file whose job is gone: the drop of the listings
\* comes between its landing and that.
ListingSound == /\ DOMAIN listing = Folders
                /\ \A f \in Folders : listing[f] # NoData =>
                     \A i \in Up!Landed(f) : uploads[i].run = "gone" => i \in listing[f]

\* The answer on its way to a folder, and what passes for current there.
ReadingShows(f) == contents[f].st = "ready" =>
    \A i \in told : uploads[i].folder = f => i \in contents[f].ans \/ f \in early
FolderShows(f) == Up!Trusted(contents[f]) =>
    \A i \in told : uploads[i].folder = f => i \in contents[f].data \/ f \in early
ContentsSound == /\ DOMAIN contents = Folders
                 /\ \A f \in Folders : /\ DOMAIN contents[f] = Fields
                                       /\ ReadingShows(f) /\ FolderShows(f)

UpInv == /\ JobsSound /\ ListSound /\ CallsSound /\ PostSound /\ TabSound /\ ToldSound
         /\ ListingSound /\ ContentsSound

\* Jobs only move forward: none is taken away, changes its folder or is done no
\* longer.
JobsKeep == \A i \in Up!Ids : /\ i \in Up!Ids' /\ uploads'[i].folder = uploads[i].folder
                              /\ uploads[i].status = "done" => uploads'[i].status = "done"

\* A step of the server's jobs.
LEMMA JobsStep ==
    ASSUME UpInv, JobsSound', JobsKeep, CallsSound', PostSound', ListingSound',
           UNCHANGED <<Up!tab, Up!view, early>>
    PROVE  UpInv'
<1> USE DEF UpInv, Up!tab, Up!view
<1>1. ListSound'
  BY DEF ListSound, RowsOk, JobsKeep
<1>2. TabSound'
  BY DEF TabSound
<1>3. ToldSound'
  BY DEF ToldSound, JobsKeep
<1>4. ContentsSound'
  <2>1. \A f \in Folders : ReadingShows(f)'
    BY DEF ContentsSound, ReadingShows, ToldSound, JobsKeep
  <2>2. \A f \in Folders : FolderShows(f)'
    BY DEF ContentsSound, FolderShows, Up!Trusted, Up!InFlight, ToldSound, JobsKeep
  <2> QED BY <2>1, <2>2 DEF ContentsSound
<1> QED BY <1>1, <1>2, <1>3, <1>4

\* A step of the tab that does not look at the list.
LEMMA TabStep ==
    ASSUME UpInv, ListSound', CallsSound', PostSound', TabSound',
           UNCHANGED <<uploads, listing, upSeen, contents, told, early>>
    PROVE  UpInv'
<1> USE DEF UpInv
<1>1. JobsSound' /\ ToldSound' /\ ListingSound'
  BY DEF JobsSound, JobSound, ToldSound, ListingSound, Up!Landed, Up!Ids
<1>2. ContentsSound'
  BY DEF ContentsSound, ReadingShows, FolderShows, Up!Trusted, Up!InFlight
<1> QED BY <1>1, <1>2

\* The tab looks at a list.
LEMMA ObserveStep ==
    ASSUME UpInv, NEW d, RowsOk(d), Up!Observe(d), ListSound', CallsSound', PostSound', TabSound',
           UNCHANGED <<place, uploads, listing>>
    PROVE  UpInv'
<1> USE DEF UpInv
<1> DEFINE fresh == Up!Having(d, "done") \ upSeen
           hit(f) == \E i \in fresh : uploads[i].folder = f
<1>1. /\ upSeen' = Up!Having(d, "done") \ Up!Having(d, "queued")
      /\ told' = told \cup fresh
      /\ contents' = [f \in Folders |-> IF hit(f) THEN Up!Invalidate(contents[f], place = f)
                                        ELSE contents[f]]
      /\ early' = early \cup {f \in Folders : hit(f) /\ Up!InFlight(contents[f])
                                /\ (contents[f].data = NoData \/ place # f)}
  BY DEF Up!Observe
<1>2. \A i \in Up!Having(d, "done") : i \in Up!Ids /\ uploads[i].status = "done"
  BY DEF Up!Having, RowsOk
<1>3. JobsSound' /\ ListingSound'
  BY DEF JobsSound, JobSound, ListingSound, Up!Landed, Up!Ids
<1>4. ToldSound'
  BY <1>1, <1>2 DEF ToldSound, Up!Ids
<1> HIDE DEF hit
<1>5. ASSUME NEW f \in Folders
      PROVE  DOMAIN contents'[f] = Fields /\ ReadingShows(f)' /\ FolderShows(f)'
  <2>1. DOMAIN contents[f] = Fields /\ ReadingShows(f) /\ FolderShows(f)
    BY DEF ContentsSound
  <2>2. CASE hit(f)
    <3> DEFINE e == contents[f]
    <3>1. contents'[f] = Up!Invalidate(e, place = f)
      BY <1>1, <2>2
    <3>2. /\ DOMAIN contents'[f] = Fields /\ contents'[f].invalid = TRUE
          /\ contents'[f].st = "ready" =>
               /\ contents'[f].ans = e.ans /\ e.st = "ready"
               /\ e.data = NoData \/ place # f
      BY <2>1, <3>1 DEF Up!Invalidate, Up!Restart, Up!InFlight, Fields
    <3>3. contents'[f].st = "ready" => f \in early'
      BY <1>1, <2>2, <3>2 DEF Up!InFlight
    <3> QED BY <3>2, <3>3 DEF ReadingShows, FolderShows, Up!Trusted
  <2>3. CASE ~hit(f)
    <3>1. contents'[f] = contents[f]
      BY <1>1, <2>3
    <3>2. \A i \in told' : uploads'[i].folder = f => i \in told
      BY <1>1, <2>3 DEF hit
    <3>3. early \subseteq early'
      BY <1>1
    <3> QED BY <2>1, <3>1, <3>2, <3>3 DEF ReadingShows, FolderShows, Up!Trusted, Up!InFlight
  <2> QED BY <2>2, <2>3
<1>6. DOMAIN contents' = Folders
  BY <1>1
<1>7. ContentsSound'
  BY <1>5, <1>6 DEF ContentsSound
<1> QED BY <1>3, <1>4, <1>7

\* A step that reads folders.
LEMMA FolderStep ==
    ASSUME UpInv, TabSound', ListingSound', ContentsSound',
           UNCHANGED <<uploads, upList, upSeen, told, upCalls, post>>
    PROVE  UpInv'
<1>1. JobsSound' /\ ToldSound'
  BY DEF UpInv, JobsSound, JobSound, ToldSound, Up!Ids
<1>2. ListSound' /\ CallsSound' /\ PostSound'
  BY DEF UpInv, ListSound, CallsSound, PostSound, RowsOk, Up!Ids
<1> QED BY <1>1, <1>2 DEF UpInv

\* No jobs, and every list yet to be read.
LEMMA UploadsStart == Up!Init => UpInv
<1> SUFFICES ASSUME Up!Init
             PROVE  UpInv
  OBVIOUS
<1>1. uploads = <<>> /\ upCalls = {} /\ told = {} /\ upSeen = {} /\ post = Up!NoPost
  BY DEF Up!Init
<1>2. JobsSound
  BY <1>1, EmptySeq DEF JobsSound, Up!Ids
<1>3. CallsSound /\ PostSound /\ ToldSound
  BY <1>1 DEF CallsSound, PostSound, ToldSound
<1>4. ListSound
  BY DEF Up!Init, ListSound, Up!Ask, Up!Empty, Up!InFlight, Fields
<1>5. TabSound
  BY DEF Up!Init, TabSound
<1>6. ListingSound
  BY DEF Up!Init, ListingSound
<1>7. ContentsSound
  <2>1. DOMAIN contents = Folders
    BY DEF Up!Init
  <2>2. \A f \in Folders : DOMAIN contents[f] = Fields
    BY DEF Up!Init, Up!Ask, Up!Empty, Up!InFlight, Fields
  <2> QED BY <1>1, <2>1, <2>2 DEF ContentsSound, ReadingShows, FolderShows
<1> QED BY <1>2, <1>3, <1>4, <1>5, <1>6, <1>7 DEF UpInv

\* The rows the server answers with.
LEMMA ServedRows == JobsSound => RowsOk(Up!Rows(uploads))
BY DEF RowsOk, Up!Rows, Up!Ids

\* Choosing files and folders.
LEMMA ChooseStep ==
    ASSUME UpInv, \/ \E f \in Files : Up!addFiles(f) \/ Up!removeFile(f) \/ Up!dismissLocal(f)
                  \/ Up!startUpload
    PROVE  UpInv'
<1> USE DEF UpInv
<1>1. UNCHANGED <<uploads, listing, upList, upSeen, contents, told, early, upCalls, post>>
  BY DEF Up!addFiles, Up!removeFile, Up!dismissLocal, Up!startUpload, Up!server, Up!view
<1>2. ListSound' /\ CallsSound' /\ PostSound'
  BY <1>1 DEF ListSound, RowsOk, CallsSound, PostSound, Up!Ids
<1>3. TabSound'
  BY DEF TabSound, Up!addFiles, Up!removeFile, Up!dismissLocal, Up!startUpload, Up!canUpload
<1> QED BY <1>1, <1>2, <1>3, TabStep

\* Another folder on screen.
LEMMA BrowseStep == ASSUME UpInv, NEW f \in Folders \cup {None}, Up!Browse(f) PROVE UpInv'
<1> USE DEF UpInv
<1>4. place' = f /\ UNCHANGED <<uploads, listing, upList, upSeen, told, upCalls, post, batch, early>>
  BY DEF Up!Browse, Up!server
<1>5. contents' = contents \/ (f # None /\ contents' = [contents EXCEPT ![f] = Up!Ask(@)])
  BY DEF Up!Browse
<1>1. /\ place' = f
      /\ contents' = contents \/ (f # None /\ contents' = [contents EXCEPT ![f] = Up!Ask(@)])
      /\ UNCHANGED <<uploads, listing, upList, upSeen, told, upCalls, post, batch, early>>
  BY <1>4, <1>5
<1>2. TabSound' /\ ListingSound'
  BY <1>4 DEF TabSound, ListingSound, Up!Landed, Up!Ids
<1>3. ContentsSound'
  <2>1. CASE contents' = contents
    BY <1>1, <2>1 DEF ContentsSound, ReadingShows, FolderShows, Up!Trusted, Up!InFlight
  <2>2. CASE f \in Folders /\ contents' = [contents EXCEPT ![f] = Up!Ask(@)]
    <3>1. /\ DOMAIN contents' = Folders /\ contents'[f] = Up!Ask(contents[f])
          /\ \A g \in Folders \ {f} : contents'[g] = contents[g]
      BY <2>2 DEF ContentsSound
    <3>2. DOMAIN contents[f] = Fields /\ ReadingShows(f)
      BY <2>2 DEF ContentsSound
    <3>3. /\ DOMAIN contents'[f] = Fields
          /\ contents'[f].st = "ready" => contents[f].st = "ready" /\ contents'[f].ans = contents[f].ans
          /\ contents'[f].st # "idle"
      BY <3>1, <3>2 DEF Up!Ask, Up!InFlight, Fields
    <3>4. ReadingShows(f)' /\ FolderShows(f)'
      BY <1>1, <3>2, <3>3 DEF ReadingShows, FolderShows, Up!Trusted, Up!InFlight
    <3>5. \A g \in Folders \ {f} : DOMAIN contents'[g] = Fields /\ ReadingShows(g)' /\ FolderShows(g)'
      BY <1>1, <3>1 DEF ContentsSound, ReadingShows, FolderShows, Up!Trusted, Up!InFlight
    <3> QED BY <3>1, <3>3, <3>4, <3>5 DEF ContentsSound
  <2> QED BY <1>1, <2>1, <2>2
<1> QED BY <1>1, <1>2, <1>3, FolderStep

\* The list, and what is under way.
LEMMA EndBatch ==
    ASSUME TabSound, UNCHANGED place, NEW f, NEW d, Up!NextFile(f, d)
    PROVE  TabSound' /\ post' = Up!NoPost /\ (upList' = d \/ upList' = Up!Invalidate(d, TRUE))
<1>1. post' = Up!NoPost /\ (upList' = d \/ upList' = Up!Invalidate(d, TRUE))
  BY DEF Up!NextFile
<1>2. \/ batch' = [files |-> {}, folder |-> None]
      \/ batch' = [batch EXCEPT !.files = @ \ {f}]
  BY DEF Up!NextFile
<1>3. TabSound'
  BY <1>2 DEF TabSound
<1> QED BY <1>1, <1>3

\* An entry that a write of the tab fills or an answer invalidates.
LEMMA ListOps ==
    ASSUME ListSound
    PROVE  /\ DOMAIN Up!Ask(upList) = Fields /\ Up!Ask(upList).data = upList.data
           /\ Up!Ask(upList).st = "ready" => Up!Ask(upList).ans = upList.ans /\ upList.st = "ready"
           /\ DOMAIN Up!Fail(upList) = Fields /\ Up!Fail(upList).data = upList.data
                /\ Up!Fail(upList).st = "idle"
           /\ DOMAIN Up!Apply(upList) = Fields /\ Up!Apply(upList).data = upList.ans
                /\ Up!Apply(upList).st = "idle"
           /\ \A o : /\ DOMAIN Up!Invalidate(upList, o) = Fields
                /\ Up!Invalidate(upList, o).data = upList.data
                     /\ Up!Invalidate(upList, o).st = "ready" =>
                             Up!Invalidate(upList, o).ans = upList.ans /\ upList.st = "ready"
           /\ \A d : /\ DOMAIN Up!SetData(upList, d) = Fields /\ Up!SetData(upList, d).data = d
                     /\ Up!SetData(upList, d).st = upList.st /\ Up!SetData(upList, d).ans = upList.ans
                     /\ DOMAIN Up!Answer(upList, d) = Fields /\ Up!Answer(upList, d).data = upList.data
                     /\ Up!Answer(upList, d).ans = d
BY DEF ListSound, Up!Ask, Up!Fail, Up!Apply, Up!SetData, Up!Answer, Up!Invalidate, Up!Restart,
   Up!InFlight, Fields

\* The rows a post or a call answers with.
LEMMA FilledList ==
    ASSUME ListSound, UNCHANGED uploads, NEW d, RowsOk(d),
           \/ upList' = Up!SetData(upList, d)
           \/ upList' = Up!Invalidate(Up!SetData(upList, d), TRUE)
    PROVE  ListSound'
<1>1. CASE upList' = Up!SetData(upList, d)
  BY <1>1, ListOps DEF ListSound, RowsOk, Up!Ids
<1>2. CASE upList' = Up!Invalidate(Up!SetData(upList, d), TRUE)
  <2> DEFINE e == Up!SetData(upList, d)
  <2>1. DOMAIN e = Fields /\ e.data = d /\ e.st = upList.st /\ e.ans = upList.ans
    BY ListOps
  <2> HIDE DEF e
  <2>2. upList' = Up!Invalidate(e, TRUE)
    BY <1>2 DEF e
  <2>3. /\ DOMAIN upList' = Fields /\ upList'.data = d
        /\ upList'.st = "ready" => upList'.ans = upList.ans /\ upList.st = "ready"
    BY <2>1, <2>2 DEF Up!Invalidate, Up!Restart, Up!InFlight, Fields
  <2> QED BY <2>3 DEF ListSound, RowsOk, Up!Ids
<1> QED BY <1>1, <1>2

\* The list of jobs is asked for and served.
LEMMA ListStep == ASSUME UpInv, Up!Poll \/ Up!ServeList \/ Up!FailList PROVE UpInv'
<1> USE DEF UpInv
<1>1. UNCHANGED <<place, batch, post, uploads, listing, upSeen, contents, told, upCalls, early>>
  BY DEF Up!Poll, Up!ServeList, Up!FailList, Up!tab, Up!server
<1>2. CallsSound' /\ PostSound' /\ TabSound'
  BY <1>1 DEF CallsSound, PostSound, TabSound, RowsOk, Up!Ids
<1>3. upList' = Up!Ask(upList) \/ upList' = Up!Answer(upList, Up!Rows(uploads))
        \/ upList' = Up!Fail(upList)
  BY DEF Up!Poll, Up!ServeList, Up!FailList
<1>4. RowsOk(Up!Rows(uploads))
  BY ServedRows
<1>5. ListSound'
  <2> DEFINE d == Up!Rows(uploads)
  <2> HIDE DEF d
  <2>1. RowsOk(d) /\ (upList' = Up!Ask(upList) \/ upList' = Up!Answer(upList, d) \/ upList' = Up!Fail(upList))
    BY <1>3, <1>4 DEF d
  <2> QED BY <1>1, <2>1, ListOps DEF ListSound, RowsOk, Up!Ids
<1> QED BY <1>1, <1>2, <1>5, TabStep

\* The list of jobs comes in.
LEMMA ApplyListStep == ASSUME UpInv, Up!ApplyList PROVE UpInv'
<1> USE DEF UpInv
<1>1. /\ upList.st = "ready" /\ upList' = Up!Apply(upList) /\ Up!Observe(upList.ans)
      /\ UNCHANGED <<place, batch, post, uploads, listing, upCalls>>
  BY DEF Up!ApplyList, Up!tab, Up!server
<1>2. CallsSound' /\ PostSound' /\ TabSound'
  BY <1>1 DEF CallsSound, PostSound, TabSound, RowsOk, Up!Ids
<1>3. RowsOk(upList.ans)
  BY <1>1 DEF ListSound
<1>4. ListSound'
  BY <1>1, <1>3, ListOps DEF ListSound, RowsOk, Up!Ids
<1> QED BY <1>1, <1>2, <1>3, <1>4, ObserveStep

\* The tab learns of the job of a file it posted.
LEMMA AcceptedStep == ASSUME UpInv, Up!Accepted PROVE UpInv'
<1> USE DEF UpInv
<1> DEFINE d == Up!Shown \cup {[id |-> post.id, status |-> "queued"]}
<1>1. /\ post # Up!NoPost /\ Up!NextFile(post.file, Up!SetData(upList, d)) /\ Up!Observe(d)
      /\ UNCHANGED <<place, uploads, listing, upCalls>>
  BY DEF Up!Accepted, Up!server
<1>2. RowsOk(d)
  BY <1>1 DEF RowsOk, Up!Shown, ListSound, PostSound
<1> HIDE DEF d
<1>3. TabSound' /\ post' = Up!NoPost
      /\ (upList' = Up!SetData(upList, d) \/ upList' = Up!Invalidate(Up!SetData(upList, d), TRUE))
  BY <1>1, EndBatch
<1>4. ListSound'
  BY <1>1, <1>2, <1>3, FilledList
<1>5. CallsSound' /\ PostSound'
  BY <1>1, <1>3 DEF CallsSound, PostSound, RowsOk, Up!Ids, Up!NoPost
<1> QED BY <1>1, <1>2, <1>3, <1>4, <1>5, ObserveStep

\* A post that fails ends its file.
LEMMA PostFailsStep == ASSUME UpInv, NEW f \in Files, Up!PostFails(f) PROVE UpInv'
<1> USE DEF UpInv
<1>1. Up!NextFile(f, upList)
        /\ UNCHANGED <<place, uploads, listing, upSeen, contents, told, upCalls, early>>
  BY DEF Up!PostFails, Up!server
<1>2. TabSound' /\ post' = Up!NoPost /\ (upList' = upList \/ upList' = Up!Invalidate(upList, TRUE))
  BY <1>1, EndBatch
<1>3. ListSound'
  <2>1. /\ DOMAIN upList' = Fields /\ upList'.data = upList.data
        /\ upList'.st = "ready" => upList'.ans = upList.ans /\ upList.st = "ready"
    BY <1>2 DEF ListSound, Up!Invalidate, Up!Restart, Up!InFlight, Fields
  <2> QED BY <1>1, <2>1 DEF ListSound, RowsOk, Up!Ids
<1>4. CallsSound' /\ PostSound'
  BY <1>1, <1>2 DEF CallsSound, PostSound, RowsOk, Up!Ids, Up!NoPost
<1> QED BY <1>1, <1>2, <1>3, <1>4, TabStep

\* A cancellation or a dismissal begins, or fails.
LEMMA CallStep ==
    ASSUME UpInv, \/ \E r \in Up!Shown : Up!cancelJob(r) \/ Up!dismissFinished(r)
                  \/ Up!clearFinished
                  \/ \E c \in upCalls : Up!CallFails(c)
    PROVE  UpInv'
<1> USE DEF UpInv
<1>1. UNCHANGED <<place, batch, post, uploads, listing, upList, upSeen, contents, told, early>>
  BY DEF Up!cancelJob, Up!dismissFinished, Up!clearFinished, Up!CallFails, Up!tab, Up!server,
     Up!view
<1>2. \A c \in upCalls' : c \in upCalls \/ (c.st = "asked" /\ {"st", "ans"} \subseteq DOMAIN c)
  BY DEF Up!cancelJob, Up!dismissFinished, Up!clearFinished, Up!CallFails, Up!Call
<1>3. CallsSound'
  BY <1>1, <1>2 DEF CallsSound, RowsOk, Up!Ids
<1>4. ListSound' /\ PostSound' /\ TabSound'
  BY <1>1 DEF ListSound, PostSound, TabSound, RowsOk, Up!Ids
<1> QED BY <1>1, <1>3, <1>4, TabStep

\* Its answer, with the rows that remain.
LEMMA CallAnsweredStep == ASSUME UpInv, NEW c \in upCalls, Up!CallAnswered(c) PROVE UpInv'
<1> USE DEF UpInv
<1>1. /\ c.st = "served" /\ upCalls' = upCalls \ {c} /\ upList' = Up!SetData(upList, c.ans)
           /\ Up!Observe(c.ans)
      /\ UNCHANGED <<place, batch, post, uploads, listing>>
  BY DEF Up!CallAnswered, Up!tab, Up!server
<1>2. RowsOk(c.ans)
  BY <1>1 DEF CallsSound
<1>3. ListSound'
  BY <1>1, <1>2, FilledList
<1>4. CallsSound' /\ PostSound' /\ TabSound'
  BY <1>1 DEF CallsSound, PostSound, TabSound, RowsOk, Up!Ids
<1> QED BY <1>1, <1>2, <1>3, <1>4, ObserveStep

\* The server's jobs.
LEMMA PostStep == ASSUME UpInv, NEW f \in Files, Up!Post(f) PROVE UpInv'
<1> USE DEF UpInv
<1> DEFINE new == [folder |-> batch.folder, status |-> "queued", ctx |-> FALSE,
                   run |-> "waiting", landed |-> FALSE, listed |-> TRUE]
<1>1. /\ f \in batch.files /\ uploads' = Append(uploads, new) /\ post'.id = Len(uploads) + 1
      /\ UNCHANGED <<Up!tab, Up!view, listing, upCalls, early>>
  BY DEF Up!Post
<1>2. batch.folder \in Folders
  BY <1>1 DEF TabSound
<1>3. new \in JobType /\ JobSound(new) /\ ~new.landed
  BY <1>2 DEF JobType, JobSound
<1> HIDE DEF new
<1>4. /\ uploads \in Seq(JobType) /\ uploads' \in Seq(JobType)
           /\ Up!Ids' = Up!Ids \cup {Len(uploads) + 1}
      /\ uploads'[Len(uploads) + 1] = new /\ \A i \in Up!Ids : i # Len(uploads) + 1
           /\ uploads'[i] = uploads[i]
  BY <1>1, <1>3, AppendProperties DEF JobsSound, Up!Ids
<1>5. JobsSound'
  BY <1>3, <1>4 DEF JobsSound, JobSound
<1>6. JobsKeep
  BY <1>4 DEF JobsKeep
<1>7. CallsSound' /\ PostSound'
  BY <1>1, <1>4 DEF CallsSound, PostSound, RowsOk
<1>8. ListingSound'
  <2>1. listing' = listing /\ ListingSound
    BY <1>1
  <2>2. ASSUME NEW g \in Folders, NEW i \in Up!Landed(g)' PROVE i \in Up!Landed(g) /\ uploads'[i] = uploads[i]
    <3>1. i \in Up!Ids' /\ uploads'[i].folder = g /\ uploads'[i].landed
      BY <2>2 DEF Up!Landed
    <3>2. i # Len(uploads) + 1
      BY <1>3, <1>4, <3>1
    <3> QED BY <1>4, <3>1, <3>2 DEF Up!Landed
  <2> QED BY <2>1, <2>2 DEF ListingSound
<1> QED BY <1>1, <1>5, <1>6, <1>7, <1>8, JobsStep

\* A job moves on by itself.
LEMMA OneJob ==
    ASSUME UpInv, NEW i \in Up!Ids, NEW j \in JobType, Up!Job(i, j), JobSound(j),
           j.folder = uploads[i].folder, uploads[i].status = "done" => j.status = "done",
           \/ UNCHANGED listing /\ (j.run = "gone" => ~j.landed)
           \/ listing' = [f \in Folders |-> NoData]
    PROVE  UpInv'
<1> USE DEF UpInv
<1>1. uploads' = [uploads EXCEPT ![i] = j] /\ UNCHANGED <<Up!tab, post, Up!view, upCalls, early>>
  BY DEF Up!Job
<1>2. /\ uploads' \in Seq(JobType) /\ Up!Ids' = Up!Ids /\ uploads'[i] = j
      /\ \A k \in Up!Ids : k # i => uploads'[k] = uploads[k]
  BY <1>1 DEF JobsSound, Up!Ids
<1>3. JobsSound'
  BY <1>2 DEF JobsSound, JobSound
<1>4. JobsKeep
  BY <1>2 DEF JobsKeep
<1>5. CallsSound' /\ PostSound'
  BY <1>1, <1>2 DEF CallsSound, PostSound, RowsOk
<1>6. ListingSound'
  BY <1>2 DEF ListingSound, Up!Landed
<1> QED BY <1>1, <1>3, <1>4, <1>5, <1>6, JobsStep

\* The life of a job: its slot, its landing, the drop of the listings, its end.
LEMMA RunStep == ASSUME UpInv, NEW i \in Up!Ids, Up!Run(i) \/ Up!RunFails(i) PROVE UpInv'
<1>1. uploads[i] \in JobType /\ JobSound(uploads[i])
  BY DEF UpInv, JobsSound, Up!Ids
<1> DEFINE j == uploads[i]
<1>2. ASSUME Up!TakeSlot(i) PROVE UpInv'
  <2> DEFINE n == [j EXCEPT !.run = "holding", !.status = IF @ \in Up!Terminal THEN @ ELSE "uploading"]
  <2>1. j.run = "waiting" /\ Up!Job(i, n) /\ UNCHANGED listing
    BY <1>2 DEF Up!TakeSlot
  <2>2. n \in JobType /\ JobSound(n) /\ n.folder = j.folder /\ n.run = "holding"
        /\ (j.status = "done" => n.status = "done")
    BY <1>1, <2>1 DEF JobType, JobSound, Up!Terminal
  <2> HIDE DEF n
  <2> QED BY <2>1, <2>2, OneJob
<1>3. ASSUME Up!AbortWait(i) PROVE UpInv'
  <2> DEFINE n == Up!Finish([j EXCEPT !.run = "gone"], "canceled")
  <2>1. j.run = "waiting" /\ Up!Job(i, n) /\ UNCHANGED listing
    BY <1>3 DEF Up!AbortWait
  <2>2. n \in JobType /\ JobSound(n) /\ n.folder = j.folder /\ ~n.landed
        /\ (j.status = "done" => n.status = "done")
    BY <1>1, <2>1 DEF JobType, JobSound, Up!Terminal, Up!Finish
  <2> HIDE DEF n
  <2> QED BY <2>1, <2>2, OneJob
<1>4. ASSUME Up!Land(i) PROVE UpInv'
  <2> DEFINE n == [j EXCEPT !.run = "landed", !.landed = TRUE]
  <2>1. j.run = "holding" /\ Up!Job(i, n) /\ UNCHANGED listing
    BY <1>4 DEF Up!Land
  <2>2. n \in JobType /\ JobSound(n) /\ n.folder = j.folder /\ n.run = "landed"
        /\ (j.status = "done" => n.status = "done")
    BY <1>1, <2>1 DEF JobType, JobSound, Up!Terminal
  <2> HIDE DEF n
  <2> QED BY <2>1, <2>2, OneJob
<1>5. ASSUME Up!RunDone(i) PROVE UpInv'
  <2> DEFINE n == Up!Finish([j EXCEPT !.run = "finished"], "done")
  <2>1. j.run = "landed" /\ Up!Job(i, n) /\ UNCHANGED listing
    BY <1>5 DEF Up!RunDone
  <2>2. n \in JobType /\ JobSound(n) /\ n.folder = j.folder /\ n.run = "finished"
        /\ (j.status = "done" => n.status = "done")
    BY <1>1, <2>1 DEF JobType, JobSound, Up!Terminal, Up!Finish
  <2> HIDE DEF n
  <2> QED BY <2>1, <2>2, OneJob
<1>6. ASSUME Up!DropListings(i) PROVE UpInv'
  <2> DEFINE n == [j EXCEPT !.run = "gone"]
  <2>1. j.run = "finished" /\ Up!Job(i, n) /\ listing' = [f \in Folders |-> NoData]
    BY <1>6 DEF Up!DropListings
  <2>2. n \in JobType /\ JobSound(n) /\ n.folder = j.folder
        /\ (j.status = "done" => n.status = "done")
    BY <1>1, <2>1 DEF JobType, JobSound, Up!Terminal
  <2> HIDE DEF n
  <2> QED BY <2>1, <2>2, OneJob
<1>7. ASSUME Up!RunFails(i) PROVE UpInv'
  <2> DEFINE n == Up!Finish([j EXCEPT !.run = "gone"], IF j.ctx THEN "canceled" ELSE "error")
  <2>1. j.run = "holding" /\ Up!Job(i, n) /\ UNCHANGED listing
    BY <1>7 DEF Up!RunFails
  <2>2. n \in JobType /\ JobSound(n) /\ n.folder = j.folder /\ ~n.landed
        /\ (j.status = "done" => n.status = "done")
    BY <1>1, <2>1 DEF JobType, JobSound, Up!Terminal, Up!Finish
  <2> HIDE DEF n
  <2> QED BY <2>1, <2>2, OneJob
<1> QED BY <1>2, <1>3, <1>4, <1>5, <1>6, <1>7 DEF Up!Run

\* Cancellations and dismissals.
LEMMA ServeCallStep == ASSUME UpInv, NEW c \in upCalls, Up!ServeCall(c) PROVE UpInv'
<1> USE DEF UpInv
<1>1. /\ uploads' = (IF c.kind = "dismiss" THEN Up!DismissAt(c.id)
                     ELSE IF uploads[c.id].listed THEN Up!CancelAt(c.id) ELSE uploads)
      /\ upCalls' = (upCalls \ {c}) \cup {[c EXCEPT !.st = "served", !.ans = Up!Rows(uploads')]}
      /\ UNCHANGED <<Up!tab, post, listing, Up!view, early>>
  BY DEF Up!ServeCall
<1>2. uploads \in Seq(JobType) /\ \A i \in Up!Ids : uploads[i] \in JobType /\ JobSound(uploads[i])
  BY DEF JobsSound, Up!Ids
<1>3. uploads' \in Seq(JobType) /\ Up!Ids' = Up!Ids
  <2>1. CASE uploads' = Up!DismissAt(c.id)
    <3>1. \A i \in Up!Ids : [uploads[i] EXCEPT !.listed = FALSE] \in JobType
      BY <1>2 DEF JobType
    <3>2. uploads' \in [Up!Ids -> JobType]
      BY <1>2, <2>1, <3>1 DEF Up!DismissAt
    <3>3. Up!Ids = 1..Len(uploads) /\ Len(uploads) \in Nat
      BY <1>2 DEF Up!Ids
    <3> QED BY <3>2, <3>3, SeqDef DEF Up!Ids
  <2>2. CASE uploads' = Up!CancelAt(c.id)
    <3> DEFINE n == [Up!Finish(uploads[c.id], "canceled") EXCEPT !.ctx = TRUE]
    <3>1. c.id \in Up!Ids => n \in JobType
      <4> DEFINE f == Up!Finish(uploads[c.id], "canceled")
      <4>1. c.id \in Up!Ids => f \in JobType
        BY <1>2 DEF JobType, Up!Terminal, Up!Finish
      <4> HIDE DEF f
      <4>2. c.id \in Up!Ids => [f EXCEPT !.ctx = TRUE] \in JobType
        BY ONLY <4>1 DEF JobType
      <4> QED BY <4>2 DEF f
    <3>2. uploads' = [uploads EXCEPT ![c.id] = n]
      BY <2>2 DEF Up!CancelAt
    <3> HIDE DEF n
    <3>3. uploads \in [Up!Ids -> JobType] /\ Up!Ids = 1..Len(uploads) /\ Len(uploads) \in Nat
      BY <1>2 DEF Up!Ids
    <3>4. uploads' \in [Up!Ids -> JobType]
      BY <3>1, <3>2, <3>3
    <3> QED BY <3>3, <3>4, SeqDef DEF Up!Ids
  <2>3. CASE uploads' = uploads
    BY <1>2, <2>3 DEF Up!Ids
  <2> QED BY <1>1, <2>1, <2>2, <2>3
<1>4. \A i \in Up!Ids : /\ uploads'[i].folder = uploads[i].folder /\ uploads'[i].run = uploads[i].run
                        /\ uploads'[i].landed = uploads[i].landed
                        /\ uploads'[i].status = "done" <=> uploads[i].status = "done"
  <2>1. CASE uploads' = Up!DismissAt(c.id)
    BY <1>2, <2>1 DEF Up!DismissAt, JobType
  <2>2. CASE uploads' = Up!CancelAt(c.id)
    BY <1>2, <2>2 DEF Up!CancelAt, Up!Finish, Up!Ids, JobType, Up!Terminal
  <2>3. CASE uploads' = uploads
    BY <2>3
  <2> QED BY <1>1, <2>1, <2>2, <2>3
<1>5. JobsSound'
  BY <1>2, <1>3, <1>4 DEF JobsSound, JobSound
<1>6. JobsKeep
  BY <1>3, <1>4 DEF JobsKeep
<1>7. \A r \in Up!Rows(uploads') : r.id \in Up!Ids
        /\ (r.status = "done" => uploads[r.id].status = "done")
  BY <1>3, <1>4 DEF Up!Rows, Up!Ids
<1>8. CallsSound'
  <2> DEFINE d == Up!Rows(uploads')
             n == [c EXCEPT !.st = "served", !.ans = d]
  <2>1. \A r \in d : r.id \in Up!Ids /\ (r.status = "done" => uploads[r.id].status = "done")
    BY <1>7
  <2> HIDE DEF d
  <2>2. {"st", "ans"} \subseteq DOMAIN n /\ n.ans = d
    BY DEF CallsSound
  <2> HIDE DEF n
  <2>3. \A x \in upCalls' : x \in upCalls \/ x = n
    BY <1>1 DEF n, d
  <2> QED BY <1>3, <1>4, <2>1, <2>2, <2>3 DEF CallsSound, RowsOk
<1>9. PostSound'
  BY <1>1, <1>3 DEF PostSound
<1>10. ListingSound'
  BY <1>1, <1>3, <1>4 DEF ListingSound, Up!Landed
<1> QED BY <1>1, <1>5, <1>6, <1>8, <1>9, <1>10, JobsStep

\* The folders.
LEMMA ContentsKeep ==
    ASSUME ContentsSound, NEW f \in Folders, UNCHANGED <<uploads, told>>,
           DOMAIN contents' = Folders, DOMAIN contents'[f] = Fields,
           ReadingShows(f)', FolderShows(f)',
           \A g \in Folders : g # f => contents'[g] = contents[g] /\ (g \in early => g \in early')
    PROVE  ContentsSound'
<1>1. ASSUME NEW g \in Folders, g # f
      PROVE  DOMAIN contents'[g] = Fields /\ ReadingShows(g)' /\ FolderShows(g)'
  <2>1. DOMAIN contents[g] = Fields /\ ReadingShows(g) /\ FolderShows(g)
    BY DEF ContentsSound
  <2> QED BY <1>1, <2>1 DEF ReadingShows, FolderShows, Up!Trusted, Up!InFlight
<1> QED BY <1>1 DEF ContentsSound

\* The server reads a folder, from its cached listing or anew.
LEMMA ServeContentsStep == ASSUME UpInv, NEW f \in Folders, Up!ServeContents(f) PROVE UpInv'
<1> USE DEF UpInv
<1> DEFINE d == IF listing[f] = NoData THEN Up!Landed(f) ELSE listing[f]
<1>1. /\ contents' = [contents EXCEPT ![f] = Up!Answer(@, d)]
      /\ listing' = [listing EXCEPT ![f] = d]
      /\ early' = (IF \E i \in Up!Landed(f) \ d : uploads[i].run = "finished"
                   THEN early \cup {f} ELSE early \ {f})
      /\ UNCHANGED <<Up!tab, post, uploads, upList, upSeen, told, upCalls>>
  BY DEF Up!ServeContents
<1>2. \A i \in Up!Landed(f) : uploads[i].run = "gone" => i \in d
  BY DEF ListingSound
<1>3. \A i \in told : uploads[i].folder = f =>
        i \in Up!Landed(f) /\ uploads[i].run \in {"finished", "gone"}
  BY DEF ToldSound, JobsSound, JobSound, Up!Landed
<1> HIDE DEF d
<1>4. ListingSound'
  BY <1>1, <1>2 DEF ListingSound, Up!Landed, Up!Ids
<1>5. \A i \in told : uploads[i].folder = f => i \in d \/ f \in early'
  BY <1>1, <1>2, <1>3
<1>6. /\ DOMAIN contents' = Folders /\ contents'[f] = Up!Answer(contents[f], d)
      /\ DOMAIN contents[f] = Fields
      /\ \A g \in Folders : g # f => contents'[g] = contents[g] /\ (g \in early => g \in early')
  BY <1>1 DEF ContentsSound
<1>7. DOMAIN contents'[f] = Fields /\ contents'[f].st = "ready" /\ contents'[f].ans = d
  BY <1>6 DEF Up!Answer, Fields
<1>8. ReadingShows(f)' /\ FolderShows(f)'
  BY <1>1, <1>5, <1>7 DEF ReadingShows, FolderShows, Up!Trusted, Up!InFlight
<1>9. ContentsSound'
  BY <1>1, <1>6, <1>7, <1>8, ContentsKeep
<1>10. TabSound'
  BY <1>1 DEF TabSound, Up!tab
<1> QED BY <1>1, <1>4, <1>9, <1>10, FolderStep

\* The reading comes in.
LEMMA ApplyContentsStep == ASSUME UpInv, NEW f \in Folders, Up!ApplyContents(f) PROVE UpInv'
<1> USE DEF UpInv
<1>1. /\ contents[f].st = "ready" /\ contents' = [contents EXCEPT ![f] = Up!Apply(@)]
      /\ UNCHANGED <<Up!tab, post, Up!server, upList, upSeen, told, upCalls, early>>
  BY DEF Up!ApplyContents
<1>2. /\ DOMAIN contents' = Folders /\ contents'[f] = Up!Apply(contents[f])
      /\ DOMAIN contents[f] = Fields /\ ReadingShows(f)
      /\ \A g \in Folders : g # f => contents'[g] = contents[g]
  BY <1>1 DEF ContentsSound
<1>3. DOMAIN contents'[f] = Fields /\ contents'[f].st = "idle" /\ contents'[f].data = contents[f].ans
  BY <1>2 DEF Up!Apply, Fields
<1>4. ReadingShows(f)' /\ FolderShows(f)'
  BY <1>1, <1>2, <1>3 DEF ReadingShows, FolderShows, Up!Trusted, Up!InFlight, Up!server
<1>5. ContentsSound'
  BY <1>1, <1>2, <1>3, <1>4, ContentsKeep DEF Up!server
<1>6. TabSound' /\ ListingSound'
  BY <1>1 DEF TabSound, Up!tab, ListingSound, Up!Landed, Up!Ids, Up!server
<1> QED BY <1>1, <1>5, <1>6, FolderStep DEF Up!server

\* A cached listing expires.
LEMMA ExpireStep == ASSUME UpInv, NEW f \in Folders, Up!Expire(f) PROVE UpInv'
<1> USE DEF UpInv
<1>1. listing' = [listing EXCEPT ![f] = NoData]
        /\ UNCHANGED <<Up!tab, post, uploads, Up!view, upCalls, early>>
  BY DEF Up!Expire
<1>2. ListingSound'
  BY <1>1 DEF ListingSound, Up!Landed, Up!Ids
<1>3. ContentsSound' /\ TabSound'
  BY <1>1 DEF ContentsSound, ReadingShows, FolderShows, Up!Trusted, Up!InFlight, TabSound,
     Up!tab, Up!view
<1> QED BY <1>1, <1>2, <1>3, FolderStep DEF Up!view

\* Every step keeps the invariant.
LEMMA UploadsNext == ASSUME UpInv, [Up!Next]_(Up!vars) PROVE UpInv'
<1>1. CASE \E f \in Folders \cup {None} : Up!Browse(f)
  BY <1>1, BrowseStep
<1>2. ASSUME NEW f \in Files,
             Up!addFiles(f) \/ Up!removeFile(f) \/ Up!Post(f) \/ Up!PostFails(f) \/ Up!dismissLocal(f)
      PROVE  UpInv'
  BY <1>2, ChooseStep, PostStep, PostFailsStep
<1>3. CASE Up!startUpload
  BY <1>3, ChooseStep
<1>4. CASE Up!Poll \/ Up!FailList \/ Up!ServeList
  BY <1>4, ListStep
<1>5. CASE Up!ApplyList
  BY <1>5, ApplyListStep
<1>6. CASE Up!Accepted
  BY <1>6, AcceptedStep
<1>7. ASSUME NEW c \in upCalls, Up!ServeCall(c) \/ Up!CallAnswered(c) \/ Up!CallFails(c)
      PROVE  UpInv'
  BY <1>7, ServeCallStep, CallAnsweredStep, CallStep
<1>8. CASE Up!clearFinished \/ \E r \in Up!Shown : Up!cancelJob(r) \/ Up!dismissFinished(r)
  BY <1>8, CallStep
<1>9. ASSUME NEW i \in Up!Ids, Up!Run(i) \/ Up!RunFails(i) PROVE UpInv'
  BY <1>9, RunStep
<1>10. ASSUME NEW f \in Folders, Up!ServeContents(f) \/ Up!ApplyContents(f) \/ Up!Expire(f)
       PROVE  UpInv'
  BY <1>10, ServeContentsStep, ApplyContentsStep, ExpireStep
<1>11. CASE UNCHANGED Up!vars
  <2>1. UNCHANGED <<place, batch, post, uploads, listing, upList, upSeen, contents, told,
          upCalls, early>>
    BY <1>11 DEF Up!vars, Up!tab, Up!server, Up!view
  <2>2. ListSound' /\ CallsSound' /\ PostSound' /\ TabSound'
    BY <2>1 DEF UpInv, ListSound, CallsSound, PostSound, TabSound, RowsOk, Up!Ids
  <2> QED BY <2>1, <2>2, TabStep
<1> QED BY <1>1, <1>2, <1>3, <1>4, <1>5, <1>6, <1>7, <1>8, <1>9, <1>10, <1>11 DEF Up!Next,
           Up!Answered

\* A folder that passes for current shows every upload the tab has seen done, but
\* for the two readings that cross a landing: whatever jobs are posted, canceled
\* or dismissed, and whatever lists of jobs and listings of folders are cached.
THEOREM UploadsShow == Up!Spec => []LandedShows
<1>1. Up!Init => UpInv
  BY UploadsStart
<1>2. UpInv /\ [Up!Next]_(Up!vars) => UpInv'
  BY UploadsNext
<1>3. UpInv => LandedShows
  <2> SUFFICES ASSUME UpInv, NEW i \in told
               PROVE  Up!Trusted(contents[uploads[i].folder]) =>
                           i \in contents[uploads[i].folder].data \/ uploads[i].folder \in early
    BY DEF LandedShows, Up!LandedShows
  <2>1. i \in Up!Ids /\ uploads \in Seq(JobType)
    BY DEF UpInv, ToldSound, JobsSound
  <2>2. uploads[i] \in JobType
    BY <2>1 DEF Up!Ids
  <2>3. uploads[i].folder \in Folders
    BY <2>2 DEF JobType
  <2> QED BY <2>3 DEF UpInv, ContentsSound, FolderShows
<1> QED BY <1>1, <1>2, <1>3, PTL DEF Up!Spec

-----------------------------------------------------------------------------
(* The overlay of a file drag.                                              *)

\* A drag that is not of an element leaves internal only as a leftover.
DragInv ==
    /\ depth \in Nat
    /\ dragActive => idle /\ depth > 0
    /\ internal /\ drag # "element" => missed

\* The overlay is up only while its watchdog runs, and an element of the app is
\* never taken for files, but for a drag whose end was not heard.
THEOREM OverlayIsGuarded == Drag!Spec => []OverlayGuarded
<1>1. Drag!Init => DragInv
  BY DEF Drag!Init, DragInv
<1>2. DragInv => OverlayGuarded
  BY DEF DragInv, OverlayGuarded, Drag!OverlayGuarded
<1>3. DragInv /\ [Drag!Next]_(Drag!vars) => DragInv'
  <2> SUFFICES ASSUME DragInv, [Drag!Next]_(Drag!vars)
               PROVE  DragInv'
    OBVIOUS
  <2> USE DEF DragInv, Drag!Calm, Drag!Same, Drag!stop
  <2>1. CASE Drag!Navigate \/ Drag!FilesCome
    BY <2>1 DEF Drag!Navigate, Drag!FilesCome
  <2>2. CASE Drag!onDragStart \/ Drag!onDragEnd
    BY <2>2 DEF Drag!onDragStart, Drag!onDragEnd
  <2>3. CASE Drag!EndUnheard \/ Drag!onPointerDown
    <3>1. depth' = depth /\ idle' = idle /\ dragActive' = dragActive
      BY <2>3 DEF Drag!EndUnheard, Drag!onPointerDown
    <3>2. internal' /\ drag' # "element" => missed'
      BY <2>3, Zenon DEF Drag!EndUnheard, Drag!onPointerDown
    <3> QED BY <3>1, <3>2
  <2>4. ASSUME NEW owned \in BOOLEAN, Drag!onDragEnter(owned) \/ Drag!onDragOver(owned)
        PROVE  DragInv'
    <3>1. CASE Drag!onDragEnter(owned)
      BY <3>1 DEF Drag!onDragEnter
    <3>2. CASE Drag!onDragOver(owned)
      BY <2>4, <3>2 DEF Drag!onDragOver
    <3> QED BY <2>4, <3>1, <3>2
  <2>5. ASSUME NEW owned \in BOOLEAN, Drag!onDrop(owned)
        PROVE  DragInv'
    BY <2>5 DEF Drag!onDrop
  <2>6. CASE Drag!onDragLeave
    BY <2>6 DEF Drag!onDragLeave
  <2>7. CASE Drag!Watchdog \/ UNCHANGED Drag!vars
    BY <2>7 DEF Drag!Watchdog, Drag!vars
  <2> QED BY <2>1, <2>2, <2>3, <2>4, <2>5, <2>6, <2>7 DEF Drag!Next
<1> QED BY <1>1, <1>2, <1>3, PTL DEF Drag!Spec
=============================================================================
