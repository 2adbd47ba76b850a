------------------------------ MODULE SharedFiles ------------------------------
(***************************************************************************)
(* Local files that are put on the drive.  The final card of a turn turns  *)
(* links to local files into links to the drive (feishu/local_file_links), *)
(* and a user asks for one with /download (application/fileshare).  Both   *)
(* upload through a store each (feishu/artifact_store), which remembers    *)
(* the folder its files go to; files are removed after some time.          *)
(*                                                                         *)
(* Paths are numbers.  A target of a link resolves to a path or to none:   *)
(* what is not a regular file, or lies in no allowed root.  A token of the *)
(* drive is a number; 0 is the drive's own root.                           *)
(***************************************************************************)
EXTENDS Integers, FiniteSets, Sequences, SequencesExt

CONSTANTS
  Jobs,       \* uploads: rewritings of a text, and downloads
  TextOf,     \* the links of a job's text; a download's has one
  Downloads,  \* those jobs that are downloads
  SizeOf,     \* the targets that resolve, with their size class
  Viewers,    \* whom a file is shared with: the user, then the chat
  Retention,  \* age at which an artifact is removed
  MaxDays,    \* bounds: time, failed requests, restarts, folders of the stores
  MaxFaults, MaxReboots, MaxRoots

\* A text that is rewritten has a link, and a download is one link.
ASSUME FilesAssumption ==
  /\ \A j \in Jobs : /\ TextOf[j] \in Seq([label : STRING, target : Int])
                     /\ TextOf[j] # <<>>
  /\ Downloads \subseteq Jobs /\ \A j \in Downloads : Len(TextOf[j]) = 1
  /\ Viewers \in Seq(STRING)
  /\ Retention \in Nat /\ MaxDays \in Nat

VARIABLES
  today,   \* the clock
  nodes,   \* the drive: its folders and files
  tokens,  \* tokens given out
  root,    \* per store: the folder it remembers, or 0
  keeper,  \* per store: the job (or "gc") that holds its lock
  stage, at,  \* per job: its step, and the number of its link
  work,    \* per job: the folder and the file it makes
  memo,    \* per job: rewrittenTargets
  out,     \* per job: the links of its result
  errs,    \* per job: a link failed
  form,    \* per download: the status of its form
  card,    \* per download: what its card shows
  gone,    \* tokens removed from outside
  faults, reboots

filesVars == <<today, nodes, tokens, root, keeper, stage, at, work, memo, out, errs, form,
               card, gone, faults, reboots>>

Stores == {"links", "files"}
StoreOf(j) == IF j \in Downloads THEN "files" ELSE "links"
NoLink == [label |-> 0, to |-> 0, at |-> 0]
NoWork == [folder |-> 0, file |-> 0, left |-> <<>>]
FolderNode == [kind |-> "folder", parent |-> 0, at |-> 0, path |-> 0, for |-> {}]

-----------------------------------------------------------------------------
FilesInit ==
  /\ today = 0 /\ nodes = [t \in {} |-> FolderNode] /\ tokens = 0
  /\ root = [s \in Stores |-> 0] /\ keeper = [s \in Stores |-> "none"]
  /\ stage = [j \in Jobs |-> "idle"] /\ at = [j \in Jobs |-> 1]
  /\ work = [j \in Jobs |-> NoWork]
  /\ memo = [j \in Jobs |-> [t \in {} |-> NoLink]]
  /\ out = [j \in Jobs |-> <<>>] /\ errs = [j \in Jobs |-> FALSE]
  /\ form = [j \in Downloads |-> "none"] /\ card = [j \in Downloads |-> "none"]
  /\ gone = {} /\ faults = 0 /\ reboots = 0

Link(j) == TextOf[j][at[j]]
\* resolvePreviewPath: the target is a regular file in an allowed root.
Resolves(target) == target \in DOMAIN SizeOf
Add(t, node) == [x \in DOMAIN nodes \cup {t} |-> IF x = t THEN node ELSE nodes[x]]
Minus(ts) == [x \in DOMAIN nodes \ ts |-> nodes[x]]

\* listRootFoldersLocked: the folders of the store's name, the newest first.
Roots == {t \in DOMAIN nodes : nodes[t].kind = "folder" /\ nodes[t].parent = 0}
Newest == {t \in Roots : \A u \in Roots : u <= t}

\* ensurePreviewPermissions: one grant at a time.
\* Mutant: the chat is left out.
GranteesUser == SubSeq(Viewers, 1, 1)
Grantees == Viewers

\* OpenForm of a download, and the picker's card.
OpenDownload(j) ==
  /\ j \in Downloads /\ form[j] = "none"
  /\ form' = [form EXCEPT ![j] = "pending"] /\ card' = [card EXCEPT ![j] = "picker"]
  /\ UNCHANGED <<today, nodes, tokens, root, keeper, stage, at, work, memo, out, errs,
                 gone, faults, reboots>>

\* Confirm: the form is taken and a worker runs, unless the frontend shuts
\* down.
Confirm(j) ==
  /\ j \in Downloads /\ form[j] = "pending" /\ stage[j] = "idle"
  /\ \/ /\ form' = [form EXCEPT ![j] = "processing"]
        /\ card' = [card EXCEPT ![j] = "preparing"]
        /\ stage' = [stage EXCEPT ![j] = "claim"]
        /\ UNCHANGED faults
     \/ faults < MaxFaults /\ faults' = faults + 1 /\ UNCHANGED <<form, card, stage>>
  /\ UNCHANGED <<today, nodes, tokens, root, keeper, at, work, memo, out, errs,
                 gone, reboots>>

\* path_picker.cancel: any form that is not closed.
CancelDownload(j) ==
  /\ j \in Downloads /\ form[j] \in {"pending", "processing", "sharing"}
  /\ form' = [form EXCEPT ![j] = "resolved"] /\ card' = [card EXCEPT ![j] = "cancelled"]
  /\ UNCHANGED <<today, nodes, tokens, root, keeper, stage, at, work, memo, out, errs,
                 gone, faults, reboots>>

\* Execute: a worker whose form is no longer processing ends.
Claim(j) ==
  /\ stage[j] = "claim"
  /\ IF form[j] = "processing"
       THEN form' = [form EXCEPT ![j] = "sharing"] /\ stage' = [stage EXCEPT ![j] = "link"]
       ELSE form' = form /\ stage' = [stage EXCEPT ![j] = "idle"]
  /\ UNCHANGED <<today, nodes, tokens, root, keeper, at, work, memo, out, errs,
                 card, gone, faults, reboots>>

\* localFileLinkPatcher.Schedule, when a final card was delivered.
ScheduleLinks(j) ==
  /\ j \in Jobs \ Downloads /\ stage[j] = "idle" /\ out[j] = <<>>
  /\ stage' = [stage EXCEPT ![j] = "link"]
  /\ UNCHANGED <<today, nodes, tokens, root, keeper, at, work, memo, out, errs,
                 form, card, gone, faults, reboots>>

\* One link of the text is settled.  What a target became is remembered with
\* the label of its first link; a failure is not.
Settle(j, link, remember) ==
  /\ out' = [out EXCEPT ![j] = Append(@, link)]
  /\ memo' = IF remember
       THEN [memo EXCEPT ![j] =
              [t \in DOMAIN @ \cup {Link(j).target} |->
                 IF t = Link(j).target THEN link ELSE @[t]]]
       ELSE memo
  /\ stage' = [stage EXCEPT ![j] = IF at[j] = Len(TextOf[j]) THEN "finish" ELSE "link"]
  /\ at' = [at EXCEPT ![j] = IF @ = Len(TextOf[j]) THEN @ ELSE @ + 1]

\* RewriteText, per link: a target already seen, one that resolves to no file
\* (resolvePreviewPath), an empty file, or one to upload.
NextLink(j) ==
  LET target == Link(j).target
      seen == target \in DOMAIN memo[j]
      refused == Resolves(target) /\ SizeOf[target] # "regular"
  IN  /\ stage[j] = "link"
      /\ \/ seen /\ Settle(j, memo[j][target], FALSE) /\ UNCHANGED errs
         \/ /\ ~seen /\ ~Resolves(target)
            /\ Settle(j, [NoLink EXCEPT !.label = Link(j).label], TRUE)
            /\ UNCHANGED errs
         \/ /\ ~seen /\ refused
            /\ Settle(j, [NoLink EXCEPT !.label = Link(j).label], FALSE)
            /\ errs' = [errs EXCEPT ![j] = TRUE]
         \/ /\ ~seen /\ Resolves(target) /\ ~refused
            /\ stage' = [stage EXCEPT ![j] = "lock"] /\ UNCHANGED <<out, memo, at, errs>>
      /\ UNCHANGED <<today, nodes, tokens, root, keeper, work, form, card, gone,
                     faults, reboots>>

\* UploadLocalFile: under the store's lock from here on.
TakeStore(j) ==
  /\ stage[j] = "lock" /\ keeper[StoreOf(j)] = "none"
  /\ keeper' = [keeper EXCEPT ![StoreOf(j)] = j]
  /\ stage' = [stage EXCEPT ![j] = "root"]
  /\ UNCHANGED <<today, nodes, tokens, root, at, work, memo, out, errs, form, card,
                 gone, faults, reboots>>

\* ensureRootFolderLocked: the remembered folder, the newest of the drive, or
\* a new one.
EnsureRoot(j) ==
  LET s == StoreOf(j)
  IN  /\ stage[j] = "root"
      /\ IF root[s] # 0 THEN stage' = [stage EXCEPT ![j] = "folder"] /\ UNCHANGED root
         ELSE IF Roots # {} THEN /\ \E t \in Newest : root' = [root EXCEPT ![s] = t]
                                 /\ stage' = [stage EXCEPT ![j] = "folder"]
         ELSE stage' = [stage EXCEPT ![j] = "newroot"] /\ UNCHANGED root
      /\ UNCHANGED <<today, nodes, tokens, keeper, at, work, memo, out, errs, form,
                     card, gone, faults, reboots>>
CreateRoot(j) ==
  /\ stage[j] = "newroot" /\ Cardinality(Roots) < MaxRoots
  /\ tokens' = tokens + 1
  /\ nodes' = Add(tokens', [FolderNode EXCEPT !.at = today])
  /\ root' = [root EXCEPT ![StoreOf(j)] = tokens']
  /\ stage' = [stage EXCEPT ![j] = "folder"]
  /\ UNCHANGED <<today, keeper, at, work, memo, out, errs, form, card, gone, faults,
                 reboots>>

\* The artifact's own folder, in the store's.
CreateFolder(j) ==
  /\ stage[j] = "folder" /\ root[StoreOf(j)] \in DOMAIN nodes
  /\ tokens' = tokens + 1
  /\ nodes' = Add(tokens', [FolderNode EXCEPT !.at = today, !.parent = root[StoreOf(j)]])
  /\ work' = [work EXCEPT ![j] = [NoWork EXCEPT !.folder = tokens']]
  /\ stage' = [stage EXCEPT ![j] = "upload"]
  /\ UNCHANGED <<today, root, keeper, at, memo, out, errs, form, card, gone, faults,
                 reboots>>

\* UploadFile, with its parts.
UploadFile(j) ==
  /\ stage[j] = "upload" /\ work[j].folder \in DOMAIN nodes
  /\ tokens' = tokens + 1
  /\ nodes' = Add(tokens', [kind |-> "file", parent |-> work[j].folder, at |-> today,
                            path |-> Link(j).target, for |-> {}])
  /\ work' = [work EXCEPT ![j].file = tokens', ![j].left = Grantees]
  /\ stage' = [stage EXCEPT ![j] = "grant"]
  /\ UNCHANGED <<today, root, keeper, at, memo, out, errs, form, card, gone, faults,
                 reboots>>

\* QueryMetaURL, then one grant after the other.
Grant(j) ==
  /\ stage[j] = "grant" /\ work[j].left # <<>> /\ work[j].file \in DOMAIN nodes
  /\ nodes' = [nodes EXCEPT ![work[j].file].for = @ \cup {Head(work[j].left)}]
  /\ work' = [work EXCEPT ![j].left = Tail(@)]
  /\ UNCHANGED <<today, tokens, root, keeper, stage, at, memo, out, errs, form, card,
                 gone, faults, reboots>>

FreeStore(j) == keeper' = [keeper EXCEPT ![StoreOf(j)] = "none"]
Uploaded(j) ==
  /\ stage[j] = "grant" /\ work[j].left = <<>> /\ work[j].file \in DOMAIN nodes
  /\ Settle(j, [label |-> "path", to |-> work[j].file,
                at |-> nodes[work[j].folder].at], TRUE)
  /\ FreeStore(j)
  /\ UNCHANGED <<today, nodes, tokens, root, work, errs, form, card, gone, faults,
                 reboots>>

\* A request fails, or the folder it names is gone: the link stays as it was.
UploadFails(j) ==
  /\ stage[j] \in {"root", "newroot", "folder", "upload", "grant"}
  /\ IF \/ stage[j] = "folder" /\ root[StoreOf(j)] \notin DOMAIN nodes
        \/ stage[j] = "upload" /\ work[j].folder \notin DOMAIN nodes
        \/ stage[j] = "grant" /\ work[j].file \notin DOMAIN nodes
       THEN UNCHANGED faults
       ELSE faults < MaxFaults /\ faults' = faults + 1
  /\ Settle(j, [NoLink EXCEPT !.label = Link(j).label], FALSE)
  /\ errs' = [errs EXCEPT ![j] = TRUE]
  /\ FreeStore(j)
  /\ UNCHANGED <<today, nodes, tokens, root, work, form, card, gone, reboots>>

\* The rewritten text reaches the card; or finish of a download and its card:
\* a failed one may be confirmed again, a form closed meanwhile shows its
\* picker again.
Finish(j) ==
  /\ stage[j] = "finish"
  /\ IF j \notin Downloads
       THEN /\ stage' = [stage EXCEPT ![j] = "done"]
            /\ UNCHANGED <<form, card, out, errs>>
     ELSE IF form[j] = "sharing" /\ ~errs[j]
       THEN /\ form' = [form EXCEPT ![j] = "resolved"] /\ card' = [card EXCEPT ![j] = "ready"]
            /\ stage' = [stage EXCEPT ![j] = "done"]
            /\ UNCHANGED <<out, errs>>
     ELSE /\ form' = [form EXCEPT ![j] = IF @ = "sharing" THEN "pending" ELSE @]
          /\ card' = [card EXCEPT ![j] = "picker"]
          /\ stage' = [stage EXCEPT ![j] = "idle"]
          /\ out' = [out EXCEPT ![j] = <<>>] /\ errs' = [errs EXCEPT ![j] = FALSE]
  /\ work' = [work EXCEPT ![j] = NoWork]
  /\ memo' = [memo EXCEPT ![j] = [t \in {} |-> NoLink]]
  /\ UNCHANGED <<today, nodes, tokens, root, keeper, at, gone, faults, reboots>>

\* CleanupBefore of the downloads' store: the folders in its root that are too
\* old, with their files.
\* Mutant: everything in it.
ExpiredAll(r) == {t \in DOMAIN nodes : nodes[t].parent = r /\ nodes[t].kind = "folder"}
Expired(r) == {t \in DOMAIN nodes : nodes[t].parent = r /\ nodes[t].kind = "folder"
                                     /\ nodes[t].at < today - Retention}
RunDriveArtifactGC ==
  \E r \in IF root["files"] # 0 THEN {root["files"]} ELSE IF Roots # {} THEN Newest ELSE {0} :
    \E old \in SUBSET (IF r = 0 THEN {} ELSE Expired(r)) :
      /\ keeper["files"] = "none"
      \* It stops at the first folder that cannot be deleted.
      /\ IF r # 0 /\ old # Expired(r) THEN faults < MaxFaults /\ faults' = faults + 1
           ELSE UNCHANGED faults
      /\ root' = [root EXCEPT !["files"] = r]
      /\ nodes' = Minus(old \cup {t \in DOMAIN nodes : nodes[t].parent \in old})
      /\ UNCHANGED <<today, tokens, keeper, stage, at, work, memo, out, errs, form, card,
                     gone, reboots>>

\* Somebody deletes a folder of the drive.
RemovedOutside(t) ==
  LET below == {t} \cup {x \in DOMAIN nodes : nodes[x].parent = t}
      all == below \cup {x \in DOMAIN nodes : nodes[x].parent \in below}
  IN  /\ t \in Roots /\ faults < MaxFaults /\ faults' = faults + 1
      /\ nodes' = Minus(all) /\ gone' = gone \cup all
      /\ UNCHANGED <<today, tokens, root, keeper, stage, at, work, memo, out, errs,
                     form, card, reboots>>

\* The daemon reboots: work is lost, and what the stores remember.
Restart ==
  /\ reboots < MaxReboots /\ reboots' = reboots + 1
  /\ root' = [s \in Stores |-> 0] /\ keeper' = [s \in Stores |-> "none"]
  /\ stage' = [j \in Jobs |-> IF stage[j] \in {"idle", "done"} THEN stage[j] ELSE "lost"]
  /\ UNCHANGED <<today, nodes, tokens, at, work, memo, out, errs, form, card, gone,
                 faults>>

DayPasses ==
  /\ today < MaxDays /\ today' = today + 1
  /\ UNCHANGED <<nodes, tokens, root, keeper, stage, at, work, memo, out, errs, form,
                 card, gone, faults, reboots>>

FilesNext ==
  \/ \E j \in Downloads : OpenDownload(j) \/ Confirm(j) \/ CancelDownload(j)
  \/ \E j \in Jobs : \/ Claim(j) \/ ScheduleLinks(j) \/ NextLink(j) \/ TakeStore(j) \/ EnsureRoot(j)
                     \/ CreateRoot(j) \/ CreateFolder(j) \/ UploadFile(j) \/ Grant(j)
                     \/ Uploaded(j) \/ UploadFails(j) \/ Finish(j)
  \/ RunDriveArtifactGC
  \/ \E t \in DOMAIN nodes : RemovedOutside(t)
  \/ Restart \/ DayPasses

FilesSpec == FilesInit /\ [][FilesNext]_filesVars

-----------------------------------------------------------------------------
\* Every field of the state has its type, and the locks have one keeper each.
FilesTypeOK ==
  /\ form \in [Downloads -> {"none", "pending", "processing", "sharing", "resolved"}]
  /\ \A s \in Stores : keeper[s] \in Jobs \cup {"none"}
  /\ root \in [Stores -> 0 .. tokens]

\* A link that a finished job put in a card leads to the file it named, which
\* everybody who sees the card may open, until its time is over or somebody
\* removes it: whatever other job fails, runs at the same time in the other
\* store or was cut off by a restart.
LinksReadable ==
  \A j \in Jobs : stage[j] = "done" =>
    \A n \in DOMAIN out[j] :
      LET t == out[j][n].to
      IN  t # 0 /\ t \notin gone =>
            \/ /\ t \in DOMAIN nodes
               /\ nodes[t].path = TextOf[j][n].target
               /\ nodes[t].for = ToSet(Viewers)
            \/ t \notin DOMAIN nodes /\ out[j][n].at < today - Retention

\* "local files of the workspace that a final message refers to become links to
\* the drive" (docs/usage.md:331): a link to anything else stays as it is.
OtherLinksKept ==
  \A j \in Jobs : stage[j] = "done" =>
    \A n \in DOMAIN out[j] : out[j][n].to = 0 => out[j][n].label = TextOf[j][n].label
=============================================================================
