--------------------------- MODULE WritersProofs ---------------------------
(***************************************************************************)
(* Theorems about the parts that several processes write at once: exports  *)
(* leave whole files, repairs of anchors obey the row, and the rows of a   *)
(* benchmark run are those of its import.                                  *)
(*                                                                         *)
(* Each part has an inductive invariant of its own, a lemma per action,    *)
(* and a theorem about Spec, in which that part moves and the others stand *)
(* still.                                                                  *)
(***************************************************************************)
EXTENDS PartsProofs, SequenceTheorems

-----------------------------------------------------------------------------
(* Exports: which file is whose, who writes where, and that the rest is whole. *)

LEMMA ExportsMove ==
  /\ Init => (part = "exports" => Exports!Init)
  /\ [Next]_vars => part' = part /\ (part = "exports" => [Exports!Next]_exportsVars)
  BY DEF Init, Next, vars, exportsVars

Jobs == [at : Exports!Places, inPlace : BOOLEAN, matched : SUBSET {1, 2}, temp : Nat]
Shells == [fds : SUBSET {1, 2}, inode : {0, 1}]

\* A writer in place is on the first file, and knows the descriptors it shares it with.
InPlaceJob(j, sh) ==
  j.inPlace =>
    /\ j.at \notin {"temp", "written"}
    /\ j.at = "through" => j.temp = 1
    /\ j.at \in {"through", "report"} /\ sh.inode = 1 => sh.fds \subseteq j.matched

\* A writer that replaces has a file of its own, which is not the destination yet;
\* and its own output does not go there.
TempJob(j, sh, nd, d, fs) ==
  ~j.inPlace =>
    /\ j.at # "through"
    /\ j.at \in {"temp", "written"} => j.temp # 0 /\ nd = "plain"
    /\ j.temp # 0 =>
         /\ j.at \in {"temp", "written", "killed"}
         /\ j.temp \in 2 .. Len(fs) /\ j.temp # d
         /\ j.at = "written" => fs[j.temp].whole
    /\ j.at \in {"temp", "written", "report"} /\ sh.inode = 1 => d # 1

\* Two jobs have two files.
Apart(j, k) == ~j.inPlace /\ ~k.inPlace /\ j.temp # 0 => j.temp # k.temp

\* No confirmation is in any file but one that was the destination once.
Clean(d, fs) == \A i \in DOMAIN fs : i # 1 \/ d = 1 => ~fs[i].noise

Whole(file, jobs) == file.whole \/ (file.by \in Writers /\ jobs[file.by].inPlace)

ExportsTypes ==
  /\ files \in Seq(Exports!Files) /\ Len(files) # 0
  /\ dest \in 0 .. Len(files)
  /\ job \in [Writers -> Jobs]
  /\ shell \in [Writers -> Shells]

ExportsInv ==
  /\ ExportsTypes
  /\ node = "stream" => dest = 1
  /\ \A w \in Writers : shell[w].inode = 1 => shell[w].fds # {}
  /\ Clean(dest, files)
  /\ dest # 0 => Whole(files[dest], job)
  /\ \A w \in Writers : InPlaceJob(job[w], shell[w]) /\ TempJob(job[w], shell[w], node, dest, files)
  /\ \A v, w \in Writers : v # w => Apart(job[v], job[w])

LEMMA FilesAreAFunction ==
  ASSUME ExportsTypes
  PROVE  /\ Len(files) \in Nat \ {0} /\ DOMAIN files = 1 .. Len(files)
         /\ \A i \in DOMAIN files : files[i] \in Exports!Files
  BY DEF ExportsTypes

\* One file is written.
LEMMA Rewritten ==
  ASSUME ExportsTypes, NEW t \in DOMAIN files, NEW file \in Exports!Files,
         files' = [files EXCEPT ![t] = file]
  PROVE  /\ files' \in Seq(Exports!Files) /\ Len(files') = Len(files) /\ DOMAIN files' = DOMAIN files
         /\ files'[t] = file /\ \A i \in DOMAIN files : i # t => files'[i] = files[i]
  BY FilesAreAFunction DEF ExportsTypes

\* A job stands as it did when no file that was whole is not.
LEMMA SameTemp ==
  ASSUME NEW j, NEW sh, NEW nd, NEW d, NEW fs, NEW gs, TempJob(j, sh, nd, d, fs),
         2 .. Len(fs) \subseteq 2 .. Len(gs), \A i \in 2 .. Len(fs) : fs[i].whole => gs[i].whole
  PROVE  TempJob(j, sh, nd, d, gs)
  BY Zenon DEF TempJob

\* In place is on the first file.
LEMMA InPlaceIsFirst ==
  ASSUME ExportsInv, NEW w \in Writers, Exports!InPlace(w)
  PROVE  dest = 1
  BY DEF ExportsInv, ExportsTypes, Exports!InPlace, Exports!MatchedFds, Shells

\* One writer's job changes, and no file and no destination.
LEMMA JobStep ==
  ASSUME ExportsInv, NEW w \in Writers, NEW j \in Jobs,
         job' = [job EXCEPT ![w] = j], j.inPlace = job[w].inPlace,
         UNCHANGED <<node, dest, files, shell>>,
         j.temp = 0 \/ j.temp = job[w].temp,
         InPlaceJob(j, shell[w]), TempJob(j, shell[w], node, dest, files)
  PROVE  ExportsInv'
  <1>1. job' \in [Writers -> Jobs] /\ job'[w] = j /\ \A v \in Writers : v # w => job'[v] = job[v]
    BY DEF ExportsInv, ExportsTypes
  <1>2. ExportsTypes'
    BY <1>1 DEF ExportsInv, ExportsTypes
  <1>3. dest # 0 => Whole(files[dest], job)'
    BY <1>1 DEF ExportsInv, Whole
  <1>4. \A v \in Writers : InPlaceJob(job'[v], shell[v]) /\ TempJob(job'[v], shell[v], node, dest, files)
    BY <1>1 DEF ExportsInv
  <1>5. \A u, v \in Writers : u # v => Apart(job'[u], job'[v])
    BY <1>1 DEF ExportsInv, Apart
  <1>6. /\ (node = "stream" => dest = 1) /\ Clean(dest, files)
        /\ \A v \in Writers : shell[v].inode = 1 => shell[v].fds # {}
    BY DEF ExportsInv
  <1> HIDE DEF InPlaceJob, TempJob, Apart, Clean
  <1> QED BY <1>2, <1>3, <1>4, <1>5, <1>6 DEF ExportsInv

\* The call ends with an error.
LEMMA FailStep ==
  ASSUME ExportsInv, NEW w \in Writers, Exports!Fail(w), UNCHANGED <<node, dest, files, shell>>
  PROVE  ExportsInv'
  <1> DEFINE j == [job[w] EXCEPT !.at = "failed", !.temp = 0]
  <1>1. job[w] \in Jobs
    BY DEF ExportsInv, ExportsTypes
  <1>2. /\ j \in Jobs /\ j.inPlace = job[w].inPlace /\ j.temp = 0 /\ j.at = "failed"
    BY <1>1 DEF Jobs, Exports!Places
  <1>3. job' = [job EXCEPT ![w] = j]
    BY <1>1 DEF Exports!Fail, ExportsInv, ExportsTypes
  <1> HIDE DEF j
  <1>4. InPlaceJob(j, shell[w]) /\ TempJob(j, shell[w], node, dest, files)
    BY <1>2 DEF InPlaceJob, TempJob
  <1> QED BY <1>2, <1>3, <1>4, JobStep

LEMMA ExportRefuseStep ==
  ASSUME ExportsInv, NEW w \in Writers, Exports!Refuse(w)
  PROVE  ExportsInv'
  BY FailStep DEF Exports!Refuse

\* open(path, "w"): the writer is on the first file, with the descriptors it found.
LEMMA OpenInPlaceStep ==
  ASSUME ExportsInv, NEW w \in Writers, Exports!OpenInPlace(w)
  PROVE  ExportsInv'
  <1>1. dest = 1 /\ Exports!InPlace(w)
    BY InPlaceIsFirst DEF Exports!OpenInPlace
  <1>2. job[w] = Exports!Idle /\ UNCHANGED <<node, dest, shell>>
    BY DEF Exports!OpenInPlace
  <1>3. PICK matched \in {Exports!MatchedFds(w)} \cup (IF node = "stream" THEN {{1, 2}} ELSE {}) :
          job' = [job EXCEPT ![w] = [at |-> "through", inPlace |-> TRUE, matched |-> matched, temp |-> dest]]
    BY DEF Exports!OpenInPlace
  <1> DEFINE j == [at |-> "through", inPlace |-> TRUE, matched |-> matched, temp |-> dest]
             file == Exports!File(w, FALSE)
  <1>4. shell[w] \in Shells
    BY DEF ExportsInv, ExportsTypes
  <1>5. matched \in SUBSET {1, 2} /\ (shell[w].inode = 1 => shell[w].fds \subseteq matched)
    BY <1>1, <1>3, <1>4 DEF Exports!MatchedFds, Shells
  <1>6. j \in Jobs /\ j.inPlace /\ j.at = "through" /\ j.temp = 1 /\ j.matched = matched
    BY <1>1, <1>5 DEF Jobs, Exports!Places
  <1>7. job' \in [Writers -> Jobs] /\ job'[w] = j /\ \A v \in Writers : v # w => job'[v] = job[v]
    BY <1>3, <1>6 DEF ExportsInv, ExportsTypes
  <1>8. file \in Exports!Files /\ file.by = w /\ ~file.noise
    BY DEF Exports!File, Exports!Files
  <1>9. files' = [files EXCEPT ![1] = file]
    BY <1>1 DEF Exports!OpenInPlace
  <1> HIDE DEF j, file
  <1>10. /\ files' \in Seq(Exports!Files) /\ Len(files') = Len(files) /\ DOMAIN files' = DOMAIN files
         /\ files'[1] = file /\ \A i \in DOMAIN files : i # 1 => files'[i] = files[i]
    <2>1. 1 \in DOMAIN files
      BY FilesAreAFunction DEF ExportsInv
    <2>2. ExportsTypes
      BY DEF ExportsInv
    <2> QED BY <1>8, <1>9, <2>1, <2>2, Rewritten
  <1>11. ExportsTypes'
    BY <1>2, <1>7, <1>10 DEF ExportsInv, ExportsTypes
  <1>12. Clean(dest, files)'
    BY <1>2, <1>8, <1>10 DEF ExportsInv, Clean
  <1>13. Whole(files'[dest'], job')
    BY <1>1, <1>2, <1>6, <1>7, <1>8, <1>10 DEF Whole
  <1>14. InPlaceJob(j, shell[w]) /\ TempJob(j, shell[w], node, dest, files')
    BY <1>5, <1>6 DEF InPlaceJob, TempJob
  <1>15. ASSUME NEW v \in Writers, v # w
         PROVE  InPlaceJob(job'[v], shell[v]) /\ TempJob(job'[v], shell[v], node, dest, files')
    <2>1. /\ InPlaceJob(job[v], shell[v]) /\ TempJob(job[v], shell[v], node, dest, files)
          /\ job[v] \in Jobs
      BY DEF ExportsInv, ExportsTypes
    <2>2. job'[v] = job[v]
      BY <1>7, <1>15
    <2>3. \A i \in 2 .. Len(files) : files'[i] = files[i]
      BY <1>10, FilesAreAFunction DEF ExportsInv
    <2> QED BY <1>10, <2>1, <2>2, <2>3 DEF TempJob, Jobs
  <1>16. \A u, v \in Writers : u # v => Apart(job'[u], job'[v])
    BY <1>6, <1>7 DEF ExportsInv, Apart
  <1>17. \A v \in Writers : InPlaceJob(job'[v], shell'[v]) /\ TempJob(job'[v], shell'[v], node', dest', files')
    BY <1>2, <1>7, <1>14, <1>15
  <1>18. (node' = "stream" => dest' = 1) /\ \A v \in Writers : shell'[v].inode = 1 => shell'[v].fds # {}
    BY <1>2 DEF ExportsInv
  <1> HIDE DEF InPlaceJob, TempJob, Apart, Whole
  <1> QED BY <1>11, <1>12, <1>13, <1>16, <1>17, <1>18 DEF ExportsInv

\* A file is written to the end by the writer whose file it is, or that went
\* through the first one.
LEMMA WrittenStep ==
  ASSUME ExportsInv, NEW w \in Writers, NEW j \in Jobs, NEW t \in DOMAIN files,
         t = job[w].temp, job' = [job EXCEPT ![w] = j], j.inPlace = job[w].inPlace,
         files' = [files EXCEPT ![t] = Exports!File(w, TRUE)],
         UNCHANGED <<node, dest, shell>>,
         j.temp = 0 \/ j.temp = t,
         InPlaceJob(j, shell[w]), TempJob(j, shell[w], node, dest, files')
  PROVE  ExportsInv'
  <1> DEFINE file == Exports!File(w, TRUE)
  <1>1. job' \in [Writers -> Jobs] /\ job'[w] = j /\ \A v \in Writers : v # w => job'[v] = job[v]
    BY DEF ExportsInv, ExportsTypes
  <1>2. file \in Exports!Files /\ file.whole /\ ~file.noise
    BY DEF Exports!File, Exports!Files
  <1> HIDE DEF file
  <1>3. /\ files' \in Seq(Exports!Files) /\ Len(files') = Len(files) /\ DOMAIN files' = DOMAIN files
        /\ files'[t] = file /\ \A i \in DOMAIN files : i # t => files'[i] = files[i]
    <2>1. files' = [files EXCEPT ![t] = file]
      BY DEF file
    <2>2. ExportsTypes
      BY DEF ExportsInv
    <2> QED BY <1>2, <2>1, <2>2, Rewritten
  <1>4. ExportsTypes'
    BY <1>1, <1>3 DEF ExportsInv, ExportsTypes
  <1>5. Clean(dest, files)'
    BY <1>2, <1>3 DEF ExportsInv, Clean
  <1>6. dest # 0 => Whole(files'[dest], job')
    <2>1. CASE dest = t
      BY <1>2, <1>3, <2>1 DEF Whole
    <2>2. ASSUME dest # t, dest # 0 PROVE Whole(files'[dest], job')
      <3>1. Whole(files[dest], job) /\ files'[dest] = files[dest]
        BY <1>3, <2>2, FilesAreAFunction DEF ExportsInv, ExportsTypes
      <3>2. \A v \in Writers : job'[v].inPlace = job[v].inPlace
        BY <1>1
      <3> QED BY <3>1, <3>2 DEF Whole
    <2> QED BY <2>1, <2>2
  <1>7. ASSUME NEW v \in Writers, v # w
        PROVE  InPlaceJob(job'[v], shell[v]) /\ TempJob(job'[v], shell[v], node, dest, files')
    <2>1. /\ InPlaceJob(job[v], shell[v]) /\ TempJob(job[v], shell[v], node, dest, files)
          /\ job[v] \in Jobs /\ job'[v] = job[v]
      BY <1>1, <1>7 DEF ExportsInv, ExportsTypes
    <2>2. \A i \in DOMAIN files : files[i].whole => files'[i].whole
      BY <1>2, <1>3
    <2>3. 2 .. Len(files) \subseteq DOMAIN files
      BY FilesAreAFunction DEF ExportsInv
    <2>4. \A i \in 2 .. Len(files) : files[i].whole => files'[i].whole
      BY <2>2, <2>3, Zenon
    <2>5. TempJob(job[v], shell[v], node, dest, files')
      BY <1>3, <2>1, <2>4, SameTemp, Zenon
    <2> QED BY <2>1, <2>5
  <1>8. \A u, v \in Writers : u # v => Apart(job'[u], job'[v])
    BY <1>1 DEF ExportsInv, Apart
  <1>9. \A v \in Writers : InPlaceJob(job'[v], shell'[v]) /\ TempJob(job'[v], shell'[v], node', dest', files')
    BY <1>1, <1>7
  <1>10. (node' = "stream" => dest' = 1) /\ \A v \in Writers : shell'[v].inode = 1 => shell'[v].fds # {}
    BY DEF ExportsInv
  <1>11. dest' = dest
    OBVIOUS
  <1> HIDE DEF InPlaceJob, TempJob, Apart, Whole
  <1> QED BY <1>4, <1>5, <1>6, <1>8, <1>9, <1>10, <1>11 DEF ExportsInv

LEMMA WriteThroughStep ==
  ASSUME ExportsInv, NEW w \in Writers, Exports!WriteThrough(w)
  PROVE  ExportsInv'
  <1>1. job[w] \in Jobs /\ job[w].at = "through"
    BY DEF Exports!WriteThrough, ExportsInv, ExportsTypes
  <1>2. job[w].inPlace /\ job[w].temp = 1 /\ InPlaceJob(job[w], shell[w])
    BY <1>1 DEF ExportsInv, InPlaceJob, TempJob, Jobs
  <1>3. CASE /\ files' = [files EXCEPT ![job[w].temp] = Exports!File(w, TRUE)]
             /\ job' = [job EXCEPT ![w].at = "report", ![w].temp = 0]
    <2> DEFINE j == [job[w] EXCEPT !.at = "report", !.temp = 0]
    <2>1. /\ j \in Jobs /\ j.inPlace = job[w].inPlace /\ j.temp = 0 /\ j.at = "report"
          /\ j.matched = job[w].matched
      BY <1>1 DEF Jobs, Exports!Places
    <2>2. job' = [job EXCEPT ![w] = j]
      BY <1>1, <1>3 DEF ExportsInv, ExportsTypes
    <2> HIDE DEF j
    <2>3. InPlaceJob(j, shell[w]) /\ TempJob(j, shell[w], node, dest, files')
      BY <1>1, <1>2, <2>1 DEF InPlaceJob, TempJob
    <2>4. 1 \in DOMAIN files /\ UNCHANGED <<node, dest, shell>>
      BY FilesAreAFunction DEF ExportsInv, Exports!WriteThrough
    <2> QED BY <1>2, <1>3, <2>1, <2>2, <2>3, <2>4, WrittenStep
  <1>4. CASE Exports!Fail(w) /\ UNCHANGED files
    BY <1>4, FailStep DEF Exports!WriteThrough
  <1> QED BY <1>3, <1>4 DEF Exports!WriteThrough

LEMMA WriteTempStep ==
  ASSUME ExportsInv, NEW w \in Writers, Exports!WriteTemp(w)
  PROVE  ExportsInv'
  <1>1. job[w] \in Jobs /\ job[w].at = "temp"
    BY DEF Exports!WriteTemp, ExportsInv, ExportsTypes
  <1>2. ~job[w].inPlace /\ TempJob(job[w], shell[w], node, dest, files)
    BY <1>1 DEF ExportsInv, InPlaceJob
  <1>3. job[w].temp \in DOMAIN files
    BY <1>1, <1>2, FilesAreAFunction DEF ExportsInv, TempJob
  <1>4. CASE /\ files' = [files EXCEPT ![job[w].temp] = Exports!File(w, TRUE)]
             /\ job' = [job EXCEPT ![w].at = "written"]
    <2> DEFINE j == [job[w] EXCEPT !.at = "written"]
    <2>1. /\ j \in Jobs /\ j.inPlace = job[w].inPlace /\ j.temp = job[w].temp /\ j.at = "written"
      BY <1>1 DEF Jobs, Exports!Places
    <2>2. job' = [job EXCEPT ![w] = j]
      BY <1>1, <1>4 DEF ExportsInv, ExportsTypes
    <2> HIDE DEF j
    <2>3. Len(files') = Len(files) /\ files'[job[w].temp].whole
      BY <1>3, <1>4, FilesAreAFunction DEF ExportsInv, ExportsTypes, Exports!File
    <2>4. InPlaceJob(j, shell[w]) /\ TempJob(j, shell[w], node, dest, files')
      BY <1>1, <1>2, <2>1, <2>3 DEF InPlaceJob, TempJob
    <2>5. UNCHANGED <<node, dest, shell>>
      BY DEF Exports!WriteTemp
    <2> QED BY <1>3, <1>4, <2>1, <2>2, <2>4, <2>5, WrittenStep
  <1>5. CASE Exports!Fail(w) /\ UNCHANGED files
    BY <1>5, FailStep DEF Exports!WriteTemp
  <1> QED BY <1>4, <1>5 DEF Exports!WriteTemp

LEMMA MakeTempStep ==
  ASSUME ExportsInv, NEW w \in Writers, Exports!MakeTemp(w)
  PROVE  ExportsInv'
  <1> DEFINE n == Len(files) + 1
             j == [Exports!Idle EXCEPT !.at = "temp", !.temp = n]
             file == Exports!File(w, FALSE)
  <1>0. Len(files) \in Nat \ {0} /\ DOMAIN files = 1 .. Len(files)
    BY FilesAreAFunction DEF ExportsInv
  <1>1. /\ job[w] = Exports!Idle /\ ~Exports!InPlace(w) /\ node = "plain"
        /\ files' = Append(files, file) /\ job' = [job EXCEPT ![w] = j]
        /\ UNCHANGED <<node, dest, shell>>
    BY DEF Exports!MakeTemp, Exports!Replaceable
  <1>2. j \in Jobs /\ ~j.inPlace /\ j.at = "temp" /\ j.temp = n
    <2>1. n \in Nat
      BY <1>0
    <2>2. \A r \in Jobs, k \in Nat :
            LET made == [r EXCEPT !.at = "temp", !.temp = k] IN
            made \in Jobs /\ made.inPlace = r.inPlace /\ made.at = "temp" /\ made.temp = k
      BY DEF Jobs, Exports!Places
    <2>3. Exports!Idle \in Jobs /\ ~Exports!Idle.inPlace
      BY DEF Jobs, Exports!Places, Exports!Idle
    <2> HIDE DEF n
    <2> QED BY <2>1, <2>2, <2>3
  <1>3. file \in Exports!Files /\ ~file.noise
    BY DEF Exports!File, Exports!Files
  <1> HIDE DEF j, file
  <1>4. job' \in [Writers -> Jobs] /\ job'[w] = j /\ \A v \in Writers : v # w => job'[v] = job[v]
    BY <1>1, <1>2 DEF ExportsInv, ExportsTypes
  <1>5. /\ files' \in Seq(Exports!Files) /\ Len(files') = n /\ DOMAIN files' = 1 .. n
        /\ files'[n] = file /\ \A i \in DOMAIN files : files'[i] = files[i]
    BY <1>0, <1>1, <1>3 DEF ExportsInv, ExportsTypes
  <1>6. n \in Nat /\ n # 1 /\ n # 0 /\ n \notin DOMAIN files /\ dest # n /\ 1 .. n = DOMAIN files \cup {n}
    BY <1>0 DEF ExportsInv, ExportsTypes
  <1>7. ExportsTypes'
    BY <1>0, <1>1, <1>4, <1>5 DEF ExportsInv, ExportsTypes
  <1>8. Clean(dest, files)'
    BY <1>1, <1>3, <1>5, <1>6 DEF ExportsInv, Clean
  <1>9. dest # 0 => Whole(files'[dest], job')
    <2>1. \A v \in Writers : job[v].inPlace => job'[v].inPlace
      BY <1>1, <1>4 DEF Exports!Idle
    <2>2. dest # 0 => files'[dest] = files[dest]
      BY <1>0, <1>5 DEF ExportsInv, ExportsTypes
    <2> QED BY <2>1, <2>2 DEF ExportsInv, Whole
  <1>10. shell[w].inode = 1 => dest # 1
    BY <1>1 DEF Exports!InPlace, Exports!MatchedFds, ExportsInv
  <1>11. InPlaceJob(j, shell[w]) /\ TempJob(j, shell[w], node, dest, files')
    BY <1>0, <1>1, <1>2, <1>5, <1>6, <1>10 DEF InPlaceJob, TempJob
  <1>12. ASSUME NEW v \in Writers, v # w
         PROVE  InPlaceJob(job'[v], shell[v]) /\ TempJob(job'[v], shell[v], node, dest, files')
    <2>1. /\ InPlaceJob(job[v], shell[v]) /\ TempJob(job[v], shell[v], node, dest, files)
          /\ job'[v] = job[v]
      BY <1>4, <1>12 DEF ExportsInv
    <2>2. 2 .. Len(files) \subseteq 2 .. Len(files') /\ 2 .. Len(files) \subseteq DOMAIN files
      BY <1>0, <1>5
    <2>3. \A i \in 2 .. Len(files) : files[i].whole => files'[i].whole
      BY <1>5, <2>2, Zenon
    <2>4. TempJob(job[v], shell[v], node, dest, files')
      BY <2>1, <2>2, <2>3, SameTemp, Zenon
    <2> QED BY <2>1, <2>4
  <1>13. \A v \in Writers : v # w => Apart(job[v], j) /\ Apart(j, job[v])
    BY <1>0, <1>2, <1>6 DEF ExportsInv, Apart, TempJob
  <1>14. \A u, v \in Writers : u # v => Apart(job'[u], job'[v])
    BY <1>4, <1>13 DEF ExportsInv
  <1>15. \A v \in Writers : InPlaceJob(job'[v], shell'[v]) /\ TempJob(job'[v], shell'[v], node', dest', files')
    BY <1>1, <1>4, <1>11, <1>12
  <1>16. (node' = "stream" => dest' = 1) /\ \A v \in Writers : shell'[v].inode = 1 => shell'[v].fds # {}
    BY <1>1 DEF ExportsInv
  <1>17. dest' = dest
    BY <1>1
  <1> HIDE DEF InPlaceJob, TempJob, Apart, Whole
  <1> QED BY <1>7, <1>8, <1>9, <1>14, <1>15, <1>16, <1>17 DEF ExportsInv

\* The move, and the end of the claim of this writer to the file.
LEMMA ReplaceStep ==
  ASSUME ExportsInv, NEW w \in Writers, Exports!Replace(w)
  PROVE  ExportsInv'
  <1>1. job[w] \in Jobs /\ job[w].at = "written" /\ UNCHANGED <<node, files, shell>>
    BY DEF Exports!Replace, Exports!Moves, ExportsInv, ExportsTypes
  <1>2. ~job[w].inPlace /\ TempJob(job[w], shell[w], node, dest, files)
    BY <1>1 DEF ExportsInv, InPlaceJob
  <1> DEFINE t == job[w].temp
             j == [job[w] EXCEPT !.at = "report", !.temp = 0]
  <1>3. /\ t \in 2 .. Len(files) /\ t # 0 /\ t # 1 /\ files[t].whole /\ node = "plain"
        /\ t \in 0 .. Len(files)
    BY <1>1, <1>2, FilesAreAFunction DEF TempJob, ExportsInv
  <1>4. /\ j \in Jobs /\ j.inPlace = job[w].inPlace /\ j.temp = 0 /\ j.at = "report"
    BY <1>1 DEF Jobs, Exports!Places
  <1>5. CASE dest' = t /\ job' = [job EXCEPT ![w].at = "report", ![w].temp = 0]
    <2>1. job' = [job EXCEPT ![w] = j]
      BY <1>1, <1>5 DEF ExportsInv, ExportsTypes
    <2> HIDE DEF j, t
    <2>2. job' \in [Writers -> Jobs] /\ job'[w] = j /\ \A v \in Writers : v # w => job'[v] = job[v]
      BY <1>4, <2>1 DEF ExportsInv, ExportsTypes
    <2>3. ExportsTypes'
      BY <1>1, <1>3, <1>5, <2>2 DEF ExportsInv, ExportsTypes
    <2>4. Clean(dest', files)
      BY <1>3, <1>5 DEF ExportsInv, Clean
    <2>5. Whole(files[dest'], job')
      BY <1>3, <1>5 DEF Whole
    <2>6. InPlaceJob(j, shell[w]) /\ TempJob(j, shell[w], node, dest', files)
      BY <1>2, <1>3, <1>4, <1>5 DEF InPlaceJob, TempJob
    <2>7. ASSUME NEW v \in Writers, v # w
          PROVE  InPlaceJob(job'[v], shell[v]) /\ TempJob(job'[v], shell[v], node, dest', files)
      <3>1. /\ InPlaceJob(job[v], shell[v]) /\ TempJob(job[v], shell[v], node, dest, files)
            /\ job'[v] = job[v] /\ Apart(job[v], job[w])
        BY <2>2, <2>7 DEF ExportsInv
      <3>2. ~job[v].inPlace /\ job[v].temp # 0 => job[v].temp # t
        BY <1>2, <3>1 DEF Apart, t
      <3> QED BY <1>3, <1>5, <3>1, <3>2 DEF TempJob
    <2>8. \A u, v \in Writers : u # v => Apart(job'[u], job'[v])
      BY <1>3, <1>4, <2>2 DEF ExportsInv, Apart
    <2>9. \A v \in Writers : InPlaceJob(job'[v], shell'[v]) /\ TempJob(job'[v], shell'[v], node', dest', files')
      BY <1>1, <2>2, <2>6, <2>7
    <2>10. node' # "stream" /\ \A v \in Writers : shell'[v].inode = 1 => shell'[v].fds # {}
      BY <1>1, <1>3 DEF ExportsInv
    <2>11. files' = files
      BY <1>1
    <2> HIDE DEF InPlaceJob, TempJob, Apart, Whole
    <2> QED BY <2>3, <2>4, <2>5, <2>8, <2>9, <2>10, <2>11 DEF ExportsInv
  <1>6. CASE Exports!Fail(w) /\ UNCHANGED dest
    BY <1>1, <1>6, FailStep
  <1> QED BY <1>5, <1>6 DEF Exports!Replace

\* diagnostic_stream avoids what was matched.
LEMMA StreamAvoidsMatched ==
  ASSUME NEW w \in Writers
  PROVE  Exports!DiagnosticStream(w) \cap job[w].matched = {}
  BY DEF Exports!DiagnosticStream

LEMMA ReportStep ==
  ASSUME ExportsInv, NEW w \in Writers, Exports!Report(w)
  PROVE  ExportsInv'
  <1> DEFINE j == [job[w] EXCEPT !.at = "done"]
             noisy == Exports!DiagnosticStream(w) \cap shell[w].fds # {} /\ shell[w].inode # 0
  <1>1. /\ job[w] \in Jobs /\ job[w].at = "report" /\ UNCHANGED <<node, dest, shell>>
        /\ shell[w] \in Shells /\ InPlaceJob(job[w], shell[w])
        /\ TempJob(job[w], shell[w], node, dest, files)
    BY DEF Exports!Report, ExportsInv, ExportsTypes
  <1>2. /\ j \in Jobs /\ j.inPlace = job[w].inPlace /\ j.temp = job[w].temp /\ j.at = "done"
    BY <1>1 DEF Jobs, Exports!Places
  <1>3. job' = [job EXCEPT ![w] = j]
    BY <1>1 DEF Exports!Report, ExportsInv, ExportsTypes
  <1>4. files' = IF noisy THEN [files EXCEPT ![shell[w].inode].noise = TRUE] ELSE files
    BY DEF Exports!Report
  <1> HIDE DEF j
  <1>5. InPlaceJob(j, shell[w]) /\ TempJob(j, shell[w], node, dest, files)
    BY <1>1, <1>2 DEF InPlaceJob, TempJob
  <1>6. CASE ~noisy
    BY <1>1, <1>2, <1>3, <1>4, <1>5, <1>6, JobStep
  <1>7. CASE noisy
    <2>1. shell[w].inode = 1 /\ ~job[w].inPlace
      BY <1>1, <1>7, StreamAvoidsMatched DEF InPlaceJob, Shells
    <2>2. dest # 1
      BY <1>1, <2>1 DEF TempJob
    <2> DEFINE file == [files[1] EXCEPT !.noise = TRUE]
    <2>3. 1 \in DOMAIN files /\ files[1] \in Exports!Files
      BY FilesAreAFunction DEF ExportsInv
    <2>4. file \in Exports!Files
      BY <2>3 DEF Exports!Files
    <2>5. files' = [files EXCEPT ![1] = file]
      BY <1>4, <1>7, <2>1, <2>3 DEF ExportsInv, ExportsTypes
    <2> HIDE DEF file, noisy
    <2>6. /\ files' \in Seq(Exports!Files) /\ Len(files') = Len(files) /\ DOMAIN files' = DOMAIN files
          /\ \A i \in DOMAIN files : i # 1 => files'[i] = files[i]
      BY <2>3, <2>4, <2>5, Rewritten DEF ExportsInv
    <2>7. job' \in [Writers -> Jobs] /\ job'[w] = j /\ \A v \in Writers : v # w => job'[v] = job[v]
      BY <1>2, <1>3 DEF ExportsInv, ExportsTypes
    <2>8. ExportsTypes'
      BY <1>1, <2>6, <2>7 DEF ExportsInv, ExportsTypes
    <2>9. Clean(dest, files')
      BY <2>2, <2>6 DEF ExportsInv, Clean
    <2>10. dest # 0 => Whole(files'[dest], job')
      <3>1. dest # 0 => files'[dest] = files[dest]
        BY <2>2, <2>6, FilesAreAFunction DEF ExportsInv, ExportsTypes
      <3>2. \A v \in Writers : job[v].inPlace => job'[v].inPlace
        BY <1>2, <2>7
      <3> QED BY <3>1, <3>2 DEF ExportsInv, Whole
    <2>11. 2 .. Len(files) \subseteq 2 .. Len(files') /\ 2 .. Len(files) \subseteq DOMAIN files
           /\ 1 \notin 2 .. Len(files)
      BY <2>6, FilesAreAFunction DEF ExportsInv
    <2>12. \A i \in 2 .. Len(files) : files[i].whole => files'[i].whole
      BY <2>6, <2>11, Zenon
    <2>13. \A v \in Writers : InPlaceJob(job'[v], shell[v]) /\ TempJob(job'[v], shell[v], node, dest, files)
      BY <1>5, <2>7 DEF ExportsInv
    <2>14. \A v \in Writers : InPlaceJob(job'[v], shell[v]) /\ TempJob(job'[v], shell[v], node, dest, files')
      BY <2>11, <2>12, <2>13, SameTemp, Zenon
    <2>15. \A u, v \in Writers : u # v => Apart(job'[u], job'[v])
      BY <1>2, <2>7 DEF ExportsInv, Apart
    <2>16. (node = "stream" => dest = 1) /\ \A v \in Writers : shell[v].inode = 1 => shell[v].fds # {}
      BY DEF ExportsInv
    <2>17. node' = node /\ dest' = dest /\ shell' = shell
      BY <1>1
    <2> HIDE DEF InPlaceJob, TempJob, Apart, Whole
    <2> QED BY <2>8, <2>9, <2>10, <2>14, <2>15, <2>16, <2>17 DEF ExportsInv
  <1> QED BY <1>6, <1>7

LEMMA KillStep ==
  ASSUME ExportsInv, NEW w \in Writers, Exports!Kill(w)
  PROVE  ExportsInv'
  <1> DEFINE j == [job[w] EXCEPT !.at = "killed"]
  <1>1. /\ job[w] \in Jobs /\ job[w].at \in {"temp", "written", "through", "report"}
        /\ UNCHANGED <<node, dest, files, shell>>
        /\ TempJob(job[w], shell[w], node, dest, files)
    BY DEF Exports!Kill, ExportsInv, ExportsTypes
  <1>2. /\ j \in Jobs /\ j.inPlace = job[w].inPlace /\ j.temp = job[w].temp /\ j.at = "killed"
    BY <1>1 DEF Jobs, Exports!Places
  <1>3. job' = [job EXCEPT ![w] = j]
    BY <1>1 DEF Exports!Kill, ExportsInv, ExportsTypes
  <1> HIDE DEF j
  <1>4. InPlaceJob(j, shell[w]) /\ TempJob(j, shell[w], node, dest, files)
    BY <1>1, <1>2 DEF InPlaceJob, TempJob
  <1> QED BY <1>1, <1>2, <1>3, <1>4, JobStep

LEMMA ExportsInvariance ==
  /\ Exports!Init => ExportsInv
  /\ ExportsInv /\ [Exports!Next]_exportsVars => ExportsInv'
  <1>1. ASSUME Exports!Init PROVE ExportsInv
    <2>1. /\ files = <<Exports!File(Nobody, TRUE)>> /\ Exports!File(Nobody, TRUE) \in Exports!Files
          /\ Exports!File(Nobody, TRUE).whole /\ ~Exports!File(Nobody, TRUE).noise
      BY <1>1 DEF Exports!Init, Exports!File, Exports!Files
    <2>2. /\ files \in Seq(Exports!Files) /\ Len(files) = 1 /\ DOMAIN files = {1}
          /\ files[1].whole /\ ~files[1].noise
      <3> DEFINE f == Exports!File(Nobody, TRUE)
      <3>1. files = <<f>> /\ f \in Exports!Files /\ f.whole /\ ~f.noise
        BY <2>1
      <3> HIDE DEF f
      <3>2. files \in Seq(Exports!Files) /\ Len(files) = 1 /\ files[1] = f
        BY <3>1
      <3>3. DOMAIN files = {1}
        BY <3>1
      <3> QED BY <3>1, <3>2, <3>3
    <2>3. dest \in {0, 1} /\ (node = "stream" => dest = 1)
      BY <1>1 DEF Exports!Init
    <2>4. job = [w \in Writers |-> Exports!Idle] /\ Exports!Idle \in Jobs
      BY <1>1 DEF Exports!Init, Exports!Idle, Jobs, Exports!Places
    <2>5. \A w \in Writers : shell[w] \in Shells /\ (shell[w].inode = 1 => shell[w].fds # {})
      BY <1>1, <2>3 DEF Exports!Init, Shells
    <2>6. shell = [w \in Writers |-> shell[w]]
      BY <1>1 DEF Exports!Init
    <2>7. ExportsTypes
      BY <2>2, <2>3, <2>4, <2>5, <2>6 DEF ExportsTypes
    <2>8. Clean(dest, files) /\ (dest # 0 => Whole(files[dest], job))
      BY <2>2, <2>3 DEF Clean, Whole
    <2>9. \A w \in Writers : /\ ~job[w].inPlace /\ job[w].at = "idle" /\ job[w].temp = 0
      BY <2>4 DEF Exports!Idle
    <2>10. \A w \in Writers : InPlaceJob(job[w], shell[w]) /\ TempJob(job[w], shell[w], node, dest, files)
      BY <2>9 DEF InPlaceJob, TempJob
    <2>11. \A v, w \in Writers : v # w => Apart(job[v], job[w])
      BY <2>9 DEF Apart
    <2> QED BY <2>3, <2>5, <2>7, <2>8, <2>10, <2>11 DEF ExportsInv
  <1>2. ASSUME ExportsInv, Exports!Next PROVE ExportsInv'
    BY <1>2, ExportRefuseStep, OpenInPlaceStep, WriteThroughStep, MakeTempStep, WriteTempStep,
       ReplaceStep, ReportStep, KillStep DEF Exports!Next
  <1>3. ASSUME ExportsInv, UNCHANGED exportsVars PROVE ExportsInv'
    BY <1>3 DEF exportsVars, ExportsInv, ExportsTypes, Clean, Whole, InPlaceJob, TempJob, Apart
  <1> QED BY <1>1, <1>2, <1>3

\* What the destination is, and how many files there are.
ExportsBounds ==
  /\ node \in {"plain", "stream", "dir", "socket"} /\ writable \in [{"file", "dir"} -> BOOLEAN]
  /\ Len(files) <= MaxFiles /\ \A w \in Writers : job[w].temp \in 0 .. MaxFiles

\* A writer that moves on with a temporary file there is.
LEMMA BoundedJob ==
  ASSUME ExportsTypes, ExportsBounds, NEW w \in Writers, NEW j, j.temp \in 0 .. MaxFiles,
         job' = [job EXCEPT ![w] = j], UNCHANGED <<node, writable>>, Len(files') <= MaxFiles
  PROVE  ExportsBounds'
  BY DEF ExportsTypes, ExportsBounds

\* That is an invariant, given the other one.
LEMMA ExportsStayBounded ==
  /\ Exports!Init => ExportsBounds
  /\ ExportsInv /\ ExportsBounds /\ [Exports!Next]_exportsVars => ExportsBounds'
  <1>0. MaxFiles \in Nat \ {0}
    BY PartsAssumption DEF PartsAssumption, Exports!ExportsAssumption
  <1>1. ASSUME Exports!Init PROVE ExportsBounds
    <2>1. Len(files) = 1
      BY <1>1 DEF Exports!Init
    <2> QED BY <1>0, <1>1, <2>1 DEF Exports!Init, Exports!Idle, ExportsBounds
  <1>2. ASSUME ExportsInv, ExportsBounds, NEW w \in Writers,
               \/ Exports!Refuse(w) \/ Exports!OpenInPlace(w) \/ Exports!WriteThrough(w)
               \/ Exports!MakeTemp(w) \/ Exports!WriteTemp(w) \/ Exports!Replace(w)
               \/ Exports!Report(w) \/ Exports!Kill(w)
        PROVE  ExportsBounds'
    <2>1. /\ ExportsTypes /\ job[w] \in Jobs /\ job[w].temp \in 0 .. MaxFiles /\ 0 \in 0 .. MaxFiles
          /\ dest \in 0 .. MaxFiles /\ Len(files) \in Nat
      BY <1>0, <1>2 DEF ExportsInv, ExportsTypes, ExportsBounds
    <2>2. UNCHANGED <<node, writable>>
      BY <1>2 DEF Exports!Refuse, Exports!OpenInPlace, Exports!WriteThrough, Exports!MakeTemp,
                  Exports!WriteTemp, Exports!Replace, Exports!Report, Exports!Kill
    <2>3. Len(files') <= MaxFiles
      <3>1. CASE Exports!MakeTemp(w)
        <4>1. Len(files) < MaxFiles /\ Len(files') = Len(files) + 1
          BY <2>1, <3>1 DEF Exports!MakeTemp, ExportsTypes
        <4> QED BY <1>0, <2>1, <4>1
      <3>2. CASE ~Exports!MakeTemp(w)
        <4>1. \/ files' = files \/ \E i, f : files' = [files EXCEPT ![i] = f]
          BY <1>2, <3>2 DEF Exports!Refuse, Exports!OpenInPlace, Exports!WriteThrough,
                  Exports!WriteTemp, Exports!Replace, Exports!Report, Exports!Kill
        <4>2. Len(files') = Len(files)
          BY <2>1, <4>1 DEF ExportsTypes
        <4> QED BY <4>2, <1>2 DEF ExportsBounds
      <3> QED BY <3>1, <3>2
    <2>4. \E j : j.temp \in 0 .. MaxFiles /\ job' = [job EXCEPT ![w] = j]
      <3>1. CASE Exports!OpenInPlace(w)
        BY <2>1, <3>1 DEF Exports!OpenInPlace
      <3>2. CASE Exports!MakeTemp(w)
        <4> DEFINE j == [Exports!Idle EXCEPT !.at = "temp", !.temp = Len(files) + 1]
        <4>1. job' = [job EXCEPT ![w] = j] /\ Len(files) < MaxFiles
          BY <3>2 DEF Exports!MakeTemp
        <4>2. j.temp = Len(files) + 1
          BY DEF Exports!Idle
        <4>3. Len(files) + 1 \in 0 .. MaxFiles
          BY <1>0, <2>1, <4>1
        <4> HIDE DEF j
        <4> QED BY <4>1, <4>2, <4>3
      <3>3. ASSUME NEW at PROVE [job[w] EXCEPT !.at = at, !.temp = 0].temp \in 0 .. MaxFiles
        BY <2>1 DEF Jobs
      <3>4. ASSUME NEW at PROVE [job[w] EXCEPT !.at = at].temp \in 0 .. MaxFiles
        BY <2>1 DEF Jobs
      <3>5. \/ \E at : job' = [job EXCEPT ![w] = [job[w] EXCEPT !.at = at, !.temp = 0]]
            \/ \E at : job' = [job EXCEPT ![w] = [job[w] EXCEPT !.at = at]]
            \/ Exports!OpenInPlace(w) \/ Exports!MakeTemp(w)
        BY <1>2, <2>1 DEF Exports!Refuse, Exports!WriteThrough, Exports!WriteTemp, Exports!Replace,
                          Exports!Report, Exports!Kill, Exports!Fail, ExportsTypes
      <3> QED BY <3>1, <3>2, <3>3, <3>4, <3>5
    <2> QED BY <1>2, <2>1, <2>2, <2>3, <2>4, BoundedJob
  <1>3. ASSUME ExportsBounds, UNCHANGED exportsVars PROVE ExportsBounds'
    BY <1>3 DEF exportsVars, ExportsBounds
  <1> QED BY <1>1, <1>2, <1>3 DEF Exports!Next

\* Both say that the state is typed.
LEMMA ExportsAreTyped == ExportsInv /\ ExportsBounds => Exports!TypeOK
  <1> SUFFICES ASSUME ExportsInv, ExportsBounds PROVE Exports!TypeOK
    OBVIOUS
  <1>1. /\ ExportsTypes /\ MaxFiles \in Nat \ {0}
    BY PartsAssumption DEF ExportsInv, PartsAssumption, Exports!ExportsAssumption
  <1>2. \A w \in Writers : shell[w] \in [fds : SUBSET {1, 2}, inode : 0 .. MaxFiles]
    <2>1. {0, 1} \subseteq 0 .. MaxFiles
      BY <1>1
    <2> QED BY <1>1, <2>1 DEF ExportsTypes, Shells
  <1>3. \A w \in Writers : job[w] \in [at : Exports!Places, inPlace : BOOLEAN, matched : SUBSET {1, 2},
                                       temp : 0 .. MaxFiles]
    BY <1>1 DEF ExportsTypes, ExportsBounds, Jobs
  <1> QED BY <1>1, <1>2, <1>3 DEF ExportsTypes, ExportsBounds, Exports!TypeOK

\* With any number of writers, failures and kills (atomic_write and
\* diagnostic_stream, fsio.py): what is at the destination is a whole export,
\* unless its writer goes through it in place, has no word of a confirmation in it,
\* and no temporary file is left but of a writer at work or killed.
THEOREM DestinationIsWhole == Spec => []DestinationStaysWhole
  <1> DEFINE Inv == part = "exports" => ExportsInv
  <1>1. Init => Inv
    BY ExportsMove, ExportsInvariance
  <1>2. Inv /\ [Next]_vars => Inv'
    BY ExportsMove, ExportsInvariance
  <1>3. ExportsInv => Exports!DestinationStaysWhole
    <2> SUFFICES ASSUME ExportsInv PROVE Exports!DestinationStaysWhole
      OBVIOUS
    <2>1. dest # 0 => dest \in DOMAIN files /\ Whole(files[dest], job) /\ ~files[dest].noise
      BY FilesAreAFunction DEF ExportsInv, ExportsTypes, Clean
    <2>2. \A w \in Writers : job[w].temp # 0 /\ ~job[w].inPlace =>
            job[w].at \in {"temp", "written", "killed"} /\ job[w].temp # dest
      BY DEF ExportsInv, TempJob
    <2> QED BY <2>1, <2>2 DEF Exports!DestinationStaysWhole, Whole
  <1>4. Inv => DestinationStaysWhole
    BY <1>3 DEF DestinationStaysWhole
  <1> QED BY <1>1, <1>2, <1>4, PTL DEF Spec

-----------------------------------------------------------------------------
(* Recapture: what is left of the decision that the scan took. *)

LEMMA RecaptureMove ==
  /\ Init => (part = "recapture" => Recapture!Init)
  /\ [Next]_vars => part' = part /\ (part = "recapture" => [Recapture!Next]_recaptureVars)
  BY DEF Init, Next, vars, recaptureVars

\* The state the proof needs typed.
Passing == [at : {"idle", "scanned"} \cup Cards, stored : [Cards -> Recapture!Loc],
            todo : SUBSET Cards, fresh : Recapture!Fresh, opts : Recapture!Options]
RecaptureTypes == loc \in [Cards -> Recapture!Loc] /\ pass \in [Repairers -> Passing]

\* A row without an anchor is in a population only if it was asked for.
Named(j, c) == j.stored[c] \in {"absent", "unreadable"} => j.opts.include

\* What a repair is about to write was decided from the row as it was scanned.
Decided(j) ==
  /\ \A c \in j.todo : Named(j, c)
  /\ j.at \in Cards => /\ Named(j, j.at)
                       /\ Recapture!Candidate(j.stored[j.at], j.opts)
                       /\ Recapture!Writes(j.stored[j.at], j.fresh, j.opts)

RecaptureInv == RecaptureTypes /\ \A r \in Repairers : Decided(pass[r])

LEMMA RecaptureInit ==
  ASSUME Recapture!RecaptureAssumption
  PROVE  Recapture!Init => RecaptureInv
  <1> SUFFICES ASSUME Recapture!Init PROVE RecaptureInv
    OBVIOUS
  <1> USE DEF Recapture!Init, RecaptureInv, Recapture!RecaptureAssumption
  <1>1. RecaptureTypes
    BY DEF RecaptureTypes, Passing, Recapture!Idle, Recapture!Loc, Recapture!Fresh, Recapture!Options
  <1>2. \A r \in Repairers : Decided(pass[r])
    BY DEF Decided, Recapture!Idle
  <1> QED
    BY <1>1, <1>2

LEMMA RecaptureStep ==
  ASSUME Recapture!RecaptureAssumption
  PROVE  RecaptureInv /\ [Recapture!Next]_recaptureVars => RecaptureInv'
  <1> SUFFICES ASSUME RecaptureInv, [Recapture!Next]_recaptureVars PROVE RecaptureInv'
    OBVIOUS
  <1> USE DEF RecaptureInv, RecaptureTypes, Recapture!RecaptureAssumption
  <1>1. ASSUME NEW r \in Repairers, NEW opts \in Recapture!Options, Recapture!Scan(r, opts) PROVE RecaptureInv'
    <2>1. RecaptureTypes'
      BY <1>1 DEF Passing, Recapture!Scan, Recapture!Idle, Recapture!Loc, Recapture!Fresh
    <2>2. Decided(pass[r])'
      BY <1>1 DEF Recapture!Scan, Recapture!Idle, Decided, Named
    <2>3. \A q \in Repairers \ {r} : pass'[q] = pass[q]
      BY <1>1 DEF Recapture!Scan
    <2> QED
      BY <2>1, <2>2, <2>3 DEF Decided, Named
  <1>2. ASSUME NEW r \in Repairers, NEW c \in Cards, NEW fresh \in Recapture!Fresh,
               Recapture!CaptureRow(r, c, fresh)
        PROVE  RecaptureInv'
    <2> DEFINE ours == /\ Recapture!Candidate(pass[r].stored[c], pass[r].opts)
                       /\ Recapture!Writes(pass[r].stored[c], fresh, pass[r].opts)
               rest == [pass[r] EXCEPT !.todo = @ \ {c}]
               j == IF ours THEN [rest EXCEPT !.at = c, !.fresh = fresh] ELSE rest
    <2>1. /\ pass[r].at = "scanned" /\ c \in pass[r].todo /\ UNCHANGED <<loc, edits>>
          /\ pass' = [pass EXCEPT ![r] = j]
      BY <1>2 DEF Recapture!CaptureRow
    <2>2. j \in Passing /\ Decided(j)
      <3>1. pass[r] \in Passing /\ Decided(pass[r])
        OBVIOUS
      <3>2. rest \in Passing /\ rest.at = "scanned" /\ rest.todo \subseteq pass[r].todo
            /\ rest.stored = pass[r].stored /\ rest.opts = pass[r].opts
        BY <2>1, <3>1 DEF Passing
      <3>3. CASE ours
        <4> DEFINE k == [rest EXCEPT !.at = c, !.fresh = fresh]
        <4>1. k \in Passing /\ k.at = c /\ k.fresh = fresh /\ k.todo = rest.todo
              /\ k.stored = rest.stored /\ k.opts = rest.opts
          BY <3>2 DEF Passing
        <4>2. j = k
          BY <3>3
        <4> HIDE DEF rest, k, j
        <4> QED BY <2>1, <3>1, <3>2, <3>3, <4>1, <4>2 DEF Decided, Named
      <3>4. CASE ~ours
        BY <3>1, <3>2, <3>4 DEF Decided, Named
      <3> QED BY <3>3, <3>4
    <2> HIDE DEF ours, rest, j
    <2>3. pass'[r] = j /\ \A q \in Repairers \ {r} : pass'[q] = pass[q]
      BY <2>1
    <2> QED
      BY <2>1, <2>2, <2>3
  <1>3. ASSUME NEW r \in Repairers, Recapture!ApplyRow(r) PROVE RecaptureInv'
    <2>1. RecaptureTypes'
      <3>1. pass[r] \in Passing /\ "refusal" \in Recapture!Fresh
        BY DEF Recapture!Fresh
      <3>2. [pass[r] EXCEPT !.at = "scanned", !.fresh = "refusal"] \in Passing
        BY <3>1 DEF Passing
      <3>3. pass' = [pass EXCEPT ![r] = [pass[r] EXCEPT !.at = "scanned", !.fresh = "refusal"]]
        BY <1>3 DEF Recapture!ApplyRow
      <3>4. pass' \in [Repairers -> Passing]
        BY <3>2, <3>3
      <3>5. pass[r].fresh \in Recapture!Loc
        BY <3>1 DEF Passing, Recapture!Fresh, Recapture!Loc
      <3>6. loc' = loc \/ \E c \in Cards : loc' = [loc EXCEPT ![c] = pass[r].fresh]
        BY <1>3 DEF Recapture!ApplyRow
      <3>7. loc' \in [Cards -> Recapture!Loc]
        BY <3>5, <3>6
      <3> QED BY <3>4, <3>7
    <2>2. Decided(pass[r])'
      BY <1>3 DEF Recapture!ApplyRow, Decided, Named
    <2>3. \A q \in Repairers \ {r} : pass'[q] = pass[q]
      BY <1>3 DEF Recapture!ApplyRow
    <2> QED
      BY <2>1, <2>2, <2>3 DEF Decided, Named
  <1>4. ASSUME NEW r \in Repairers, Recapture!End(r) PROVE RecaptureInv'
    <2>1. RecaptureTypes'
      BY <1>4 DEF Passing, Recapture!End, Recapture!Idle, Recapture!Loc, Recapture!Fresh, Recapture!Options
    <2>2. Decided(pass[r])'
      BY <1>4 DEF Recapture!End, Recapture!Idle, Decided
    <2>3. \A q \in Repairers \ {r} : pass'[q] = pass[q]
      BY <1>4 DEF Recapture!End
    <2> QED
      BY <2>1, <2>2, <2>3 DEF Decided, Named
  <1>5. ASSUME NEW c \in Cards, NEW value \in Recapture!Loc, 
               Recapture!HandWrite(c, value) \/ Recapture!Restore(c, value)
        PROVE  RecaptureInv'
    <2>1. RecaptureTypes' /\ UNCHANGED pass
      BY <1>5 DEF Recapture!HandWrite, Recapture!Restore
    <2> QED
      BY <2>1 DEF Decided, Named
  <1>6. CASE UNCHANGED recaptureVars
    BY <1>6 DEF recaptureVars, Decided, Named
  <1> QED
    BY <1>1, <1>2, <1>3, <1>4, <1>5, <1>6 DEF Recapture!Next

\* The write of a repair, given what was decided.
LEMMA Careful ==
  ASSUME Recapture!RecaptureAssumption
  PROVE  RecaptureInv => Recapture!RepairIsCareful
  <1> SUFFICES ASSUME RecaptureInv, NEW r \in Repairers, NEW c \in Cards, Recapture!ApplyRow(r), loc'[c] # loc[c]
               PROVE  LET said == Recapture!Enriched(c, "answered")
                          now == Recapture!Enriched(c, "answered")' IN
                      /\ pass[r].at = c /\ pass[r].opts.apply
                      /\ said = "retracted" => pass[r].opts.force /\ now = "anchored"
                      /\ said = "anchored" => now = "anchored"
                      /\ said = "absent" => pass[r].opts.include
                      /\ said # "unreadable"
                      /\ edits' = edits
    BY DEF Recapture!RepairIsCareful
  <1> USE DEF RecaptureInv, RecaptureTypes, Passing
  <1>1. pass[r].at = c /\ loc'[c] = pass[r].fresh /\ loc[c] = pass[r].stored[c] /\ edits' = edits
    BY DEF Recapture!ApplyRow, Recapture!Unmoved
  <1>2. Named(pass[r], c) /\ Recapture!Candidate(loc[c], pass[r].opts) /\ Recapture!Writes(loc[c], pass[r].fresh, pass[r].opts)
    BY <1>1 DEF Decided
  <1>3. loc[c] \in Recapture!Loc /\ pass[r].fresh \in Recapture!Fresh
    OBVIOUS
  <1>4. Recapture!Enriched(c, "answered") = Recapture!Classify(loc[c]) /\ Recapture!Enriched(c, "answered")' = Recapture!Classify(pass[r].fresh)
    BY <1>1 DEF Recapture!Enriched, Recapture!Summary
  <1>5. pass[r].fresh \in Coordinates => Recapture!Classify(pass[r].fresh) = "anchored"
    BY DEF Recapture!Classify, Recapture!RecaptureAssumption
  <1>6. /\ Recapture!Classify(loc[c]) = "retracted" => loc[c] = "null"
        /\ Recapture!Classify(loc[c]) = "anchored" => loc[c] \in Coordinates
        /\ Recapture!Classify(loc[c]) \in {"absent", "unreadable"} => loc[c] = Recapture!Classify(loc[c])
    BY <1>3 DEF Recapture!Classify, Recapture!RecaptureAssumption, Recapture!Loc
  <1>7. loc[c] # "absent" /\ loc[c] \in {"null"} \cup Coordinates => pass[r].fresh \in Coordinates
    BY <1>2, <1>3 DEF Recapture!Writes, Recapture!Fresh
  <1> QED
    BY <1>1, <1>2, <1>4, <1>5, <1>6, <1>7 DEF Named, Recapture!Candidate, Recapture!Writes, Recapture!RecaptureAssumption

\* Edits by hand are counted.
LEMMA EditsAreCounted ==
  /\ Recapture!Init => edits \in [Cards -> 0 .. MaxEdits]
  /\ edits \in [Cards -> 0 .. MaxEdits] /\ [Recapture!Next]_recaptureVars => edits' \in [Cards -> 0 .. MaxEdits]
  <1>1. MaxEdits \in Nat
    BY PartsAssumption DEF PartsAssumption, Recapture!RecaptureAssumption
  <1>2. Recapture!Init => edits \in [Cards -> 0 .. MaxEdits]
    BY <1>1 DEF Recapture!Init
  <1>3. ASSUME edits \in [Cards -> 0 .. MaxEdits], Recapture!Next PROVE edits' \in [Cards -> 0 .. MaxEdits]
    <2>1. CASE UNCHANGED edits
      BY <1>3, <2>1
    <2>2. CASE \E c \in Cards : edits[c] < MaxEdits /\ edits' = [edits EXCEPT ![c] = @ + 1]
      BY <1>1, <1>3, <2>2
    <2> QED BY <1>3, <2>1, <2>2
            DEF Recapture!Next, Recapture!Scan, Recapture!CaptureRow, Recapture!ApplyRow, Recapture!End,
                Recapture!HandWrite, Recapture!Restore
  <1> QED BY <1>2, <1>3 DEF recaptureVars

\* The state is typed.
LEMMA RecaptureIsTyped == RecaptureInv /\ edits \in [Cards -> 0 .. MaxEdits] => Recapture!TypeOK
  <1>1. ASSUME RecaptureInv, NEW c \in Cards, NEW fate \in {"answered", "raised", "left_out"}
        PROVE  Recapture!Enriched(c, fate) \in Recapture!States
    <2>1. loc[c] \in Recapture!Loc
      BY <1>1 DEF RecaptureInv, RecaptureTypes
    <2> QED BY <2>1 DEF Recapture!Enriched, Recapture!Summary, Recapture!Classify, Recapture!Loc, Recapture!States
  <1> QED BY <1>1 DEF RecaptureInv, RecaptureTypes, Passing, Recapture!TypeOK

\* However scans, captures and writes of repairs interleave with one another and
\* with edits of the rows (recapture, loc.py): a repair changes a row only as what
\* a read says of it at that moment allows, a retracted, anchored, absent or
\* unreadable one, and never touches the card's own edits.
THEOREM RepairObeys == Spec => RepairRespectsTheRow
  <1> DEFINE I == part = "recapture" => RecaptureInv
             A == part = "recapture" => Recapture!RepairIsCareful
  <1>1. Init => I
    BY RecaptureMove, RecaptureInit, PartsAssumption DEF PartsAssumption
  <1>2. I /\ [Next]_vars => I'
    BY RecaptureMove, RecaptureStep, PartsAssumption DEF PartsAssumption
  <1>3. I /\ [Next]_vars => [A]_vars
    BY Careful, PartsAssumption DEF PartsAssumption
  <1> HIDE DEF I, A
  <1>4. Spec => [][A]_vars
    BY <1>1, <1>2, <1>3, PTL DEF Spec
  <1> QED
    BY <1>4 DEF A, RepairRespectsTheRow

-----------------------------------------------------------------------------
(* Bench: the table, what a rollback restores, and what the holder has changed. *)

LEMMA BenchMove ==
  /\ Init => Bench!Init
  /\ [Next]_vars => part' = part /\ (part = "bench" => [Bench!Next]_benchVars)
  BY DEF Init, Next, vars, benchVars

\* The invariant.

Runs == [id : Bench!Ids, bench : Benchmarks, load : Payloads]
Tables == [runs : SUBSET Runs, results : SUBSET (Bench!Ids \X Bench!AllCells)]
Held == {"check", "rows", "run", "commit"}
Calls == [at : Held \cup {"idle", "read", "taken"}, do : {"", "import", "run", "benchmark", "query"},
          bench : Benchmarks \cup {""}, load : Payloads \cup {<<>>}, own : BOOLEAN,
          ids : SUBSET Bench!Ids, runs : SUBSET Runs, torn : BOOLEAN]

\* The tables hold of every run one row, and of its measurements all.
Consistent(t) ==
  /\ \A r, s \in t.runs : r.id = s.id => r = s
  /\ \A row \in t.results : \E r \in t.runs : r.id = row[1] /\ row[2] \in Bench!Pending(r.load)
  /\ \A r \in t.runs : \A cell \in Bench!Pending(r.load) : <<r.id, cell>> \in t.results

\* The run that an import makes.
Made(j, id) == [id |-> id, bench |-> j.bench, load |-> j.load]

\* What a deletion deletes.
Doomed(j, r) == IF j.do = "run" THEN r.id \in j.ids ELSE r.bench = j.bench

\* How far the writer that holds the lock has come from what was committed, u.
Holding(t, u, j) ==
  /\ j.do \in {"import", "run", "benchmark"}
  /\ j.do = "import" => j.bench \in Benchmarks /\ j.load \in Payloads /\ \E id \in Bench!Ids : j.ids = {id}
  /\ j.do # "import" => \A r \in u.runs : r.id \in j.ids <=> Doomed(j, r)
  /\ j.at = "check" => t = u /\ (j.do = "import" /\ j.own => j.ids \subseteq Bench!NextIds(u.runs))
  /\ j.at = "rows" =>
       /\ j.do = "import" /\ t.results = u.results
       /\ \E id \in Bench!Ids : /\ j.ids = {id} /\ t.runs = u.runs \cup {Made(j, id)}
                                /\ \A r \in u.runs : r.id # id
  /\ j.at = "run" =>
       /\ j.do # "import" /\ t.runs = u.runs
       /\ t.results = {row \in u.results : row[1] \notin j.ids}
  /\ j.at = "commit" => Consistent(t) /\ (j.do = "import" => u.runs \subseteq t.runs)

\* What a call that holds no lock relies on.
Relying(t, j) ==
  /\ j.at = "read" /\ ~j.torn => j.runs \subseteq t.runs /\ j.ids = {r.id : r \in j.runs}
  /\ j.at = "taken" /\ j.own /\ ~j.torn => \E r \in t.runs : r.id.form = "be" \/ r.id.n >= Width

BenchInv ==
  /\ store \in Tables /\ undo \in Tables
  /\ lock \in Clients \cup {Nobody} /\ client \in [Clients -> Calls]
  /\ \A c \in Clients : client[c].at \in Held <=> lock = c
  /\ lock # Nobody => Holding(store, undo, client[lock])
  /\ Consistent(Bench!Committed)
  /\ \A c \in Clients : Relying(Bench!Committed, client[c])

\* Steps.

\* A call goes on, or ends, and no lock moves.
LEMMA FreeStep ==
  ASSUME BenchInv, NEW c \in Clients, NEW j \in Calls, Nobody \notin Clients,
         client' = [client EXCEPT ![c] = j], UNCHANGED <<store, undo, lock>>,
         lock # c, j.at \notin Held, Relying(Bench!Committed, j)
  PROVE  BenchInv'
  <1>1. client' \in [Clients -> Calls] /\ client'[c] = j /\ \A d \in Clients : d # c => client'[d] = client[d]
    BY DEF BenchInv
  <1>2. Bench!Committed' = Bench!Committed
    BY DEF Bench!Committed
  <1>3. lock' # Nobody => lock' # c /\ client'[lock'] = client[lock]
    BY <1>1 DEF BenchInv
  <1> QED BY <1>1, <1>2, <1>3 DEF BenchInv

\* The holder of the lock goes on.
LEMMA HolderStep ==
  ASSUME BenchInv, NEW c \in Clients, NEW j \in Calls, Nobody \notin Clients,
         client' = [client EXCEPT ![c] = j], UNCHANGED <<undo, lock>>,
         lock = c, j.at \in Held, store' \in Tables, Holding(store', undo, j)
  PROVE  BenchInv'
  <1>1. client' \in [Clients -> Calls] /\ client'[c] = j /\ \A d \in Clients : d # c => client'[d] = client[d]
    BY DEF BenchInv
  <1>2. Bench!Committed' = Bench!Committed
    BY DEF Bench!Committed
  <1>3. Relying(Bench!Committed, j)
    BY DEF Relying, Held
  <1> QED BY <1>1, <1>2, <1>3 DEF BenchInv

\* The lock is taken.
LEMMA TakeStep ==
  ASSUME BenchInv, NEW c \in Clients, NEW j \in Calls, Nobody \notin Clients,
         client' = [client EXCEPT ![c] = j], UNCHANGED store,
         Bench!Take(c), j.at = "check", Holding(store, store, j)
  PROVE  BenchInv'
  <1>1. client' \in [Clients -> Calls] /\ client'[c] = j /\ \A d \in Clients : d # c => client'[d] = client[d]
    BY DEF BenchInv
  <1>2. lock = Nobody /\ lock' = c /\ undo' = store
    BY DEF Bench!Take
  <1>3. Bench!Committed' = Bench!Committed
    BY <1>2 DEF Bench!Committed
  <1>4. Relying(Bench!Committed, j) /\ j.at \in Held
    BY DEF Relying, Held
  <1>5. \A d \in Clients : client[d].at \notin Held
    BY <1>2 DEF BenchInv
  <1> QED BY <1>1, <1>2, <1>3, <1>4, <1>5 DEF BenchInv

\* The lock is given up, and nothing has been written or nothing stays.
LEMMA LeaveStep ==
  ASSUME BenchInv, NEW c \in Clients, NEW j \in Calls, Nobody \notin Clients,
         client' = [client EXCEPT ![c] = j], UNCHANGED undo,
         lock = c, lock' = Nobody, store' = undo, j.at \notin Held, Relying(undo, j)
  PROVE  BenchInv'
  <1>1. client' \in [Clients -> Calls] /\ client'[c] = j /\ \A d \in Clients : d # c => client'[d] = client[d]
    BY DEF BenchInv
  <1>2. Bench!Committed' = undo /\ Bench!Committed = undo
    BY DEF Bench!Committed
  <1> QED BY <1>1, <1>2 DEF BenchInv

LEMMA BenchConstants == Writers \subseteq Clients /\ Nobody \notin Clients /\ Width \in Nat /\ MaxNumber \in Nat
  BY PartsAssumption DEF PartsAssumption, Bench!BenchAssumption

\* The calls that begin.
Importing(k, bench, load, own, ids) ==
  [k EXCEPT !.at = "check", !.do = "import", !.bench = bench, !.load = load, !.own = own, !.ids = ids]
DeletingRun(k, ids) == [k EXCEPT !.at = "check", !.do = "run", !.ids = ids]
DeletingBenchmark(k, bench, ids) ==
  [k EXCEPT !.at = "check", !.do = "benchmark", !.bench = bench, !.ids = ids]
Querying(k, runs, ids) == [k EXCEPT !.at = "read", !.do = "query", !.runs = runs, !.ids = ids]

LEMMA IdleCall == Bench!Idle \in Calls /\ Bench!Idle.at = "idle" /\ ~Bench!Idle.torn
  BY DEF Bench!Idle, Calls, Held

LEMMA ImportingCall ==
  ASSUME NEW k \in Calls, NEW bench \in Benchmarks, NEW load \in Payloads, NEW own \in BOOLEAN,
         NEW ids \in SUBSET Bench!Ids
  PROVE  LET j == Importing(k, bench, load, own, ids) IN
         /\ j \in Calls /\ j.at = "check" /\ j.do = "import" /\ j.bench = bench /\ j.load = load
         /\ j.own = own /\ j.ids = ids
  BY DEF Importing, Calls, Held

LEMMA DeletingRunCall ==
  ASSUME NEW k \in Calls, NEW ids \in SUBSET Bench!Ids
  PROVE  LET j == DeletingRun(k, ids) IN
         j \in Calls /\ j.at = "check" /\ j.do = "run" /\ j.ids = ids
  BY DEF DeletingRun, Calls, Held

LEMMA DeletingBenchmarkCall ==
  ASSUME NEW k \in Calls, NEW bench \in Benchmarks, NEW ids \in SUBSET Bench!Ids
  PROVE  LET j == DeletingBenchmark(k, bench, ids) IN
         j \in Calls /\ j.at = "check" /\ j.do = "benchmark" /\ j.bench = bench /\ j.ids = ids
  BY DEF DeletingBenchmark, Calls, Held

LEMMA QueryingCall ==
  ASSUME NEW k \in Calls, NEW runs \in SUBSET Runs, NEW ids \in SUBSET Bench!Ids
  PROVE  LET j == Querying(k, runs, ids) IN
         j \in Calls /\ j.at = "read" /\ j.runs = runs /\ j.ids = ids
  BY DEF Querying, Calls

\* A call that is under way moves.
LEMMA TornCall ==
  ASSUME NEW k \in Calls
  PROVE  LET j == [k EXCEPT !.torn = TRUE, !.runs = {}] IN
         j \in Calls /\ j.torn /\ j.at = k.at
  BY DEF Calls

LEMMA MovedCall ==
  ASSUME NEW j \in Calls, NEW at \in Held \cup {"idle", "read", "taken"}
  PROVE  LET k == [j EXCEPT !.at = at] IN
         /\ k \in Calls /\ k.at = at /\ k.do = j.do /\ k.bench = j.bench /\ k.load = j.load
         /\ k.own = j.own /\ k.ids = j.ids /\ k.torn = j.torn
  BY DEF Calls

LEMMA ImportStep ==
  ASSUME BenchInv, NEW c \in Writers, NEW bench \in Benchmarks, NEW load \in Payloads, NEW wanted,
         Bench!Import(c, bench, load, wanted)
  PROVE  BenchInv'
  <1>1. PICK id \in Bench!Ids \cap (IF wanted = {} THEN Bench!NextIds(store.runs) ELSE wanted) :
          client' = [client EXCEPT ![c] =
            [Bench!Idle EXCEPT !.at = "check", !.do = "import", !.bench = bench, !.load = load,
                               !.own = wanted = {}, !.ids = {id}]]
    BY DEF Bench!Import, Bench!Goto
  <1>2. PICK own \in BOOLEAN : own = (wanted = {})
    OBVIOUS
  <1> DEFINE j == Importing(Bench!Idle, bench, load, own, {id})
  <1>3. client' = [client EXCEPT ![c] = j]
    BY <1>1, <1>2 DEF Importing
  <1>4. /\ j \in Calls /\ j.at = "check" /\ j.do = "import" /\ j.bench = bench /\ j.load = load
        /\ j.own = own /\ j.ids = {id}
    BY <1>1, IdleCall, ImportingCall
  <1> HIDE DEF j
  <1>5. Holding(store, store, j)
    BY <1>1, <1>2, <1>4 DEF Holding
  <1> QED BY <1>3, <1>4, <1>5, TakeStep, BenchConstants DEF Bench!Import

LEMMA DeleteStep ==
  ASSUME BenchInv, NEW c \in Writers,
         \/ \E id \in Bench!Ids : Bench!DeleteRun(c, id)
         \/ \E bench \in Benchmarks : Bench!DeleteBenchmark(c, bench)
  PROVE  BenchInv'
  <1>0. store.runs \subseteq Runs /\ Bench!Take(c) /\ UNCHANGED store
    BY DEF BenchInv, Tables, Bench!DeleteRun, Bench!DeleteBenchmark
  <1>1. ASSUME NEW id \in Bench!Ids, Bench!DeleteRun(c, id) PROVE BenchInv'
    <2> DEFINE ids == {r.id : r \in {s \in store.runs : s.id = id}}
               j == DeletingRun(Bench!Idle, ids)
    <2>1. client' = [client EXCEPT ![c] = j]
      BY <1>1 DEF Bench!DeleteRun, Bench!Goto, DeletingRun
    <2>2. ids \in SUBSET Bench!Ids
      BY <1>0 DEF Runs
    <2>3. j \in Calls /\ j.at = "check" /\ j.do = "run" /\ j.ids = ids
      BY <2>2, IdleCall, DeletingRunCall
    <2> HIDE DEF j
    <2>4. Holding(store, store, j)
      BY <2>3 DEF Holding, Doomed
    <2> QED BY <1>0, <2>1, <2>3, <2>4, TakeStep, BenchConstants
  <1>2. ASSUME NEW bench \in Benchmarks, Bench!DeleteBenchmark(c, bench) PROVE BenchInv'
    <2> DEFINE ids == {r.id : r \in {s \in store.runs : s.bench = bench}}
               j == DeletingBenchmark(Bench!Idle, bench, ids)
    <2>1. client' = [client EXCEPT ![c] = j]
      BY <1>2 DEF Bench!DeleteBenchmark, Bench!Goto, DeletingBenchmark
    <2>2. ids \in SUBSET Bench!Ids
      BY <1>0 DEF Runs
    <2>3. j \in Calls /\ j.at = "check" /\ j.do = "benchmark" /\ j.ids = ids /\ j.bench = bench
      BY <2>2, IdleCall, DeletingBenchmarkCall
    <2>4. \A r, s \in store.runs : r.id = s.id => r = s
      BY <1>0 DEF BenchInv, Consistent, Bench!Take, Bench!Committed
    <2>5. \A r \in store.runs : r.id \in ids <=> r.bench = bench
      BY <2>4
    <2> HIDE DEF j, ids
    <2>6. Holding(store, store, j)
      BY <2>3, <2>5 DEF Holding, Doomed
    <2> QED BY <1>0, <2>1, <2>3, <2>6, TakeStep, BenchConstants
  <1> QED BY <1>1, <1>2

\* A generated id is taken beside a be-n, or where the numbers are cut off.
LEMMA TakenId ==
  ASSUME NEW runs \in SUBSET Runs, NEW id \in Bench!NextIds(runs), Bench!Holds(runs, id)
  PROVE  \E r \in runs : r.id.form = "be" \/ r.id.n >= Width
  <1>1. runs # {}
    BY DEF Bench!Holds
  <1>2. PICK r \in runs : /\ \A s \in runs : Bench!Cast(s.id.n) <= Bench!Cast(r.id.n)
                          /\ id = Bench!Id("BE", IF r.id.form = "BE" THEN r.id.n + 1 ELSE 1)
    BY <1>1 DEF Bench!NextIds
  <1>3. r.id.form \in {"BE", "be"} /\ r.id.n \in Nat
    BY BenchConstants DEF Runs, Bench!Ids
  <1>4. CASE r.id.form = "BE"
    <2>1. PICK s \in runs : s.id = Bench!Id("BE", r.id.n + 1)
      BY <1>2, <1>4 DEF Bench!Holds
    <2>2. s.id.n = r.id.n + 1
      BY <2>1 DEF Bench!Id
    <2> QED BY <1>2, <1>3, <2>2, BenchConstants DEF Bench!Cast
  <1> QED BY <1>3, <1>4

LEMMA BenchRefuseStep ==
  ASSUME BenchInv, NEW c \in Writers, Bench!Refuse(c)
  PROVE  BenchInv'
  <1>1. /\ client[c].at = "check" /\ lock = c /\ lock' = Nobody /\ UNCHANGED <<store, undo>>
        /\ client[c] \in Calls /\ store = undo
    BY BenchConstants DEF Bench!Refuse, BenchInv, Held, Holding
  <1>2. CASE client[c].do = "import"
    <2> DEFINE j == [client[c] EXCEPT !.at = "taken"]
    <2>1. client' = [client EXCEPT ![c] = j] /\ \A id \in client[c].ids : Bench!Holds(undo.runs, id)
      BY <1>1, <1>2 DEF Bench!Refuse, Bench!Goto
    <2>2. j \in Calls /\ j.at = "taken" /\ j.own = client[c].own
      BY <1>1, MovedCall
    <2>3. undo.runs \in SUBSET Runs
      BY DEF BenchInv, Tables
    <2>4. client[c].own => \E id \in client[c].ids : id \in Bench!NextIds(undo.runs)
      BY <1>1, <1>2, BenchConstants DEF BenchInv, Holding
    <2> HIDE DEF j
    <2>5. Relying(undo, j)
      BY <2>1, <2>2, <2>3, <2>4, TakenId DEF Relying
    <2> QED BY <1>1, <2>1, <2>2, <2>5, LeaveStep, BenchConstants DEF Held
  <1>3. CASE client[c].do # "import"
    <2>1. client' = [client EXCEPT ![c] = Bench!Idle]
      BY <1>3 DEF Bench!Refuse, Bench!Goto
    <2>2. Relying(undo, Bench!Idle)
      BY IdleCall DEF Relying
    <2> QED BY <1>1, <2>1, <2>2, IdleCall, LeaveStep, BenchConstants DEF Held
  <1> QED BY <1>2, <1>3

LEMMA BenchCrashStep ==
  ASSUME BenchInv, NEW c \in Writers, Bench!Crash(c)
  PROVE  BenchInv'
  <1>1. Relying(undo, Bench!Idle)
    BY IdleCall DEF Relying
  <1> QED BY <1>1, IdleCall, LeaveStep, BenchConstants DEF Bench!Crash, Bench!Goto, Held

\* The measurements of a payload are among its rows and metrics.
LEMMA PendingCells == \A load \in Payloads : Bench!Pending(load) \subseteq Bench!AllCells
  <1> SUFFICES ASSUME NEW load \in Payloads, NEW cell \in Bench!Pending(load)
               PROVE  cell \in Bench!Cells(load)
    BY DEF Bench!AllCells
  <1>1. PICK pos \in Bench!Read(load) : cell = <<load.rows[pos[1]].label, load.header[pos[2]]>>
    BY DEF Bench!Pending
  <1>2. pos[1] \in DOMAIN load.rows /\ pos[2] \in DOMAIN load.header
    BY DEF Bench!Read
  <1> QED BY <1>1, <1>2 DEF Bench!Cells

LEMMA NewTables ==
  ASSUME NEW t \in Tables
  PROVE  /\ t.runs \subseteq Runs /\ t.results \subseteq Bench!Ids \X Bench!AllCells
         /\ \A runs \in SUBSET Runs :
              LET u == [t EXCEPT !.runs = runs] IN
              u \in Tables /\ u.runs = runs /\ u.results = t.results
         /\ \A results \in SUBSET (Bench!Ids \X Bench!AllCells) :
              LET u == [t EXCEPT !.results = results] IN
              u \in Tables /\ u.results = results /\ u.runs = t.runs
  BY DEF Tables

LEMMA InsertRunStep ==
  ASSUME BenchInv, NEW c \in Writers, Bench!InsertRun(c)
  PROVE  BenchInv'
  <1> DEFINE j == [client[c] EXCEPT !.at = "rows"]
             made == {Made(client[c], id) : id \in client[c].ids}
             runs == store.runs \cup made
  <1>1. /\ client[c].at = "check" /\ client[c].do = "import" /\ UNCHANGED <<undo, lock>>
        /\ \A id \in client[c].ids : ~Bench!Holds(store.runs, id)
        /\ store' = [store EXCEPT !.runs = runs] /\ client' = [client EXCEPT ![c] = j]
    BY DEF Bench!InsertRun, Bench!Goto, Made
  <1>2. lock = c /\ client[c] \in Calls /\ Holding(store, undo, client[c]) /\ store \in Tables
    BY <1>1, BenchConstants DEF BenchInv, Held
  <1>3. PICK id \in Bench!Ids : client[c].ids = {id}
    BY <1>1, <1>2 DEF Holding
  <1>4. made = {Made(client[c], id)} /\ Made(client[c], id) \in Runs
    BY <1>1, <1>2, <1>3 DEF Made, Holding, Runs
  <1> HIDE DEF made
  <1>5. runs \in SUBSET Runs
    <2>1. store.runs \subseteq Runs
      BY <1>2, NewTables
    <2> QED BY <1>4, <2>1
  <1> HIDE DEF runs
  <1>6. store' \in Tables /\ store'.runs = runs /\ store'.results = store.results
    BY <1>1, <1>2, <1>5, NewTables
  <1>7. /\ j \in Calls /\ j.at = "rows" /\ j.do = client[c].do /\ j.bench = client[c].bench
        /\ j.load = client[c].load /\ j.ids = {id}
    <2>1. "rows" \in Held
      BY DEF Held
    <2>2. /\ j \in Calls /\ j.at = "rows" /\ j.do = client[c].do /\ j.bench = client[c].bench
          /\ j.load = client[c].load /\ j.ids = client[c].ids
      BY <1>2, <2>1, MovedCall
    <2> QED BY <1>3, <2>2
  <1>8. store = undo /\ \A r \in undo.runs : r.id # id
    BY <1>1, <1>2, <1>3 DEF Holding, Bench!Holds
  <1> HIDE DEF j
  <1>9. Made(j, id) = Made(client[c], id)
    BY <1>7 DEF Made
  <1>10. Holding(store', undo, j)
    <2>1. store'.runs = undo.runs \cup {Made(j, id)}
      BY <1>4, <1>6, <1>8, <1>9 DEF runs
    <2>2. store'.results = undo.results
      BY <1>6, <1>8
    <2>3. j.do = "import" /\ j.bench \in Benchmarks /\ j.load \in Payloads
      BY <1>1, <1>2, <1>7 DEF Holding
    <2> QED BY <1>7, <1>8, <2>1, <2>2, <2>3 DEF Holding
  <1> QED BY <1>1, <1>2, <1>6, <1>7, <1>10, HolderStep, BenchConstants DEF Held

LEMMA InsertRowsStep ==
  ASSUME BenchInv, NEW c \in Writers, Bench!InsertRows(c)
  PROVE  BenchInv'
  <1> DEFINE j == [client[c] EXCEPT !.at = "commit"]
             results == store.results \cup (client[c].ids \X Bench!Pending(client[c].load))
  <1>1. /\ client[c].at = "rows" /\ client[c].do = "import" /\ UNCHANGED <<undo, lock>>
        /\ store' = [store EXCEPT !.results = results] /\ client' = [client EXCEPT ![c] = j]
    BY DEF Bench!InsertRows, Bench!Goto
  <1>2. /\ lock = c /\ client[c] \in Calls /\ Holding(store, undo, client[c]) /\ store \in Tables
        /\ undo \in Tables /\ Consistent(undo) /\ client[c].load \in Payloads
    BY <1>1, BenchConstants DEF BenchInv, Held, Bench!Committed, Holding
  <1>3. PICK id \in Bench!Ids :
          /\ client[c].ids = {id} /\ store.runs = undo.runs \cup {Made(client[c], id)}
          /\ store.results = undo.results /\ \A r \in undo.runs : r.id # id
    BY <1>1, <1>2 DEF Holding
  <1>4. results \in SUBSET (Bench!Ids \X Bench!AllCells)
    BY <1>2, <1>3, NewTables, PendingCells
  <1>5. \A row \in results : \/ row \in undo.results
                             \/ row[1] = id /\ row[2] \in Bench!Pending(client[c].load)
    BY <1>3
  <1>6. /\ \A row \in undo.results : row \in results
        /\ \A cell \in Bench!Pending(client[c].load) : <<id, cell>> \in results
    BY <1>3
  <1> HIDE DEF results
  <1>7. store' \in Tables /\ store'.runs = store.runs /\ store'.results = results
    BY <1>1, <1>2, <1>4, NewTables
  <1>8. /\ j \in Calls /\ j.at = "commit" /\ j.do = client[c].do /\ j.bench = client[c].bench
        /\ j.load = client[c].load /\ j.ids = client[c].ids
    BY <1>2, MovedCall DEF Held
  <1> HIDE DEF j
  <1>9. Made(client[c], id).id = id /\ Made(client[c], id).load = client[c].load
    BY DEF Made
  <1>10. Consistent(store')
    <2>1. \A r, s \in store'.runs : r.id = s.id => r = s
      BY <1>2, <1>3, <1>7, <1>9 DEF Consistent
    <2>2. \A row \in store'.results : \E r \in store'.runs : r.id = row[1] /\ row[2] \in Bench!Pending(r.load)
      BY <1>2, <1>3, <1>5, <1>7, <1>9 DEF Consistent
    <2>3. \A r \in store'.runs : \A cell \in Bench!Pending(r.load) : <<r.id, cell>> \in store'.results
      BY <1>2, <1>3, <1>6, <1>7, <1>9 DEF Consistent
    <2> QED BY <2>1, <2>2, <2>3 DEF Consistent
  <1>11. Holding(store', undo, j)
    BY <1>1, <1>2, <1>3, <1>7, <1>8, <1>10 DEF Holding
  <1> QED BY <1>1, <1>2, <1>7, <1>8, <1>11, HolderStep, BenchConstants DEF Held

LEMMA DeleteRowsStep ==
  ASSUME BenchInv, NEW c \in Writers, Bench!DeleteRows(c)
  PROVE  BenchInv'
  <1> DEFINE j == [client[c] EXCEPT !.at = "run"]
             results == {row \in store.results : row[1] \notin client[c].ids}
  <1>1. /\ client[c].at = "check" /\ client[c].do # "import" /\ UNCHANGED <<undo, lock>>
        /\ store' = [store EXCEPT !.results = results] /\ client' = [client EXCEPT ![c] = j]
    BY DEF Bench!DeleteRows, Bench!Goto
  <1>2. lock = c /\ client[c] \in Calls /\ Holding(store, undo, client[c]) /\ store \in Tables
    BY <1>1, BenchConstants DEF BenchInv, Held
  <1>3. store = undo /\ results = {row \in undo.results : row[1] \notin client[c].ids}
    BY <1>1, <1>2 DEF Holding
  <1>4. results \in SUBSET (Bench!Ids \X Bench!AllCells)
    BY <1>2, NewTables
  <1> HIDE DEF results
  <1>5. store' \in Tables /\ store'.runs = store.runs /\ store'.results = results
    BY <1>1, <1>2, <1>4, NewTables
  <1>6. /\ j \in Calls /\ j.at = "run" /\ j.do = client[c].do /\ j.bench = client[c].bench
        /\ j.load = client[c].load /\ j.ids = client[c].ids
    BY <1>2, MovedCall DEF Held
  <1> HIDE DEF j
  <1>7. Holding(store', undo, j)
    BY <1>1, <1>2, <1>3, <1>5, <1>6 DEF Holding, Doomed
  <1> QED BY <1>1, <1>2, <1>5, <1>6, <1>7, HolderStep, BenchConstants DEF Held

LEMMA DeleteRunsStep ==
  ASSUME BenchInv, NEW c \in Writers, Bench!DeleteRuns(c)
  PROVE  BenchInv'
  <1> DEFINE j == [client[c] EXCEPT !.at = "commit"]
             runs == {r \in store.runs : ~Doomed(client[c], r)}
  <1>1. /\ client[c].at = "run" /\ UNCHANGED <<undo, lock>>
        /\ store' = [store EXCEPT !.runs = runs] /\ client' = [client EXCEPT ![c] = j]
    BY DEF Bench!DeleteRuns, Bench!Goto, Doomed
  <1>2. /\ lock = c /\ client[c] \in Calls /\ Holding(store, undo, client[c]) /\ store \in Tables
        /\ undo \in Tables /\ Consistent(undo)
    BY <1>1, BenchConstants DEF BenchInv, Held, Bench!Committed
  <1>3. /\ client[c].do # "import" /\ store.runs = undo.runs
        /\ store.results = {row \in undo.results : row[1] \notin client[c].ids}
        /\ \A r \in undo.runs : r.id \in client[c].ids <=> Doomed(client[c], r)
    BY <1>1, <1>2 DEF Holding
  <1>4. runs \in SUBSET Runs
    BY <1>2, NewTables
  <1>5. \A r : r \in runs <=> r \in undo.runs /\ r.id \notin client[c].ids
    BY <1>3
  <1> HIDE DEF runs
  <1>6. store' \in Tables /\ store'.runs = runs /\ store'.results = store.results
    BY <1>1, <1>2, <1>4, NewTables
  <1>7. /\ j \in Calls /\ j.at = "commit" /\ j.do = client[c].do /\ j.bench = client[c].bench
        /\ j.load = client[c].load /\ j.ids = client[c].ids
    BY <1>2, MovedCall DEF Held
  <1> HIDE DEF j
  <1>8. Consistent(store')
    <2>1. \A r, s \in store'.runs : r.id = s.id => r = s
      BY <1>2, <1>5, <1>6 DEF Consistent
    <2>2. \A row \in store'.results : \E r \in store'.runs : r.id = row[1] /\ row[2] \in Bench!Pending(r.load)
      BY <1>2, <1>3, <1>5, <1>6 DEF Consistent
    <2>3. \A r \in store'.runs : \A cell \in Bench!Pending(r.load) : <<r.id, cell>> \in store'.results
      BY <1>2, <1>3, <1>5, <1>6 DEF Consistent
    <2> QED BY <2>1, <2>2, <2>3 DEF Consistent
  <1>9. Holding(store', undo, j)
    BY <1>2, <1>3, <1>7, <1>8 DEF Holding, Doomed
  <1> QED BY <1>1, <1>2, <1>6, <1>7, <1>9, HolderStep, BenchConstants DEF Held

LEMMA BenchCommitStep ==
  ASSUME BenchInv, NEW c \in Writers, Bench!Commit(c)
  PROVE  BenchInv'
  <1> DEFINE crossed(d) == client[d].at \in {"read", "taken"} /\ client[c].do # "import"
             torn(d) == [client[d] EXCEPT !.torn = TRUE, !.runs = {}]
  <1>1. /\ client[c].at = "commit" /\ lock' = Nobody /\ undo' = store /\ store' = store
        /\ client' = [d \in Clients |-> IF d = c THEN Bench!Idle
                                        ELSE IF crossed(d) THEN torn(d) ELSE client[d]]
    BY DEF Bench!Commit
  <1>2. /\ lock = c /\ client \in [Clients -> Calls] /\ Holding(store, undo, client[c])
        /\ store \in Tables /\ undo \in Tables
    BY <1>1, BenchConstants DEF BenchInv, Held
  <1>3. Consistent(store) /\ (client[c].do = "import" => undo.runs \subseteq store.runs)
    BY <1>1, <1>2 DEF Holding
  <1>4. Bench!Committed = undo /\ Bench!Committed' = store
    BY <1>1, <1>2, BenchConstants DEF Bench!Committed
  <1>5. \A d \in Clients : torn(d) \in Calls /\ torn(d).torn /\ torn(d).at = client[d].at
    <2>1. \A d \in Clients : client[d] \in Calls
      BY <1>2
    <2> QED BY <2>1, TornCall
  <1> HIDE DEF torn
  <1>6. client' \in [Clients -> Calls] /\ \A d \in Clients : client'[d].at \notin Held
    BY <1>1, <1>2, <1>5, IdleCall DEF BenchInv, Held
  <1>7. ASSUME NEW d \in Clients PROVE Relying(store, client'[d])
    <2>1. CASE d = c
      BY <1>1, <2>1, IdleCall DEF Relying
    <2>2. CASE d # c /\ crossed(d)
      BY <1>1, <1>5, <2>2 DEF Relying
    <2>3. CASE d # c /\ client[d].at \notin {"read", "taken"}
      BY <1>1, <2>3 DEF Relying
    <2>4. CASE d # c /\ client[c].do = "import"
      <3>1. client'[d] = client[d] /\ Relying(undo, client[d])
        BY <1>1, <1>4, <2>4 DEF BenchInv
      <3> QED BY <1>3, <2>4, <3>1 DEF Relying
    <2> QED BY <2>1, <2>2, <2>3, <2>4
  <1> QED BY <1>1, <1>2, <1>3, <1>4, <1>6, <1>7, BenchConstants DEF BenchInv

LEMMA QueryStep ==
  ASSUME BenchInv, NEW c \in Clients, NEW bench \in Benchmarks, Bench!Query(c, bench)
  PROVE  BenchInv'
  <1>1. PICK runs \in SUBSET {r \in Bench!Committed.runs : r.bench = bench} :
          client' = [client EXCEPT ![c] =
            [Bench!Idle EXCEPT !.at = "read", !.do = "query", !.runs = runs, !.ids = {r.id : r \in runs}]]
    BY DEF Bench!Query, Bench!Goto
  <1> DEFINE j == Querying(Bench!Idle, runs, {r.id : r \in runs})
  <1>2. client' = [client EXCEPT ![c] = j]
    BY <1>1 DEF Querying
  <1>3. Bench!Committed \in Tables
    BY DEF BenchInv, Bench!Committed
  <1>4. runs \in SUBSET Runs /\ {r.id : r \in runs} \in SUBSET Bench!Ids /\ runs \subseteq Bench!Committed.runs
    BY <1>3, NewTables DEF Runs
  <1>5. j \in Calls /\ j.at = "read" /\ j.runs = runs /\ j.ids = {r.id : r \in runs}
    BY <1>4, IdleCall, QueryingCall
  <1> HIDE DEF j
  <1>6. Relying(Bench!Committed, j) /\ j.at \notin Held
    BY <1>4, <1>5 DEF Relying, Held
  <1>7. lock # c /\ UNCHANGED <<store, undo, lock>>
    BY DEF Bench!Query, BenchInv, Held
  <1> QED BY <1>2, <1>5, <1>6, <1>7, FreeStep, BenchConstants

LEMMA AnswerStep ==
  ASSUME BenchInv, NEW c \in Clients, Bench!Return(c)
  PROVE  BenchInv'
  <1>1. client' = [client EXCEPT ![c] = Bench!Idle] /\ lock # c /\ UNCHANGED <<store, undo, lock>>
    BY DEF Bench!Return, Bench!Goto, BenchInv, Held
  <1>2. Relying(Bench!Committed, Bench!Idle) /\ Bench!Idle.at \notin Held
    BY IdleCall DEF Relying, Held
  <1> QED BY <1>1, <1>2, IdleCall, FreeStep, BenchConstants

LEMMA BenchInvariance ==
  /\ Bench!Init => BenchInv
  /\ BenchInv /\ [Bench!Next]_benchVars => BenchInv'
  <1>1. ASSUME Bench!Init PROVE BenchInv
    <2>1. store.runs = {} /\ store.results = {} /\ store \in Tables /\ undo = store /\ Bench!Committed = store
      BY <1>1 DEF Bench!Init, Tables, Bench!Committed
    <2>2. lock = Nobody /\ client \in [Clients -> Calls] /\ \A c \in Clients : client[c].at = "idle"
      BY <1>1, IdleCall DEF Bench!Init
    <2>3. Consistent(store) /\ \A c \in Clients : Relying(store, client[c])
      BY <2>1, <2>2 DEF Consistent, Relying
    <2> QED BY <2>1, <2>2, <2>3, BenchConstants DEF BenchInv, Held
  <1>2. ASSUME BenchInv, Bench!Next PROVE BenchInv'
    BY <1>2, QueryStep, AnswerStep, ImportStep, DeleteStep, BenchRefuseStep, InsertRunStep, InsertRowsStep,
       DeleteRowsStep, DeleteRunsStep, BenchCommitStep, BenchCrashStep, BenchConstants DEF Bench!Next
  <1>3. ASSUME BenchInv, UNCHANGED benchVars PROVE BenchInv'
    <2>1. UNCHANGED <<store, undo, lock, client>> /\ Bench!Committed' = Bench!Committed
      BY <1>3 DEF benchVars, Bench!Committed
    <2> QED BY <1>3, <2>1 DEF BenchInv
  <1> QED BY <1>1, <1>2, <1>3

LEMMA SameCardinality == \A S : Bench!Cardinality(S) = Cardinality(S)
  BY DEF Bench!Cardinality, Cardinality

LEMMA ConsistentRuns ==
  ASSUME BenchInv
  PROVE  Bench!RunsAreWhole
  <1> DEFINE t == Bench!Committed
  <1>1. t \in Tables /\ Consistent(t)
    BY DEF BenchInv, Bench!Committed
  <1>2. \A row \in t.results : row = <<row[1], row[2]>>
    BY <1>1, NewTables
  <1> HIDE DEF t
  <1>3. ASSUME NEW id \in Bench!Ids
        PROVE  LET own == {x \in t.runs : x.id = id} IN
               /\ Cardinality(own) <= 1
               /\ {row[2] : row \in {r \in t.results : r[1] = id}} = UNION {Bench!Pending(x.load) : x \in own}
    <2> DEFINE own == {x \in t.runs : x.id = id}
    <2>1. own = {} \/ \E r \in t.runs : own = {r}
      BY <1>1 DEF Consistent
    <2>2. Cardinality(own) <= 1
      <3> HIDE DEF own
      <3>1. own = {} => Cardinality(own) = 0
        BY FS_EmptySet
      <3>2. \A r : own = {r} => Cardinality(own) = 1
        BY FS_Singleton
      <3> QED BY <2>1, <3>1, <3>2
    <2>3. ASSUME NEW cell \in UNION {Bench!Pending(x.load) : x \in own}
          PROVE  cell \in {row[2] : row \in {r \in t.results : r[1] = id}}
      <3>1. PICK x \in own : cell \in Bench!Pending(x.load)
        OBVIOUS
      <3>2. <<id, cell>> \in t.results
        BY <1>1, <3>1 DEF Consistent
      <3>3. <<id, cell>> \in {r \in t.results : r[1] = id} /\ <<id, cell>>[2] = cell
        BY <3>2
      <3> QED BY <3>3
    <2>4. ASSUME NEW row \in t.results, row[1] = id
          PROVE  row[2] \in UNION {Bench!Pending(x.load) : x \in own}
      BY <1>1, <2>4 DEF Consistent
    <2> QED BY <2>2, <2>3, <2>4
  <1>4. ASSUME NEW c \in Clients, client[c].at = "read", ~client[c].torn
        PROVE  {row \in t.results : row[1] \in client[c].ids}
                 = UNION {{x.id} \X Bench!Pending(x.load) : x \in client[c].runs}
    <2>1. client[c].runs \subseteq t.runs /\ client[c].ids = {r.id : r \in client[c].runs}
      BY <1>4 DEF BenchInv, Relying, t
    <2>2. ASSUME NEW row \in t.results, row[1] \in client[c].ids
          PROVE  row \in UNION {{x.id} \X Bench!Pending(x.load) : x \in client[c].runs}
      <3>1. PICK x \in client[c].runs : x.id = row[1]
        BY <2>1, <2>2
      <3>2. row[2] \in Bench!Pending(x.load)
        BY <1>1, <2>1, <3>1 DEF Consistent
      <3>3. row \in {x.id} \X Bench!Pending(x.load)
        BY <1>2, <3>1, <3>2
      <3> QED BY <3>3
    <2>3. ASSUME NEW x \in client[c].runs, NEW row \in {x.id} \X Bench!Pending(x.load)
          PROVE  row \in t.results /\ row[1] \in client[c].ids
      <3>1. row = <<x.id, row[2]>> /\ row[2] \in Bench!Pending(x.load)
        OBVIOUS
      <3> QED BY <1>1, <2>1, <3>1 DEF Consistent
    <2> QED BY <2>2, <2>3
  <1>5. ASSUME NEW c \in Clients, client[c].at = "taken", client[c].own, ~client[c].torn
        PROVE  \E x \in t.runs : x.id.form = "be" \/ x.id.n >= Width
    BY <1>5 DEF BenchInv, Relying, t
  <1>6. \A id \in Bench!Ids :
          LET own == {x \in Bench!Committed.runs : x.id = id} IN
          /\ Cardinality(own) <= 1
          /\ {row[2] : row \in {r \in Bench!Committed.results : r[1] = id}}
               = UNION {Bench!Pending(x.load) : x \in own}
    BY <1>3, Zenon DEF t
  <1>7. \A c \in Clients :
          client[c].at = "read" /\ ~client[c].torn =>
            Bench!Answer(c) = UNION {{x.id} \X Bench!Pending(x.load) : x \in client[c].runs}
    BY <1>4, Zenon DEF t, Bench!Answer
  <1>8. \A c \in Clients :
          client[c].at = "taken" /\ client[c].own /\ ~client[c].torn =>
            \E x \in Bench!Committed.runs : x.id.form = "be" \/ x.id.n >= Width
    BY <1>5, Zenon DEF t
  <1> HIDE DEF t
  <1> QED BY <1>6, <1>7, <1>8, SameCardinality DEF Bench!RunsAreWhole

\* The state is typed.
LEMMA BenchIsTyped == BenchInv => Bench!TypeOK
  BY DEF BenchInv, Tables, Runs, Calls, Held, Bench!TypeOK

\* For any clients, payloads and widths, with crashes between the statements
\* (import_csv, delete_run, delete_benchmark and query, bench.py): a committed run
\* has the rows of its import, all of them and no other's; a query that no deletion
\* crossed answers with such runs; and a generated id is found taken only beside a
\* be-n or a number at the width.
THEOREM RunsStayWhole == Spec => []RunsAreWhole
  <1> DEFINE I == part = "bench" => BenchInv
  <1>1. Init => I
    BY BenchMove, BenchInvariance
  <1>2. I /\ [Next]_vars => I'
    BY BenchMove, BenchInvariance
  <1>3. I => RunsAreWhole
    BY ConsistentRuns DEF RunsAreWhole
  <1> QED BY <1>1, <1>2, <1>3, PTL DEF Spec

-----------------------------------------------------------------------------
(* Bench as an archive of whole runs. *)

\* What the writer that holds the lock is about to make of the runs that were
\* committed, u.
Aims(t, u, j) ==
  /\ j.do = "import" => ~Bench!Refused(j.load)
  /\ j.do = "run" => \E id \in Bench!Ids : j.ids \subseteq {id}
  /\ j.do = "benchmark" => j.bench \in Benchmarks
  /\ j.at = "commit" =>
       /\ j.do = "import" => \E id \in j.ids : /\ t.runs = u.runs \cup {Made(j, id)}
                                               /\ \A r \in u.runs : r.id # id
       /\ j.do # "import" => t.runs = {r \in u.runs : ~Doomed(j, r)}

ArchiveInv == BenchInv /\ (lock # Nobody => Aims(store, undo, client[lock]))

\* The holder of the lock goes on.
LEMMA AimStep ==
  ASSUME BenchInv, BenchInv', NEW c \in Clients, NEW j, client' = [client EXCEPT ![c] = j],
         lock' = c, Aims(store', undo', j)
  PROVE  ArchiveInv'
  <1>1. client'[lock'] = j
    BY DEF BenchInv
  <1> QED BY <1>1 DEF ArchiveInv

\* Another call moves.
LEMMA OtherAimStays ==
  ASSUME ArchiveInv, BenchInv', NEW c \in Clients, NEW j, client' = [client EXCEPT ![c] = j],
         UNCHANGED <<store, undo, lock>>, lock # c
  PROVE  ArchiveInv'
  <1>1. lock # Nobody => client'[lock'] = client[lock]
    BY DEF ArchiveInv, BenchInv
  <1> QED BY <1>1 DEF ArchiveInv

\* A call says what it is to do when it takes the lock.
LEMMA BeginAims ==
  ASSUME BenchInv, BenchInv', NEW c \in Writers,
         \/ \E bench \in Benchmarks, load \in Payloads : \E wanted : Bench!Import(c, bench, load, wanted)
         \/ \E id \in Bench!Ids : Bench!DeleteRun(c, id)
         \/ \E bench \in Benchmarks : Bench!DeleteBenchmark(c, bench)
  PROVE  ArchiveInv'
  <1>1. c \in Clients /\ Bench!Idle \in Calls
    BY BenchConstants, IdleCall
  <1>2. ASSUME NEW bench \in Benchmarks, NEW load \in Payloads, NEW wanted, Bench!Import(c, bench, load, wanted)
        PROVE  ArchiveInv'
    <2>1. PICK id \in Bench!Ids \cap (IF wanted = {} THEN Bench!NextIds(store.runs) ELSE wanted) :
            client' = [client EXCEPT ![c] =
              [Bench!Idle EXCEPT !.at = "check", !.do = "import", !.bench = bench, !.load = load,
                                 !.own = wanted = {}, !.ids = {id}]]
      BY <1>2 DEF Bench!Import, Bench!Goto
    <2>2. PICK own \in BOOLEAN : own = (wanted = {})
      OBVIOUS
    <2> DEFINE j == Importing(Bench!Idle, bench, load, own, {id})
    <2>3. client' = [client EXCEPT ![c] = j]
      BY <2>1, <2>2 DEF Importing
    <2>4. j.at = "check" /\ j.do = "import" /\ j.load = load
      BY <1>1, <2>1, ImportingCall
    <2> HIDE DEF j
    <2>5. lock' = c /\ ~Bench!Refused(load)
      BY <1>2 DEF Bench!Import, Bench!Take
    <2>6. Aims(store', undo', j)
      BY <2>4, <2>5 DEF Aims
    <2> QED BY <1>1, <2>3, <2>5, <2>6, AimStep
  <1>3. ASSUME NEW id \in Bench!Ids, Bench!DeleteRun(c, id) PROVE ArchiveInv'
    <2> DEFINE ids == {r.id : r \in {s \in store.runs : s.id = id}}
               j == DeletingRun(Bench!Idle, ids)
    <2>1. client' = [client EXCEPT ![c] = j] /\ lock' = c
      BY <1>3 DEF Bench!DeleteRun, Bench!Goto, Bench!Take, DeletingRun
    <2>2. ids \subseteq {id}
      OBVIOUS
    <2>3. j.at = "check" /\ j.do = "run" /\ j.ids = ids
      BY <1>1, <2>2, DeletingRunCall
    <2> HIDE DEF j, ids
    <2>4. Aims(store', undo', j)
      BY <2>2, <2>3 DEF Aims
    <2> QED BY <1>1, <2>1, <2>4, AimStep
  <1>4. ASSUME NEW bench \in Benchmarks, Bench!DeleteBenchmark(c, bench) PROVE ArchiveInv'
    <2> DEFINE ids == {r.id : r \in {s \in store.runs : s.bench = bench}}
               j == DeletingBenchmark(Bench!Idle, bench, ids)
    <2>1. client' = [client EXCEPT ![c] = j] /\ lock' = c
      BY <1>4 DEF Bench!DeleteBenchmark, Bench!Goto, Bench!Take, DeletingBenchmark
    <2>2. ids \in SUBSET Bench!Ids
      BY DEF BenchInv, Tables, Runs
    <2>3. j.at = "check" /\ j.do = "benchmark" /\ j.bench = bench
      BY <1>1, <2>2, DeletingBenchmarkCall
    <2> HIDE DEF j, ids
    <2>4. Aims(store', undo', j)
      BY <2>3 DEF Aims
    <2> QED BY <1>1, <2>1, <2>4, AimStep
  <1> QED BY <1>2, <1>3, <1>4

\* It keeps to that with each statement, and before the commit has done it.
LEMMA StatementAims ==
  ASSUME ArchiveInv, BenchInv', NEW c \in Writers,
         Bench!InsertRun(c) \/ Bench!InsertRows(c) \/ Bench!DeleteRows(c) \/ Bench!DeleteRuns(c)
  PROVE  ArchiveInv'
  <1>1. PICK at \in {"rows", "run", "commit"} :
          /\ client' = [client EXCEPT ![c] = [client[c] EXCEPT !.at = at]] /\ UNCHANGED <<undo, lock>>
          /\ at = "commit" => Bench!InsertRows(c) \/ Bench!DeleteRuns(c)
    BY DEF Bench!InsertRun, Bench!InsertRows, Bench!DeleteRows, Bench!DeleteRuns, Bench!Goto
  <1> DEFINE j == [client[c] EXCEPT !.at = at]
  <1>2. c \in Clients /\ client[c] \in Calls /\ lock = c /\ Holding(store, undo, client[c]) /\ store \in Tables
    BY BenchConstants
       DEF ArchiveInv, BenchInv, Held, Bench!InsertRun, Bench!InsertRows, Bench!DeleteRows, Bench!DeleteRuns
  <1>3. Aims(store, undo, client[c])
    BY <1>2, BenchConstants DEF ArchiveInv
  <1>4. /\ j.at = at /\ j.do = client[c].do /\ j.bench = client[c].bench
        /\ j.load = client[c].load /\ j.ids = client[c].ids
    BY <1>2, MovedCall DEF Held
  <1>5. client' = [client EXCEPT ![c] = j]
    BY <1>1
  <1> HIDE DEF j
  <1>6. ASSUME Bench!InsertRows(c)
        PROVE  /\ j.do = "import"
               /\ \E id \in j.ids : store'.runs = undo.runs \cup {Made(j, id)} /\ \A r \in undo.runs : r.id # id
    <2>1. client[c].at = "rows" /\ client[c].do = "import"
      BY <1>6 DEF Bench!InsertRows
    <2>2. store'.runs = store.runs
      <3> DEFINE results == store.results \cup (client[c].ids \X Bench!Pending(client[c].load))
      <3>1. store' = [store EXCEPT !.results = results]
        BY <1>6 DEF Bench!InsertRows
      <3> HIDE DEF results
      <3> QED BY <1>2, <3>1 DEF Tables
    <2>3. PICK id \in client[c].ids : /\ store.runs = undo.runs \cup {Made(client[c], id)}
                                      /\ \A r \in undo.runs : r.id # id
      BY <1>2, <2>1 DEF Holding
    <2>4. Made(j, id) = Made(client[c], id)
      BY <1>4 DEF Made
    <2> QED BY <1>4, <2>1, <2>2, <2>3, <2>4
  <1>7. ASSUME Bench!DeleteRuns(c)
        PROVE  j.do # "import" /\ store'.runs = {r \in undo.runs : ~Doomed(j, r)}
    <2>1. client[c].do # "import" /\ store.runs = undo.runs
      BY <1>2, <1>7 DEF Bench!DeleteRuns, Holding
    <2> DEFINE runs == {r \in store.runs : ~Doomed(client[c], r)}
    <2>2. store' = [store EXCEPT !.runs = runs]
      BY <1>7 DEF Bench!DeleteRuns, Doomed
    <2>3. runs = {r \in undo.runs : ~Doomed(j, r)}
      BY <1>4, <2>1 DEF Doomed
    <2> HIDE DEF runs
    <2>4. store'.runs = runs
      BY <1>2, <2>2 DEF Tables
    <2> QED BY <1>4, <2>1, <2>3, <2>4
  <1>8. Aims(store', undo, j)
    BY <1>1, <1>3, <1>4, <1>6, <1>7 DEF Aims
  <1> QED BY <1>1, <1>2, <1>5, <1>8, AimStep DEF ArchiveInv

LEMMA ArchiveInvariance ==
  /\ Bench!Init => ArchiveInv
  /\ ArchiveInv /\ [Bench!Next]_benchVars => ArchiveInv'
  <1>1. Bench!Init => ArchiveInv
    BY BenchInvariance DEF Bench!Init, ArchiveInv
  <1>2. ASSUME ArchiveInv, [Bench!Next]_benchVars PROVE ArchiveInv'
    <2>1. BenchInv /\ BenchInv'
      BY <1>2, BenchInvariance DEF ArchiveInv
    <2>2. CASE UNCHANGED benchVars
      BY <1>2, <2>1, <2>2 DEF benchVars, ArchiveInv
    <2>3. ASSUME NEW c \in Clients, Bench!Return(c) \/ \E bench \in Benchmarks : Bench!Query(c, bench)
          PROVE  ArchiveInv'
      <3>1. lock # c /\ UNCHANGED <<store, undo, lock>> /\ \E j : client' = [client EXCEPT ![c] = j]
        BY <2>1, <2>3 DEF Bench!Return, Bench!Query, Bench!Goto, BenchInv, Held
      <3> QED BY <1>2, <2>1, <3>1, OtherAimStays
    <2>4. ASSUME NEW c \in Writers, Bench!Refuse(c) \/ Bench!Commit(c) \/ Bench!Crash(c)
          PROVE  ArchiveInv'
      BY <2>1, <2>4 DEF ArchiveInv, Bench!Refuse, Bench!Commit, Bench!Crash
    <2>5. CASE Bench!Next
      BY <1>2, <2>1, <2>3, <2>4, <2>5, BeginAims, StatementAims DEF Bench!Next
    <2> QED BY <1>2, <2>2, <2>5 DEF Bench!vars, benchVars
  <1> QED BY <1>1, <1>2

\* A run as the archive has it.
Filed(r) == [id |-> r.id, bench |-> r.bench, cells |-> Bench!Pending(r.load)]
Filing(runs) == {Filed(r) : r \in runs}

\* Of consistent tables, the rows of a run are its measurements.
LEMMA ArchivedIsFiled ==
  ASSUME NEW t \in Tables, Consistent(t)
  PROVE  Bench!Archived(t) = Filing(t.runs)
  <1>1. ASSUME NEW r \in t.runs
        PROVE  {row[2] : row \in {x \in t.results : x[1] = r.id}} = Bench!Pending(r.load)
    <2>1. ASSUME NEW row \in t.results, row[1] = r.id PROVE row[2] \in Bench!Pending(r.load)
      BY <2>1 DEF Consistent
    <2>2. ASSUME NEW cell \in Bench!Pending(r.load)
          PROVE  cell \in {row[2] : row \in {x \in t.results : x[1] = r.id}}
      <3>1. <<r.id, cell>> \in {x \in t.results : x[1] = r.id}
        BY DEF Consistent
      <3> QED BY <3>1
    <2> QED BY <2>1, <2>2
  <1> DEFINE Entry(r) == [id |-> r.id, bench |-> r.bench,
                          cells |-> {row[2] : row \in {x \in t.results : x[1] = r.id}}]
  <1>2. \A r \in t.runs : Entry(r) = Filed(r)
    BY <1>1 DEF Filed
  <1>3. Bench!Archived(t) = {Entry(r) : r \in t.runs}
    BY DEF Bench!Archived
  <1> HIDE DEF Entry
  <1> QED BY <1>2, <1>3 DEF Filing

\* What can be seen changes only with a commit.
LEMMA OnlyCommitsShow ==
  ASSUME BenchInv, [Bench!Next]_benchVars, ~\E c \in Writers : Bench!Commit(c)
  PROVE  Bench!Committed' = Bench!Committed
  <1>1. CASE UNCHANGED benchVars
    BY <1>1 DEF benchVars, Bench!Committed
  <1>2. ASSUME NEW c \in Clients, Bench!Return(c) \/ \E bench \in Benchmarks : Bench!Query(c, bench)
        PROVE  Bench!Committed' = Bench!Committed
    BY <1>2 DEF Bench!Return, Bench!Query, Bench!Committed
  <1>3. ASSUME NEW c \in Writers,
               \/ \E bench \in Benchmarks, load \in Payloads : \E wanted : Bench!Import(c, bench, load, wanted)
               \/ \E id \in Bench!Ids : Bench!DeleteRun(c, id)
               \/ \E bench \in Benchmarks : Bench!DeleteBenchmark(c, bench)
        PROVE  Bench!Committed' = Bench!Committed
    <2>1. Bench!Take(c) /\ UNCHANGED store /\ c # Nobody
      BY <1>3, BenchConstants DEF Bench!Import, Bench!DeleteRun, Bench!DeleteBenchmark
    <2> QED BY <2>1 DEF Bench!Take, Bench!Committed
  <1>4. ASSUME NEW c \in Writers,
               Bench!InsertRun(c) \/ Bench!InsertRows(c) \/ Bench!DeleteRows(c) \/ Bench!DeleteRuns(c)
        PROVE  Bench!Committed' = Bench!Committed
    <2>1. lock = c /\ c # Nobody /\ UNCHANGED <<undo, lock>>
      BY <1>4, BenchConstants
         DEF BenchInv, Held, Bench!InsertRun, Bench!InsertRows, Bench!DeleteRows, Bench!DeleteRuns
    <2> QED BY <2>1 DEF Bench!Committed
  <1>5. ASSUME NEW c \in Writers, Bench!Refuse(c) PROVE Bench!Committed' = Bench!Committed
    <2>1. lock = c /\ c # Nobody /\ lock' = Nobody /\ UNCHANGED store /\ client[c].at = "check"
      BY <1>5, BenchConstants DEF BenchInv, Held, Bench!Refuse
    <2>2. store = undo
      BY <2>1 DEF BenchInv, Holding
    <2> QED BY <2>1, <2>2 DEF Bench!Committed
  <1>6. ASSUME NEW c \in Writers, Bench!Crash(c) PROVE Bench!Committed' = Bench!Committed
    BY <1>6, BenchConstants DEF Bench!Crash, Bench!Committed
  <1> QED BY <1>1, <1>2, <1>3, <1>4, <1>5, <1>6 DEF Bench!Next, Bench!vars, benchVars

\* And a commit shows what the call was to do.
LEMMA CommitsShowWholeCalls ==
  ASSUME ArchiveInv, BenchInv', NEW c \in Writers, Bench!Commit(c)
  PROVE  [Archive!Next]_Bench!Kept
  <1> DEFINE j == client[c]
  <1>1. lock = c /\ c # Nobody /\ lock' = Nobody /\ store' = store /\ j.at = "commit"
    BY BenchConstants DEF ArchiveInv, BenchInv, Held, Bench!Commit
  <1>2. Bench!Committed = undo /\ Bench!Committed' = store
    BY <1>1 DEF Bench!Committed
  <1>3. Bench!Kept = Filing(undo.runs) /\ Bench!Kept' = Filing(store.runs)
    <2>1. Bench!Kept = Bench!Archived(undo) /\ Bench!Kept' = Bench!Archived(store)
      BY <1>2 DEF Bench!Kept, Bench!Archived
    <2>2. undo \in Tables /\ store \in Tables /\ Consistent(undo) /\ Consistent(store)
      BY <1>1, <1>2 DEF ArchiveInv, BenchInv
    <2> QED BY <2>1, <2>2, ArchivedIsFiled
  <1>4. Holding(store, undo, j) /\ Aims(store, undo, j) /\ j.ids \subseteq Bench!Ids
    <2>1. c \in Clients
      BY BenchConstants
    <2>2. j \in Calls
      BY <2>1 DEF ArchiveInv, BenchInv
    <2> QED BY <1>1, <2>2 DEF ArchiveInv, BenchInv, Calls
  <1> HIDE DEF j
  <1>5. CASE j.do = "import"
    <2>1. PICK id \in j.ids : store.runs = undo.runs \cup {Made(j, id)} /\ \A r \in undo.runs : r.id # id
      BY <1>1, <1>4, <1>5 DEF Aims
    <2>2. id \in Bench!Ids /\ j.bench \in Benchmarks /\ Bench!Pending(j.load) \in Bench!Sheets
      BY <1>4, <1>5, <2>1 DEF Aims, Holding, Bench!Sheets
    <2>3. Filed(Made(j, id)) = [id |-> id, bench |-> j.bench, cells |-> Bench!Pending(j.load)]
      BY DEF Filed, Made
    <2>4. Bench!Kept' = Bench!Kept \cup {[id |-> id, bench |-> j.bench, cells |-> Bench!Pending(j.load)]}
      BY <1>3, <2>1, <2>3 DEF Filing
    <2>5. \A k \in Bench!Kept : k.id # id
      BY <1>3, <2>1 DEF Filing, Filed
    <2>6. Archive!Import(id, j.bench, Bench!Pending(j.load))
      BY <2>4, <2>5 DEF Archive!Import
    <2> QED BY <2>2, <2>6 DEF Archive!Next
  <1>6. CASE j.do # "import"
    <2>1. store.runs = {r \in undo.runs : ~Doomed(j, r)}
      BY <1>1, <1>4, <1>6 DEF Aims
    <2>2. CASE j.do = "run"
      <3>1. PICK id \in Bench!Ids : j.ids \subseteq {id}
        BY <1>4, <2>2 DEF Aims
      <3>2. CASE j.ids = {}
        <4>1. store.runs = undo.runs
          BY <2>1, <2>2, <3>2 DEF Doomed
        <4> QED BY <1>3, <4>1
      <3>3. CASE j.ids = {id}
        <4>1. \A r \in undo.runs : r \in store.runs <=> r.id # id
          BY <2>1, <2>2, <3>3 DEF Doomed
        <4>2. store.runs \subseteq undo.runs
          BY <2>1
        <4>3. \A r : Filed(r).id = r.id
          BY DEF Filed
        <4>4. Filing(store.runs) = {k \in Filing(undo.runs) : k.id # id}
          BY <4>1, <4>2, <4>3 DEF Filing
        <4> QED BY <1>3, <4>4 DEF Archive!Next, Archive!DeleteRun
      <3> QED BY <3>1, <3>2, <3>3
    <2>3. CASE j.do = "benchmark"
      <3>1. j.bench \in Benchmarks
        BY <1>4, <2>3 DEF Aims
      <3>2. \A r \in undo.runs : r \in store.runs <=> r.bench # j.bench
        BY <2>1, <2>3 DEF Doomed
      <3>3. store.runs \subseteq undo.runs
        BY <2>1
      <3>4. \A r : Filed(r).bench = r.bench
        BY DEF Filed
      <3>5. Filing(store.runs) = {k \in Filing(undo.runs) : k.bench # j.bench}
        BY <3>2, <3>3, <3>4 DEF Filing
      <3> QED BY <1>3, <3>1, <3>5 DEF Archive!Next, Archive!DeleteBenchmark
    <2> QED BY <1>4, <1>6, <2>2, <2>3 DEF Holding
  <1> QED BY <1>5, <1>6

LEMMA BenchStill == [Next]_vars /\ part # "bench" => UNCHANGED benchVars
  BY DEF Next, vars

\* For any clients, payloads and widths (import_csv, delete_run and
\* delete_benchmark, bench.py): however the statements of the calls and crashes
\* come between one another, what is committed of the two tables is an archive of
\* whole runs, to which an import adds one run with all its measurements, and from
\* which a deletion takes the runs it names, each in one step.
THEOREM ArchiveStaysAtomic == Spec => ArchiveIsAtomic
  <1> DEFINE I == part = "bench" => ArchiveInv
  <1>1. Init => I /\ Archive!Init
    <2> SUFFICES ASSUME Init PROVE I /\ Archive!Init
      OBVIOUS
    <2>1. Bench!Init
      BY BenchMove
    <2>2. Bench!Committed.runs = {}
      BY <2>1 DEF Bench!Init, Bench!Committed
    <2>3. Bench!Kept = {}
      BY <2>2 DEF Bench!Kept, Bench!Archived
    <2> QED BY <2>1, <2>3, ArchiveInvariance DEF Archive!Init
  <1>2. I /\ [Next]_vars => I'
    BY BenchMove, ArchiveInvariance
  <1>3. I /\ [Next]_vars => [Archive!Next]_Bench!Kept
    <2> SUFFICES ASSUME I, [Next]_vars PROVE [Archive!Next]_Bench!Kept
      OBVIOUS
    <2>1. CASE part # "bench"
      <3>1. Bench!Committed' = Bench!Committed
        BY <2>1, BenchStill DEF benchVars, Bench!Committed
      <3> QED BY <3>1 DEF Bench!Kept, Bench!Archived
    <2>2. CASE part = "bench"
      <3>1. ArchiveInv /\ [Bench!Next]_benchVars
        BY <2>2, BenchMove
      <3>2. BenchInv /\ BenchInv'
        BY <3>1, BenchInvariance DEF ArchiveInv
      <3>3. CASE \E c \in Writers : Bench!Commit(c)
        BY <3>1, <3>2, <3>3, CommitsShowWholeCalls
      <3>4. CASE ~\E c \in Writers : Bench!Commit(c)
        <4>1. Bench!Committed' = Bench!Committed
          BY <3>1, <3>2, <3>4, OnlyCommitsShow
        <4> QED BY <4>1 DEF Bench!Kept, Bench!Archived
      <3> QED BY <3>3, <3>4
    <2> QED BY <2>1, <2>2
  <1> HIDE DEF I
  <1> QED BY <1>1, <1>2, <1>3, PTL DEF Spec, ArchiveIsAtomic, Archive!Spec

-----------------------------------------------------------------------------
(* Trailers: what a pass knows, what it has said, and how often it can say it. *)

LEMMA TrailersMove ==
  /\ Init => (part = "trailers" => Trailers!Init)
  /\ [Next]_vars => part' = part /\ (part = "trailers" => [Trailers!Next]_trailersVars)
  BY DEF Init, Next, vars, trailersVars

LEMMA TrailersConstants ==
  /\ Messages \subseteq Seq(Trailers!Verbs \X Noted) /\ IsFiniteSet(Passes)
  /\ MaxLog \in Nat /\ MaxTouches \in Nat /\ MaxPasses \in Nat
  BY PartsAssumption
     DEF PartsAssumption, Trailers!TrailersAssumption, Trailers!IsFiniteSet, IsFiniteSet

-----------------------------------------------------------------------------
(* A sequence of sequences, laid end to end. *)

\* The first n of them, laid end to end.
Flat(f, seqs, n) == f = [i \in 1 .. n |-> IF i = 1 THEN seqs[i] ELSE f[i - 1] \o seqs[i]]

\* There is such a function.
LEMMA FlatExists ==
  ASSUME NEW seqs, NEW n \in Nat
  PROVE  \E f : Flat(f, seqs, n)
  <1> DEFINE bad == {m \in Nat : ~\E f : Flat(f, seqs, m)}
  <1>1. bad = {}
    <2> SUFFICES ASSUME bad # {} PROVE FALSE
      OBVIOUS
    <2>1. PICK m \in bad : \A k \in bad : m <= k
      <3>1. bad \in SUBSET Nat
        OBVIOUS
      <3> HIDE DEF bad
      <3> QED BY <3>1, LeastExists
    <2>2. m # 0
      <3>1. Flat([i \in 1 .. 0 |-> seqs[i]], seqs, 0)
        BY DEF Flat
      <3> QED BY <3>1
    <2>3. m - 1 \in Nat /\ m - 1 \notin bad
      BY <2>1, <2>2
    <2>4. PICK g : Flat(g, seqs, m - 1)
      BY <2>3
    <2> DEFINE f == [i \in 1 .. m |-> IF i = m THEN (IF m = 1 THEN seqs[m] ELSE g[m - 1] \o seqs[m]) ELSE g[i]]
    <2>5. \A i \in 1 .. (m - 1) : g[i] = IF i = 1 THEN seqs[i] ELSE g[i - 1] \o seqs[i]
      BY <2>4 DEF Flat
    <2>6. ASSUME NEW i \in 1 .. m PROVE f[i] = IF i = 1 THEN seqs[i] ELSE f[i - 1] \o seqs[i]
      <3>1. CASE i = m
        <4>1. m # 1 => f[m - 1] = g[m - 1]
          BY <2>3
        <4> QED BY <3>1, <4>1
      <3>2. CASE i # m
        <4>1. i \in 1 .. (m - 1) /\ f[i] = g[i]
          BY <2>3, <3>2
        <4>2. i # 1 => f[i - 1] = g[i - 1]
          BY <2>3, <3>2
        <4> QED BY <2>5, <4>1, <4>2
      <3> QED BY <3>1, <3>2
    <2>7. f = [i \in 1 .. m |-> f[i]]
      OBVIOUS
    <2> HIDE DEF f
    <2>8. Flat(f, seqs, m)
      BY <2>6, <2>7 DEF Flat
    <2> QED BY <2>8
  <1> QED BY <1>1

\* What is in it, and in what order.
Laid(flat, seqs, n, S) ==
  /\ flat \in Seq(S)
  /\ \A k \in 1 .. n : \A j \in DOMAIN seqs[k] : \E i \in DOMAIN flat : flat[i] = seqs[k][j]
  /\ \A i \in DOMAIN flat : \E k \in 1 .. n : \E j \in DOMAIN seqs[k] : flat[i] = seqs[k][j]
  /\ \A i, o \in DOMAIN flat : i <= o =>
       \E k, m \in 1 .. n : /\ k <= m
                            /\ \E j \in DOMAIN seqs[k] : flat[i] = seqs[k][j]
                            /\ \E j \in DOMAIN seqs[m] : flat[o] = seqs[m][j]

\* One more is laid on.
LEMMA LaidOn ==
  ASSUME NEW S, NEW seqs, NEW n \in Nat, NEW flat, Laid(flat, seqs, n, S), seqs[n + 1] \in Seq(S)
  PROVE  Laid(flat \o seqs[n + 1], seqs, n + 1, S)
  <1> DEFINE last == seqs[n + 1]
             all == flat \o last
  <1>1. /\ flat \in Seq(S) /\ last \in Seq(S)
        /\ Len(flat) \in Nat /\ DOMAIN flat = 1 .. Len(flat)
        /\ Len(last) \in Nat /\ DOMAIN last = 1 .. Len(last)
    BY DEF Laid
  <1>2. /\ all \in Seq(S) /\ DOMAIN all = 1 .. (Len(flat) + Len(last))
        /\ \A i \in 1 .. (Len(flat) + Len(last)) :
             all[i] = IF i <= Len(flat) THEN flat[i] ELSE last[i - Len(flat)]
    <2>1. all \in Seq(S) /\ Len(all) = Len(flat) + Len(last)
      BY <1>1, ConcatProperties
    <2>2. DOMAIN all = 1 .. Len(all)
      BY <2>1
    <2> HIDE DEF all, last
    <2> QED BY <1>1, <2>1, <2>2, ConcatProperties DEF all
  <1> HIDE DEF all, last
  <1>3. \A i \in DOMAIN all : \/ i \in DOMAIN flat /\ all[i] = flat[i]
                              \/ i > Len(flat) /\ i - Len(flat) \in DOMAIN last /\ all[i] = last[i - Len(flat)]
    BY <1>1, <1>2
  <1>4. \A k \in 1 .. n : k \in 1 .. (n + 1)
    OBVIOUS
  <1>5. n + 1 \in 1 .. (n + 1) /\ \A k \in 1 .. (n + 1) : k \in 1 .. n \/ k = n + 1
    OBVIOUS
  <1>6. ASSUME NEW k \in 1 .. (n + 1), NEW j \in DOMAIN seqs[k]
        PROVE  \E i \in DOMAIN all : all[i] = seqs[k][j]
    <2>1. CASE k \in 1 .. n
      <3>1. PICK i \in DOMAIN flat : flat[i] = seqs[k][j]
        BY <1>6, <2>1 DEF Laid
      <3>2. i \in DOMAIN all /\ all[i] = flat[i]
        BY <1>1, <1>2, <3>1
      <3> QED BY <3>1, <3>2
    <2>2. CASE k = n + 1
      <3>1. j \in DOMAIN last
        BY <1>6, <2>2 DEF last
      <3>2. j + Len(flat) \in DOMAIN all /\ all[j + Len(flat)] = last[j]
        <4>1. /\ j \in Nat /\ j >= 1 /\ j <= Len(last)
          BY <1>1, <3>1
        <4>2. j + Len(flat) \in 1 .. (Len(flat) + Len(last)) /\ ~(j + Len(flat) <= Len(flat))
              /\ (j + Len(flat)) - Len(flat) = j
          BY <1>1, <4>1
        <4> QED BY <1>2, <4>2
      <3> QED BY <2>2, <3>2 DEF last
    <2> QED BY <1>5, <2>1, <2>2
  <1>7. ASSUME NEW i \in DOMAIN all
        PROVE  \E k \in 1 .. (n + 1) : \E j \in DOMAIN seqs[k] : all[i] = seqs[k][j]
    <2>1. CASE i \in DOMAIN flat /\ all[i] = flat[i]
      <3>1. PICK k \in 1 .. n : \E j \in DOMAIN seqs[k] : flat[i] = seqs[k][j]
        BY <2>1 DEF Laid
      <3> QED BY <1>4, <2>1, <3>1
    <2>2. CASE i - Len(flat) \in DOMAIN last /\ all[i] = last[i - Len(flat)]
      BY <1>5, <2>2 DEF last
    <2> QED BY <1>3, <2>1, <2>2
  <1>8. ASSUME NEW i \in DOMAIN all, NEW o \in DOMAIN all, i <= o
        PROVE  \E k, m \in 1 .. (n + 1) : /\ k <= m
                                          /\ \E j \in DOMAIN seqs[k] : all[i] = seqs[k][j]
                                          /\ \E j \in DOMAIN seqs[m] : all[o] = seqs[m][j]
    <2>1. CASE o \in DOMAIN flat /\ all[o] = flat[o]
      <3>1. i \in DOMAIN flat /\ all[i] = flat[i]
        BY <1>1, <1>2, <1>3, <1>8, <2>1
      <3>2. PICK k \in 1 .. n, m \in 1 .. n : /\ k <= m
                                              /\ \E j \in DOMAIN seqs[k] : flat[i] = seqs[k][j]
                                              /\ \E j \in DOMAIN seqs[m] : flat[o] = seqs[m][j]
        BY <1>8, <2>1, <3>1 DEF Laid
      <3> QED BY <1>4, <2>1, <3>1, <3>2
    <2>2. CASE o - Len(flat) \in DOMAIN last /\ all[o] = last[o - Len(flat)]
      <3>1. PICK k \in 1 .. (n + 1) : \E j \in DOMAIN seqs[k] : all[i] = seqs[k][j]
        BY <1>7
      <3>2. \E j \in DOMAIN seqs[n + 1] : all[o] = seqs[n + 1][j]
        BY <2>2 DEF last
      <3>3. k <= n + 1
        OBVIOUS
      <3> QED BY <1>5, <3>1, <3>2, <3>3
    <2> QED BY <1>3, <2>1, <2>2
  <1>9. Laid(all, seqs, n + 1, S)
    <2>1. \A k \in 1 .. (n + 1) : \A j \in DOMAIN seqs[k] : \E i \in DOMAIN all : all[i] = seqs[k][j]
      BY <1>6
    <2>2. \A i \in DOMAIN all : \E k \in 1 .. (n + 1) : \E j \in DOMAIN seqs[k] : all[i] = seqs[k][j]
      BY <1>7
    <2>3. \A i, o \in DOMAIN all : i <= o =>
            \E k, m \in 1 .. (n + 1) : /\ k <= m
                                       /\ \E j \in DOMAIN seqs[k] : all[i] = seqs[k][j]
                                       /\ \E j \in DOMAIN seqs[m] : all[o] = seqs[m][j]
      BY <1>8
    <2>4. all \in Seq(S)
      BY <1>2
    <2> QED BY <2>1, <2>2, <2>3, <2>4, Zenon DEF Laid
  <1> QED BY <1>9 DEF all, last

\* FlattenSeq lays all of them.
LEMMA FlattenLays ==
  ASSUME NEW S, NEW n \in Nat \ {0}, NEW seqs \in [1 .. n -> Seq(S)]
  PROVE  Laid(Trailers!FlattenSeq(seqs), seqs, n, S)
  <1>1. Len(seqs) = n /\ seqs \in Seq(Seq(S))
    OBVIOUS
  <1> DEFINE Body(g, i) == IF i = 1 THEN seqs[i] ELSE g[i - 1] \o seqs[i]
             flatten == CHOOSE g : g = [i \in 1 .. Len(seqs) |-> Body(g, i)]
  <1>2. Trailers!FlattenSeq(seqs) = flatten[Len(seqs)]
    <2>1. Len(seqs) # 0
      BY <1>1
    <2> QED BY <2>1 DEF Trailers!FlattenSeq
  <1>3. PICK f : Flat(f, seqs, n)
    BY FlatExists
  <1>4. f = [i \in 1 .. Len(seqs) |-> Body(f, i)]
    BY <1>1, <1>3 DEF Flat
  <1> HIDE DEF Body
  <1>5. flatten = [i \in 1 .. Len(seqs) |-> Body(flatten, i)]
    BY <1>4
  <1> HIDE DEF flatten
  <1>6. \A i \in 1 .. n : flatten[i] = IF i = 1 THEN seqs[i] ELSE flatten[i - 1] \o seqs[i]
    BY <1>1, <1>5 DEF Body
  <1> DEFINE bad == {i \in 1 .. n : ~Laid(flatten[i], seqs, i, S)}
  <1>7. bad = {}
    <2> SUFFICES ASSUME bad # {} PROVE FALSE
      OBVIOUS
    <2>1. PICK m \in bad : \A k \in bad : m <= k
      <3>1. bad \in SUBSET Nat
        OBVIOUS
      <3> HIDE DEF bad
      <3> QED BY <3>1, LeastExists
    <2>2. CASE m = 1
      <3>1. flatten[1] = seqs[1] /\ seqs[1] \in Seq(S)
        BY <1>6
      <3>2. Laid(seqs[1], seqs, 1, S)
        <4>1. 1 .. 1 = {1}
          OBVIOUS
        <4> QED BY <3>1, <4>1 DEF Laid
      <3> QED BY <2>1, <2>2, <3>1, <3>2
    <2>3. CASE m # 1
      <3>1. m - 1 \in Nat /\ m - 1 \in 1 .. n /\ (m - 1) + 1 = m /\ m - 1 \notin bad
        BY <2>1, <2>3
      <3>2. Laid(flatten[m - 1], seqs, m - 1, S) /\ seqs[m] \in Seq(S)
        BY <3>1
      <3>3. Laid(flatten[m - 1] \o seqs[m], seqs, m, S)
        BY <3>1, <3>2, LaidOn
      <3>4. flatten[m] = flatten[m - 1] \o seqs[m]
        BY <1>6, <2>3
      <3> QED BY <3>3, <3>4
    <2> QED BY <2>2, <2>3
  <1> QED BY <1>1, <1>2, <1>7

-----------------------------------------------------------------------------
(* What a pass knows. *)

\* What a commit cites, the newest of a range that cites it, and the ranges there are.
Cites(log, c, verb, card) == \E i \in DOMAIN log[c] : log[c][i] = <<verb, card>>
NewestOf(log, range, verb, card) ==
  {c \in range[1] .. range[2] :
     Cites(log, c, verb, card) /\ \A d \in (c + 1) .. range[2] : ~Cites(log, d, verb, card)}
Stretches(log) == {r \in (1 .. MaxLog) \X (1 .. MaxLog) : r[1] <= r[2] /\ r[2] <= Len(log)}

\* A trailer, what a pass can be and what the cards can be.
Trailer == Trailers!Verbs \X Noted \X (1 .. MaxLog)
Rounds ==
  [at : {"idle", "read", "write"}, range : ((1 .. MaxLog) \X (1 .. MaxLog)) \cup {<<>>}, todo : Seq(Trailer),
   seen : SUBSET (Trailers!Verbs \X Noted), dry : BOOLEAN, fresh : BOOLEAN, quiet : BOOLEAN,
   again : BOOLEAN, report : SUBSET (Trailers!Buckets \X Noted)]
Books == [Noted -> [status : {"absent", "open"} \cup Trailers!Terminal, notes : [Trailers!Notes -> Nat]]]

\* What is to do is what the range cites of what was not seen, newest first.
Planned(q, log) ==
  \/ q.range = <<>> /\ q.todo = <<>>
  \/ /\ q.range \in Stretches(log)
     /\ \A i \in DOMAIN q.todo : /\ q.todo[i][3] \in q.range[1] .. q.range[2]
                                 /\ Cites(log, q.todo[i][3], q.todo[i][1], q.todo[i][2])
     /\ \A i, j \in DOMAIN q.todo : i <= j => q.todo[j][3] <= q.todo[i][3]
     /\ \A verb \in Trailers!Verbs, card \in Noted : \A c \in q.range[1] .. q.range[2] :
          Cites(log, c, verb, card) /\ <<verb, card>> \notin q.seen =>
            \E i \in DOMAIN q.todo : q.todo[i] = <<verb, card, c>>

\* A card that needs no word of this commit.
Spoken(book, verb, card, c) ==
  \/ book[card].status = "absent"
  \/ verb = "resolves" /\ book[card].status \in Trailers!Terminal
  \/ book[card].notes[<<verb, c>>] > 0
SettledFor(range, book, log) ==
  \A verb \in Trailers!Verbs, card \in Noted : \A c \in NewestOf(log, range, verb, card) :
    Spoken(book, verb, card, c)

\* What a pass did for what it saw.
Reported(q, book, log) ==
  q.quiet /\ ~q.dry /\ q.range # <<>> =>
    \A verb \in Trailers!Verbs, card \in Noted : \A c \in NewestOf(log, q.range, verb, card) :
      <<verb, card>> \in q.seen =>
        /\ Spoken(book, verb, card, c)
        /\ book[card].status = "absent" => <<"missing", card>> \in q.report

\* What a pass that is about to write knows of the card.
Entitled(q, book) ==
  LET t == Head(q.todo) IN
  q.at = "write" =>
    /\ q.todo # <<>> /\ <<t[1], t[2]>> \notin q.seen /\ ~q.dry /\ ~q.again
    /\ book[t[2]].status # "absent"
    /\ q.fresh => /\ t[1] = "resolves" => book[t[2]].status \notin Trailers!Terminal
                  /\ book[t[2]].notes[<<t[1], t[3]>>] = 0

GoodRound(q, book, log) ==
  /\ q \in Rounds /\ Planned(q, log) /\ Entitled(q, book) /\ Reported(q, book, log)
  /\ q.again /\ q.range # <<>> => SettledFor(q.range, book, log)

\* The passes that may still write a note with this verb on this card.
Pending(rounds, verb, card) ==
  {p \in Passes : rounds[p].at # "idle" /\ <<verb, card>> \notin rounds[p].seen}

\* The invariant: each pass is good, what is settled needs no word, and a note is on
\* its card once for each pass that spent its word on it.
TrailersInv ==
  /\ notebook \in Books /\ commits \in Seq(Messages) /\ Len(commits) <= MaxLog
  /\ budget \in [edits : 0 .. MaxTouches, passes : 0 .. MaxPasses]
  /\ trail \in [Passes -> Rounds]
  /\ \A p \in Passes : GoodRound(trail[p], notebook, commits)
  /\ settled \subseteq Stretches(commits)
  /\ \A range \in settled : SettledFor(range, notebook, commits)
  /\ \A verb \in Trailers!Verbs, card \in Noted : \A c \in 1 .. MaxLog :
       notebook[card].notes[<<verb, c>>] + Cardinality(Pending(trail, verb, card)) <= budget.passes

\* Of what was not seen, the next trailer is the newest.
LEMMA HeadIsNewest ==
  ASSUME NEW log, NEW q \in Rounds, Planned(q, log), q.todo # <<>>,
         <<Head(q.todo)[1], Head(q.todo)[2]>> \notin q.seen
  PROVE  /\ q.range # <<>> => NewestOf(log, q.range, Head(q.todo)[1], Head(q.todo)[2]) = {Head(q.todo)[3]}
         /\ q.range \in Stretches(log)
  <1> DEFINE t == Head(q.todo)
  <1>1. /\ q.todo \in Seq(Trailer) /\ 1 \in DOMAIN q.todo /\ t = q.todo[1] /\ t \in Trailer
        /\ DOMAIN q.todo = 1 .. Len(q.todo) /\ Len(q.todo) \in Nat
    BY DEF Rounds
  <1>2. t[1] \in Trailers!Verbs /\ t[2] \in Noted /\ t[3] \in 1 .. MaxLog
    BY <1>1 DEF Trailer
  <1>3. /\ q.range \in Stretches(log)
        /\ t[3] \in q.range[1] .. q.range[2] /\ Cites(log, t[3], t[1], t[2])
        /\ \A j \in DOMAIN q.todo : 1 <= j => q.todo[j][3] <= t[3]
    <2>1. q.range \in Stretches(log)
      BY DEF Planned
    <2>2. /\ \A i \in DOMAIN q.todo : /\ q.todo[i][3] \in q.range[1] .. q.range[2]
                                      /\ Cites(log, q.todo[i][3], q.todo[i][1], q.todo[i][2])
          /\ \A i, j \in DOMAIN q.todo : i <= j => q.todo[j][3] <= q.todo[i][3]
      BY DEF Planned
    <2> QED BY <1>1, <2>1, <2>2
  <1>4. q.range[1] \in Nat /\ q.range[2] \in Nat
    BY <1>3, TrailersConstants DEF Stretches
  <1>5. ASSUME NEW c \in q.range[1] .. q.range[2], Cites(log, c, t[1], t[2])
        PROVE  c <= t[3]
    <2>1. \E i \in DOMAIN q.todo : q.todo[i] = <<t[1], t[2], c>>
      BY <1>2, <1>5 DEF Planned
    <2>2. PICK i \in DOMAIN q.todo : q.todo[i] = <<t[1], t[2], c>>
      BY <2>1
    <2>3. q.todo[i][3] = c /\ 1 <= i
      BY <1>1, <2>2
    <2> QED BY <1>3, <2>3
  <1> HIDE DEF t
  <1>6. \A d \in (t[3] + 1) .. q.range[2] : ~Cites(log, d, t[1], t[2])
    <2> SUFFICES ASSUME NEW d \in (t[3] + 1) .. q.range[2], Cites(log, d, t[1], t[2]) PROVE FALSE
      OBVIOUS
    <2>1. d \in q.range[1] .. q.range[2] /\ ~(d <= t[3])
      BY <1>2, <1>3, <1>4
    <2> QED BY <1>5, <2>1
  <1>7. ASSUME NEW c \in NewestOf(log, q.range, t[1], t[2]) PROVE c = t[3]
    <2>1. /\ c \in q.range[1] .. q.range[2] /\ Cites(log, c, t[1], t[2])
          /\ \A d \in (c + 1) .. q.range[2] : ~Cites(log, d, t[1], t[2])
      BY <1>7 DEF NewestOf
    <2>2. c <= t[3]
      BY <1>5, <2>1
    <2>3. t[3] \notin (c + 1) .. q.range[2]
      BY <1>3, <2>1
    <2> QED BY <1>2, <1>3, <1>4, <2>1, <2>2, <2>3
  <1>8. t[3] \in NewestOf(log, q.range, t[1], t[2])
    BY <1>3, <1>6 DEF NewestOf
  <1>9. NewestOf(log, q.range, t[1], t[2]) = {t[3]}
    BY <1>7, <1>8
  <1> QED BY <1>3, <1>9 DEF t

\* A pass that moves on with its plan has it.
LEMMA SamePlan ==
  ASSUME NEW log, NEW q, Planned(q, log), NEW next,
         next.range = q.range, next.todo = q.todo, next.seen = q.seen
  PROVE  Planned(next, log)
  BY DEF Planned

\* The next trailer is dealt with.
LEMMA TailIsPlanned ==
  ASSUME NEW log, NEW q \in Rounds, NEW next, Planned(q, log), q.todo # <<>>,
         next.range = q.range, next.todo = Tail(q.todo),
         next.seen = q.seen \cup {<<Head(q.todo)[1], Head(q.todo)[2]>>}
  PROVE  Planned(next, log)
  <1> DEFINE plan == q.todo
             tail == Tail(plan)
  <1>1. /\ plan \in Seq(Trailer) /\ Len(plan) \in Nat /\ Len(plan) # 0 /\ DOMAIN plan = 1 .. Len(plan)
        /\ tail \in Seq(Trailer) /\ DOMAIN tail = 1 .. (Len(plan) - 1)
        /\ \A i \in 1 .. (Len(plan) - 1) : tail[i] = plan[i + 1]
    BY DEF Rounds
  <1>2. \A i \in DOMAIN tail : i \in Nat /\ i + 1 \in DOMAIN plan /\ tail[i] = plan[i + 1]
    BY <1>1
  <1>3. /\ q.range \in Stretches(log)
        /\ \A i \in DOMAIN plan : /\ plan[i][3] \in q.range[1] .. q.range[2]
                                  /\ Cites(log, plan[i][3], plan[i][1], plan[i][2])
        /\ \A i, j \in DOMAIN plan : i <= j => plan[j][3] <= plan[i][3]
    BY DEF Planned
  <1>4. \A verb \in Trailers!Verbs, card \in Noted : \A c \in q.range[1] .. q.range[2] :
          Cites(log, c, verb, card) /\ <<verb, card>> \notin q.seen =>
            \E i \in DOMAIN plan : plan[i] = <<verb, card, c>>
    BY DEF Planned
  <1> HIDE DEF plan, tail
  <1>5. \A i \in DOMAIN tail : /\ tail[i][3] \in q.range[1] .. q.range[2]
                               /\ Cites(log, tail[i][3], tail[i][1], tail[i][2])
    BY <1>2, <1>3
  <1>6. ASSUME NEW i \in DOMAIN tail, NEW j \in DOMAIN tail, i <= j
        PROVE  tail[j][3] <= tail[i][3]
    <2>1. i + 1 \in DOMAIN plan /\ j + 1 \in DOMAIN plan /\ i + 1 <= j + 1
      BY <1>2, <1>6
    <2>2. plan[j + 1][3] <= plan[i + 1][3]
      BY <1>3, <2>1
    <2> QED BY <1>2, <2>2
  <1>7. ASSUME NEW verb \in Trailers!Verbs, NEW card \in Noted, NEW c \in q.range[1] .. q.range[2],
               Cites(log, c, verb, card), <<verb, card>> \notin next.seen
        PROVE  \E i \in DOMAIN tail : tail[i] = <<verb, card, c>>
    <2>1. <<verb, card>> \notin q.seen /\ <<verb, card>> # <<plan[1][1], plan[1][2]>>
      BY <1>1, <1>7 DEF plan
    <2>2. PICK i \in DOMAIN plan : plan[i] = <<verb, card, c>>
      BY <1>4, <1>7, <2>1
    <2>3. i # 1
      BY <2>1, <2>2
    <2>4. i - 1 \in DOMAIN tail /\ (i - 1) + 1 = i
      BY <1>1, <2>3
    <2>5. tail[i - 1] = plan[i]
      BY <1>2, <2>4
    <2> QED BY <2>2, <2>4, <2>5
  <1>8. next.range = q.range /\ next.todo = tail
    BY DEF plan, tail
  <1>9. next.range \in Stretches(log)
    BY <1>3, <1>8
  <1>10. \A i \in DOMAIN next.todo : /\ next.todo[i][3] \in next.range[1] .. next.range[2]
                                     /\ Cites(log, next.todo[i][3], next.todo[i][1], next.todo[i][2])
    BY <1>5, <1>8
  <1>11. \A i, j \in DOMAIN next.todo : i <= j => next.todo[j][3] <= next.todo[i][3]
    BY <1>6, <1>8
  <1>12. \A verb \in Trailers!Verbs, card \in Noted : \A c \in next.range[1] .. next.range[2] :
           Cites(log, c, verb, card) /\ <<verb, card>> \notin next.seen =>
             \E i \in DOMAIN next.todo : next.todo[i] = <<verb, card, c>>
    BY <1>7, <1>8
  <1> QED BY <1>9, <1>10, <1>11, <1>12, Zenon DEF Planned

\* Another commit changes nothing of what there was.
LEMMA LogGrows ==
  ASSUME NEW log \in Seq(Messages), NEW body \in Messages, NEW range \in Stretches(log)
  PROVE  /\ range \in Stretches(Append(log, body))
         /\ \A verb, card : \A c \in range[1] .. range[2] :
              Cites(Append(log, body), c, verb, card) <=> Cites(log, c, verb, card)
         /\ \A verb, card : NewestOf(Append(log, body), range, verb, card) = NewestOf(log, range, verb, card)
  <1> DEFINE new == Append(log, body)
  <1>1. /\ Len(log) \in Nat /\ Len(new) = Len(log) + 1
        /\ \A c \in 1 .. Len(log) : new[c] = log[c]
    OBVIOUS
  <1>2. range[1] \in 1 .. MaxLog /\ range[2] \in 1 .. MaxLog /\ range[1] <= range[2] /\ range[2] <= Len(log)
    BY DEF Stretches
  <1> HIDE DEF new
  <1>3. range \in Stretches(new)
    BY <1>1, <1>2, TrailersConstants DEF Stretches
  <1>4. \A c \in range[1] .. range[2] : new[c] = log[c] /\ \A d \in (c + 1) .. range[2] : new[d] = log[d]
    <2>1. range[1] \in Nat /\ range[1] >= 1 /\ range[2] \in Nat
      BY <1>2, TrailersConstants
    <2>2. \A c \in range[1] .. range[2] : c \in 1 .. Len(log) /\ \A d \in (c + 1) .. range[2] : d \in 1 .. Len(log)
      BY <1>1, <1>2, <2>1
    <2> QED BY <1>1, <2>2
  <1>5. \A verb, card : \A c \in range[1] .. range[2] : Cites(new, c, verb, card) <=> Cites(log, c, verb, card)
    BY <1>4 DEF Cites
  <1>6. ASSUME NEW verb, NEW card PROVE NewestOf(new, range, verb, card) = NewestOf(log, range, verb, card)
    BY <1>4 DEF NewestOf, Cites
  <1> QED BY <1>3, <1>5, <1>6 DEF new

\* So a pass stays good.
LEMMA RoundOutlivesCommit ==
  ASSUME NEW log \in Seq(Messages), NEW body \in Messages, NEW book, NEW q, GoodRound(q, book, log)
  PROVE  GoodRound(q, book, Append(log, body))
  <1> DEFINE new == Append(log, body)
  <1>1. q \in Rounds /\ Planned(q, log) /\ Entitled(q, book) /\ Reported(q, book, log)
    BY DEF GoodRound
  <1>2. CASE q.range = <<>>
    <2>1. Planned(q, new)
      <3>1. q.todo = <<>>
        BY <1>1, <1>2 DEF Planned, Stretches
      <3> QED BY <1>2, <3>1 DEF Planned
    <2> QED BY <1>1, <1>2, <2>1 DEF GoodRound, Reported
  <1>3. CASE q.range # <<>>
    <2>1. q.range \in Stretches(log)
      BY <1>1, <1>3 DEF Planned
    <2>2. /\ q.range \in Stretches(new)
          /\ \A verb, card : \A c \in q.range[1] .. q.range[2] :
               Cites(new, c, verb, card) <=> Cites(log, c, verb, card)
          /\ \A verb, card : NewestOf(new, q.range, verb, card) = NewestOf(log, q.range, verb, card)
      BY <2>1, LogGrows
    <2> HIDE DEF new
    <2>3. Planned(q, new)
      BY <1>1, <1>3, <2>2 DEF Planned
    <2>4. Reported(q, book, new)
      BY <1>1, <2>2 DEF Reported
    <2>5. q.again => SettledFor(q.range, book, new)
      BY <1>3, <2>2 DEF GoodRound, SettledFor
    <2> QED BY <1>1, <2>3, <2>4, <2>5 DEF GoodRound, new
  <1> QED BY <1>2, <1>3

-----------------------------------------------------------------------------
(* What a pass writes. *)

\* What is said stays said.
Grows(book, new) ==
  \A card \in Noted :
    /\ new[card].status = "absent" <=> book[card].status = "absent"
    /\ book[card].status \in Trailers!Terminal => new[card].status \in Trailers!Terminal
    /\ \A n \in Trailers!Notes : book[card].notes[n] > 0 => new[card].notes[n] > 0

\* What was said stays said.
LEMMA SpokenStays ==
  ASSUME NEW book, NEW new, Grows(book, new), NEW verb \in Trailers!Verbs, NEW card \in Noted,
         NEW c \in 1 .. MaxLog, Spoken(book, verb, card, c)
  PROVE  Spoken(new, verb, card, c)
  <1>1. <<verb, c>> \in Trailers!Notes
    BY DEF Trailers!Notes
  <1> QED BY <1>1 DEF Grows, Spoken

\* The newest are commits.
LEMMA NewestAreCommits ==
  ASSUME NEW log, NEW range \in Stretches(log), NEW verb, NEW card, NEW c \in NewestOf(log, range, verb, card)
  PROVE  c \in 1 .. MaxLog
  BY TrailersConstants DEF NewestOf, Stretches

\* What is settled stays so.
LEMMA SettledStays ==
  ASSUME NEW log, NEW range \in Stretches(log), NEW book, NEW new, Grows(book, new),
         SettledFor(range, book, log)
  PROVE  SettledFor(range, new, log)
  BY NewestAreCommits, SpokenStays DEF SettledFor

\* The other passes stay good, and know that a card changed under them.
LEMMA OthersGoOn ==
  ASSUME NEW log, NEW book, NEW new, Grows(book, new), NEW q, GoodRound(q, book, log)
  PROVE  GoodRound([q EXCEPT !.fresh = @ /\ new = book], new, log)
  <1> DEFINE next == [q EXCEPT !.fresh = @ /\ new = book]
  <1>1. q \in Rounds /\ Planned(q, log) /\ Entitled(q, book) /\ Reported(q, book, log)
    BY DEF GoodRound
  <1>2. /\ next \in Rounds
        /\ next.at = q.at /\ next.range = q.range /\ next.todo = q.todo /\ next.seen = q.seen /\ next.dry = q.dry
        /\ next.quiet = q.quiet /\ next.again = q.again /\ next.report = q.report
        /\ next.fresh => q.fresh /\ new = book
    BY <1>1 DEF Rounds
  <1> HIDE DEF next
  <1>3. Planned(next, log)
    BY <1>1, <1>2, SamePlan
  <1>4. Entitled(next, new)
    <2> DEFINE t == Head(q.todo)
    <2> SUFFICES ASSUME q.at = "write"
                 PROVE  /\ q.todo # <<>> /\ <<t[1], t[2]>> \notin q.seen /\ ~q.dry /\ ~q.again
                        /\ new[t[2]].status # "absent"
                        /\ next.fresh => /\ t[1] = "resolves" => new[t[2]].status \notin Trailers!Terminal
                                         /\ new[t[2]].notes[<<t[1], t[3]>>] = 0
      BY <1>2 DEF Entitled
    <2>1. /\ q.todo # <<>> /\ <<t[1], t[2]>> \notin q.seen /\ ~q.dry /\ ~q.again
          /\ book[t[2]].status # "absent"
          /\ q.fresh => /\ t[1] = "resolves" => book[t[2]].status \notin Trailers!Terminal
                        /\ book[t[2]].notes[<<t[1], t[3]>>] = 0
      BY <1>1 DEF Entitled
    <2>2. t[2] \in Noted
      <3>1. t \in Trailer
        BY <1>1, <2>1 DEF Rounds
      <3> QED BY <3>1 DEF Trailer
    <2> HIDE DEF t
    <2> QED BY <1>2, <2>1, <2>2 DEF Grows
  <1>5. q.range # <<>> => q.range \in Stretches(log)
    BY <1>1 DEF Planned
  <1>6. Reported(next, new, log)
    <2> SUFFICES ASSUME q.quiet, ~q.dry, q.range # <<>>, NEW verb \in Trailers!Verbs, NEW card \in Noted,
                        NEW c \in NewestOf(log, q.range, verb, card), <<verb, card>> \in q.seen
                 PROVE  /\ Spoken(new, verb, card, c)
                        /\ new[card].status = "absent" => <<"missing", card>> \in q.report
      BY <1>2 DEF Reported
    <2>1. Spoken(book, verb, card, c) /\ (book[card].status = "absent" => <<"missing", card>> \in q.report)
      BY <1>1 DEF Reported
    <2>2. c \in 1 .. MaxLog
      BY <1>5, NewestAreCommits
    <2> QED BY <2>1, <2>2, SpokenStays DEF Grows
  <1>7. next.again /\ next.range # <<>> => SettledFor(next.range, new, log)
    BY <1>2, <1>5, SettledStays DEF GoodRound
  <1> QED BY <1>2, <1>3, <1>4, <1>6, <1>7 DEF GoodRound, next

\* A pass goes past a trailer it applied before.
LEMMA SkipIsGood ==
  ASSUME NEW log, NEW book, NEW q, GoodRound(q, book, log), q.at = "read", q.todo # <<>>,
         <<Head(q.todo)[1], Head(q.todo)[2]>> \in q.seen
  PROVE  GoodRound([q EXCEPT !.todo = Tail(@)], book, log)
  <1> DEFINE next == [q EXCEPT !.todo = Tail(@)]
  <1>1. q \in Rounds /\ Planned(q, log) /\ Entitled(q, book) /\ Reported(q, book, log)
    BY DEF GoodRound
  <1>2. Tail(q.todo) \in Seq(Trailer)
    BY <1>1 DEF Rounds
  <1>3. /\ next \in Rounds
        /\ next.at = "read" /\ next.range = q.range /\ next.todo = Tail(q.todo) /\ next.seen = q.seen
        /\ next.dry = q.dry /\ next.quiet = q.quiet /\ next.again = q.again /\ next.report = q.report
    BY <1>1, <1>2 DEF Rounds
  <1> HIDE DEF next
  <1>4. next.seen = q.seen \cup {<<Head(q.todo)[1], Head(q.todo)[2]>>}
    BY <1>3
  <1>5. Planned(next, log)
    BY <1>1, <1>3, <1>4, TailIsPlanned
  <1>6. Entitled(next, book)
    BY <1>3 DEF Entitled
  <1>7. Reported(next, book, log)
    BY <1>1, <1>3 DEF Reported
  <1>8. next.again /\ next.range # <<>> => SettledFor(next.range, book, log)
    BY <1>3 DEF GoodRound
  <1> QED BY <1>3, <1>5, <1>6, <1>7, <1>8 DEF GoodRound, next

\* It deals with one, and says what it found.
Dealt(q, bucket) ==
  [q EXCEPT !.at = "read", !.todo = Tail(@),
            !.seen = @ \cup {<<Head(q.todo)[1], Head(q.todo)[2]>>},
            !.report = @ \cup {<<bucket, Head(q.todo)[2]>>}]

\* What it says of the next trailer is so.
Answered(q, bucket, new) ==
  /\ q.todo # <<>> /\ <<Head(q.todo)[1], Head(q.todo)[2]>> \notin q.seen /\ bucket \in Trailers!Buckets
  /\ ~q.dry => /\ Spoken(new, Head(q.todo)[1], Head(q.todo)[2], Head(q.todo)[3])
               /\ new[Head(q.todo)[2]].status = "absent" => bucket = "missing"

\* Then the pass stays good.
LEMMA DoneIsGood ==
  ASSUME NEW log, NEW book, NEW new, Grows(book, new), NEW q, GoodRound(q, book, log),
         NEW bucket, Answered(q, bucket, new)
  PROVE  /\ GoodRound(Dealt(q, bucket), new, log)
         /\ Dealt(q, bucket).at = "read"
         /\ Dealt(q, bucket).seen = q.seen \cup {<<Head(q.todo)[1], Head(q.todo)[2]>>}
  <1> DEFINE t == Head(q.todo)
             next == Dealt(q, bucket)
  <1> USE DEF Answered
  <1>1. q \in Rounds /\ Planned(q, log) /\ Reported(q, book, log)
    BY DEF GoodRound
  <1>2. q.todo \in Seq(Trailer) /\ Tail(q.todo) \in Seq(Trailer) /\ t \in Trailer
    BY <1>1 DEF Rounds
  <1>3. t[1] \in Trailers!Verbs /\ t[2] \in Noted /\ t[3] \in 1 .. MaxLog
    BY <1>2 DEF Trailer
  <1> HIDE DEF t
  <1>4. next = [q EXCEPT !.at = "read", !.todo = Tail(@), !.seen = @ \cup {<<t[1], t[2]>>},
                         !.report = @ \cup {<<bucket, t[2]>>}]
    BY DEF t, Dealt
  <1> HIDE DEF next
  <1>5. /\ next.at = "read" /\ next.range = q.range /\ next.todo = Tail(q.todo)
        /\ next.seen = q.seen \cup {<<t[1], t[2]>>} /\ next.report = q.report \cup {<<bucket, t[2]>>}
        /\ next.dry = q.dry /\ next.quiet = q.quiet /\ next.again = q.again
    BY <1>1, <1>4 DEF Rounds
  <1>6. next \in Rounds
    <2>1. q.seen \cup {<<t[1], t[2]>>} \in SUBSET (Trailers!Verbs \X Noted)
      BY <1>1, <1>3 DEF Rounds
    <2>2. q.report \cup {<<bucket, t[2]>>} \in SUBSET (Trailers!Buckets \X Noted)
      BY <1>1, <1>3 DEF Rounds
    <2> QED BY <1>1, <1>2, <1>4, <2>1, <2>2 DEF Rounds
  <1>7. Planned(next, log)
    BY <1>1, <1>5, TailIsPlanned DEF t
  <1>8. Entitled(next, new)
    BY <1>5 DEF Entitled
  <1>9. q.range # <<>> => /\ q.range \in Stretches(log)
                          /\ NewestOf(log, q.range, t[1], t[2]) = {t[3]}
    BY <1>1, HeadIsNewest DEF t
  <1>10. Reported(next, new, log)
    <2> SUFFICES ASSUME q.quiet, ~q.dry, q.range # <<>>, NEW verb \in Trailers!Verbs, NEW card \in Noted,
                        NEW c \in NewestOf(log, q.range, verb, card),
                        <<verb, card>> \in q.seen \cup {<<t[1], t[2]>>}
                 PROVE  /\ Spoken(new, verb, card, c)
                        /\ new[card].status = "absent" => <<"missing", card>> \in q.report \cup {<<bucket, t[2]>>}
      BY <1>5 DEF Reported
    <2>1. CASE <<verb, card>> \in q.seen
      <3>1. Spoken(book, verb, card, c) /\ (book[card].status = "absent" => <<"missing", card>> \in q.report)
        BY <1>1, <2>1 DEF Reported
      <3>2. c \in 1 .. MaxLog
        BY <1>9, NewestAreCommits
      <3> QED BY <3>1, <3>2, SpokenStays DEF Grows
    <2>2. CASE <<verb, card>> = <<t[1], t[2]>>
      <3>1. verb = t[1] /\ card = t[2] /\ c = t[3]
        BY <1>9, <2>2
      <3> QED BY <3>1 DEF t
    <2> QED BY <2>1, <2>2
  <1>11. next.again /\ next.range # <<>> => SettledFor(next.range, new, log)
    BY <1>5, <1>9, SettledStays DEF GoodRound
  <1> QED BY <1>5, <1>6, <1>7, <1>8, <1>10, <1>11 DEF GoodRound, t, next

\* It is about to write.
LEMMA EntitledIsGood ==
  ASSUME NEW log, NEW book, NEW q, GoodRound(q, book, log), q.todo # <<>>,
         <<Head(q.todo)[1], Head(q.todo)[2]>> \notin q.seen, ~q.dry,
         book \in Books,
         ~Spoken(book, Head(q.todo)[1], Head(q.todo)[2], Head(q.todo)[3])
  PROVE  GoodRound([q EXCEPT !.at = "write", !.fresh = TRUE], book, log)
  <1> DEFINE t == Head(q.todo)
             next == [q EXCEPT !.at = "write", !.fresh = TRUE]
  <1>1. q \in Rounds /\ Planned(q, log) /\ Reported(q, book, log)
    BY DEF GoodRound
  <1>2. t \in Trailer
    BY <1>1 DEF Rounds
  <1>3. t[1] \in Trailers!Verbs /\ t[2] \in Noted /\ t[3] \in 1 .. MaxLog
    BY <1>2 DEF Trailer
  <1>4. q.range \in Stretches(log) /\ (q.range # <<>> => NewestOf(log, q.range, t[1], t[2]) = {t[3]})
    BY <1>1, HeadIsNewest
  <1>5. q.range # <<>>
    BY <1>4 DEF Stretches
  <1>6. ~Spoken(book, t[1], t[2], t[3])
    OBVIOUS
  <1> HIDE DEF t
  <1>7. ~q.again
    BY <1>3, <1>4, <1>5, <1>6 DEF GoodRound, SettledFor
  <1>8. /\ next \in Rounds
        /\ next.at = "write" /\ next.range = q.range /\ next.todo = q.todo /\ next.seen = q.seen /\ next.fresh
        /\ next.dry = q.dry /\ next.quiet = q.quiet /\ next.again = q.again /\ next.report = q.report
    BY <1>1 DEF Rounds
  <1> HIDE DEF next
  <1>9. /\ book[t[2]].status # "absent"
        /\ t[1] = "resolves" => book[t[2]].status \notin Trailers!Terminal
        /\ book[t[2]].notes[<<t[1], t[3]>>] = 0
    <2>1. book[t[2]].notes[<<t[1], t[3]>>] \in Nat
      BY <1>3 DEF Books, Trailers!Notes
    <2> QED BY <1>6, <2>1 DEF Spoken
  <1>10. Entitled(next, book)
    BY <1>7, <1>8, <1>9 DEF Entitled, t
  <1>11. Planned(next, log)
    BY <1>1, <1>8, SamePlan
  <1>12. Reported(next, book, log)
    BY <1>1, <1>8 DEF Reported
  <1> QED BY <1>7, <1>8, <1>10, <1>11, <1>12 DEF GoodRound, next

\* What git says of a range is its plan.
LEMMA ParsedIsPlanned ==
  ASSUME commits \in Seq(Messages), Len(commits) <= MaxLog, NEW first \in 1 .. Len(commits), NEW q,
         q.range = <<first, Len(commits)>>, q.todo = Trailers!ParseTrailers(first, Len(commits))
  PROVE  /\ q.range \in Stretches(commits) /\ q.todo \in Seq(Trailer)
         /\ Planned(q, commits)
  <1> DEFINE last == Len(commits)
             n == (last - first) + 1
             Listed(c) == [i \in DOMAIN commits[c] |-> <<commits[c][i][1], commits[c][i][2], c>>]
             seqs == [k \in 1 .. n |-> Listed((last + 1) - k)]
             plan == Trailers!FlattenSeq(seqs)
  <1>1. q.todo = plan
    BY DEF Trailers!ParseTrailers
  <1>2. /\ last \in Nat /\ last <= MaxLog /\ MaxLog \in Nat /\ first \in Nat /\ 1 <= first /\ first <= last
        /\ n \in Nat \ {0}
    BY TrailersConstants
  <1>3. q.range \in Stretches(commits)
    BY <1>2 DEF Stretches
  <1>4. q.range[1] = first /\ q.range[2] = last
    OBVIOUS
  <1>5. ASSUME NEW c \in 1 .. last
        PROVE  /\ DOMAIN commits[c] = DOMAIN Listed(c) /\ Listed(c) \in Seq(Trailer)
               /\ \A i \in DOMAIN commits[c] :
                    /\ commits[c][i] \in Trailers!Verbs \X Noted
                    /\ commits[c][i] = <<commits[c][i][1], commits[c][i][2]>>
                    /\ Listed(c)[i] = <<commits[c][i][1], commits[c][i][2], c>>
    <2>1. commits[c] \in Seq(Trailers!Verbs \X Noted)
      BY TrailersConstants
    <2>2. DOMAIN commits[c] = 1 .. Len(commits[c]) /\ Len(commits[c]) \in Nat
      BY <2>1
    <2>3. \A i \in DOMAIN commits[c] : /\ commits[c][i] \in Trailers!Verbs \X Noted
                                       /\ commits[c][i] = <<commits[c][i][1], commits[c][i][2]>>
      BY <2>1
    <2>4. c \in 1 .. MaxLog
      BY <1>2
    <2>5. \A i \in DOMAIN commits[c] : <<commits[c][i][1], commits[c][i][2], c>> \in Trailer
      BY <2>3, <2>4 DEF Trailer
    <2>6. Listed(c) \in Seq(Trailer)
      BY <2>2, <2>5
    <2> QED BY <2>3, <2>6
  <1> HIDE DEF Listed
  <1>6. /\ \A k \in 1 .. n : /\ (last + 1) - k \in first .. last /\ (last + 1) - k \in 1 .. last
                             /\ seqs[k] = Listed((last + 1) - k)
        /\ \A c \in first .. last : (last + 1) - c \in 1 .. n /\ (last + 1) - ((last + 1) - c) = c
    BY <1>2
  <1>7. Laid(plan, seqs, n, Trailer)
    <2>1. seqs \in [1 .. n -> Seq(Trailer)]
      BY <1>5, <1>6
    <2> HIDE DEF seqs, n
    <2> QED BY <1>2, <2>1, FlattenLays
  <1> HIDE DEF plan, seqs, n, last
  <1>8. ASSUME NEW k \in 1 .. n, NEW j \in DOMAIN seqs[k], NEW t, t = seqs[k][j]
        PROVE  t[3] = (last + 1) - k /\ t[3] \in first .. last /\ Cites(commits, t[3], t[1], t[2])
    <2>1. PICK c \in 1 .. last : c = (last + 1) - k /\ c \in first .. last
      BY <1>6
    <2>2. seqs[k] = Listed(c) /\ j \in DOMAIN commits[c]
      BY <1>5, <1>6, <1>8, <2>1
    <2>3. t = <<commits[c][j][1], commits[c][j][2], c>> /\ commits[c][j] = <<commits[c][j][1], commits[c][j][2]>>
      BY <1>5, <1>8, <2>2
    <2>4. t[1] = commits[c][j][1] /\ t[2] = commits[c][j][2] /\ t[3] = c
      BY <2>3
    <2> QED BY <2>1, <2>2, <2>3, <2>4 DEF Cites
  <1>9. \A i \in DOMAIN plan : plan[i][3] \in first .. last /\ Cites(commits, plan[i][3], plan[i][1], plan[i][2])
    <2> SUFFICES ASSUME NEW i \in DOMAIN plan
                 PROVE  plan[i][3] \in first .. last /\ Cites(commits, plan[i][3], plan[i][1], plan[i][2])
      OBVIOUS
    <2>1. PICK k \in 1 .. n : \E j \in DOMAIN seqs[k] : plan[i] = seqs[k][j]
      BY <1>7 DEF Laid
    <2> QED BY <1>8, <2>1
  <1>10. ASSUME NEW i \in DOMAIN plan, NEW o \in DOMAIN plan, i <= o PROVE plan[o][3] <= plan[i][3]
    <2>1. PICK k \in 1 .. n, m \in 1 .. n : /\ k <= m
                                            /\ \E j \in DOMAIN seqs[k] : plan[i] = seqs[k][j]
                                            /\ \E j \in DOMAIN seqs[m] : plan[o] = seqs[m][j]
      BY <1>7, <1>10 DEF Laid
    <2>2. plan[i][3] = (last + 1) - k /\ plan[o][3] = (last + 1) - m
      BY <1>8, <2>1
    <2> QED BY <1>2, <2>1, <2>2
  <1>11. ASSUME NEW verb \in Trailers!Verbs, NEW card \in Noted, NEW c \in first .. last,
                Cites(commits, c, verb, card)
         PROVE  \E i \in DOMAIN plan : plan[i] = <<verb, card, c>>
    <2>1. PICK j \in DOMAIN commits[c] : commits[c][j] = <<verb, card>>
      BY <1>11 DEF Cites
    <2>2. c \in 1 .. last
      BY <1>2
    <2>3. j \in DOMAIN Listed(c) /\ Listed(c)[j] = <<verb, card, c>>
      BY <1>5, <2>1, <2>2
    <2>4. (last + 1) - c \in 1 .. n /\ seqs[(last + 1) - c] = Listed(c)
      BY <1>6
    <2> QED BY <1>7, <2>3, <2>4 DEF Laid
  <1>12. q.todo \in Seq(Trailer)
    BY <1>1, <1>7 DEF Laid
  <1>13. Planned(q, commits)
    BY <1>1, <1>3, <1>4, <1>9, <1>10, <1>11 DEF Planned
  <1> QED BY <1>3, <1>12, <1>13

-----------------------------------------------------------------------------
(* How many passes may still say it. *)

\* Counting passes.
LEMMA Fewer ==
  ASSUME NEW A \in SUBSET Passes, NEW B \in SUBSET Passes, NEW p
  PROVE  /\ Cardinality(A) \in Nat /\ Cardinality(B) \in Nat
         /\ B \subseteq A => Cardinality(B) <= Cardinality(A)
         /\ B \subseteq A /\ p \in A /\ p \notin B => Cardinality(B) + 1 <= Cardinality(A)
         /\ B \subseteq A \cup {p} => Cardinality(B) <= Cardinality(A) + 1
  <1>1. IsFiniteSet(A) /\ IsFiniteSet(B)
    BY TrailersConstants, FS_Subset
  <1>2. Cardinality(A) \in Nat /\ Cardinality(B) \in Nat
    BY <1>1, FS_CardinalityType
  <1>3. B \subseteq A => Cardinality(B) <= Cardinality(A)
    BY <1>1, FS_Subset
  <1>4. ASSUME B \subseteq A, p \in A, p \notin B PROVE Cardinality(B) + 1 <= Cardinality(A)
    <2>1. B \cup {p} \in SUBSET A
      BY <1>4
    <2>2. Cardinality(B \cup {p}) = Cardinality(B) + 1
      BY <1>1, <1>4, FS_AddElement
    <2> QED BY <1>1, <2>1, <2>2, FS_Subset
  <1>5. ASSUME B \subseteq A \cup {p} PROVE Cardinality(B) <= Cardinality(A) + 1
    <2>1. /\ IsFiniteSet(A \cup {p}) /\ Cardinality(A \cup {p}) \in Nat
          /\ Cardinality(A \cup {p}) = IF p \in A THEN Cardinality(A) ELSE Cardinality(A) + 1
      BY <1>1, FS_AddElement, FS_CardinalityType
    <2>2. Cardinality(B) <= Cardinality(A \cup {p})
      BY <1>5, <2>1, FS_Subset
    <2> QED BY <1>2, <2>1, <2>2
  <1> QED BY <1>2, <1>3, <1>4, <1>5

\* A pass goes on over notes that stay the same for what it did not see.
LEMMA StepGoesOn ==
  ASSUME TrailersInv, NEW p \in Passes, NEW next, Trailers!Step(p, next), Grows(notebook, notebook'),
         GoodRound(next, notebook', commits), commits' = commits, settled' = settled, budget' = budget,
         trail[p].at # "idle", trail[p].seen \subseteq next.seen, notebook' \in Books,
         \A verb \in Trailers!Verbs, card \in Noted : \A c \in 1 .. MaxLog :
           \/ notebook'[card].notes[<<verb, c>>] = notebook[card].notes[<<verb, c>>]
           \/ /\ notebook'[card].notes[<<verb, c>>] = notebook[card].notes[<<verb, c>>] + 1
              /\ <<verb, card>> \notin trail[p].seen /\ <<verb, card>> \in next.seen
  PROVE  TrailersInv'
  <1>1. trail' = [r \in Passes |-> IF r = p THEN next
                                   ELSE [trail[r] EXCEPT !.fresh = @ /\ notebook' = notebook]]
    BY DEF Trailers!Step
  <1>2. \A r \in Passes : GoodRound(trail'[r], notebook', commits)
    <2>1. \A r \in Passes : GoodRound([trail[r] EXCEPT !.fresh = @ /\ notebook' = notebook], notebook', commits)
      BY OthersGoOn DEF TrailersInv
    <2> QED BY <1>1, <2>1
  <1>3. trail' \in [Passes -> Rounds]
    BY <1>1, <1>2 DEF GoodRound
  <1>4. \A range \in settled' : SettledFor(range, notebook', commits')
    BY SettledStays DEF TrailersInv
  <1>5. \A r \in Passes \ {p} : trail'[r].at = trail[r].at /\ trail'[r].seen = trail[r].seen
    <2>1. \A r \in Passes : trail[r] \in Rounds
      BY DEF TrailersInv
    <2> QED BY <1>1, <2>1 DEF Rounds
  <1>6. trail'[p] = next
    BY <1>1
  <1>7. ASSUME NEW verb \in Trailers!Verbs, NEW card \in Noted, NEW c \in 1 .. MaxLog
        PROVE  notebook'[card].notes[<<verb, c>>] + Cardinality(Pending(trail', verb, card)) <= budget.passes
    <2> DEFINE before == Pending(trail, verb, card)
               after == Pending(trail', verb, card)
               notes == notebook[card].notes[<<verb, c>>]
    <2>1. /\ before \in SUBSET Passes /\ after \in SUBSET Passes /\ after \subseteq before
          /\ <<verb, card>> \notin trail[p].seen /\ <<verb, card>> \in next.seen => p \in before /\ p \notin after
      BY <1>5, <1>6 DEF Pending
    <2>2. notes + Cardinality(before) <= budget.passes /\ budget.passes \in Nat /\ notes \in Nat
      <3>1. <<verb, c>> \in Trailers!Notes
        BY DEF Trailers!Notes
      <3> QED BY <3>1, TrailersConstants DEF TrailersInv, Books
    <2> HIDE DEF before, after
    <2>3. /\ Cardinality(before) \in Nat /\ Cardinality(after) \in Nat
          /\ Cardinality(after) <= Cardinality(before)
          /\ <<verb, card>> \notin trail[p].seen /\ <<verb, card>> \in next.seen =>
               Cardinality(after) + 1 <= Cardinality(before)
      BY <2>1, Fewer
    <2>4. CASE notebook'[card].notes[<<verb, c>>] = notes
      BY <2>2, <2>3, <2>4 DEF after
    <2>5. CASE /\ notebook'[card].notes[<<verb, c>>] = notes + 1
               /\ <<verb, card>> \notin trail[p].seen /\ <<verb, card>> \in next.seen
      BY <2>2, <2>3, <2>5 DEF after
    <2> QED BY <2>4, <2>5
  <1> QED BY <1>2, <1>3, <1>4, <1>7 DEF TrailersInv, Pending

-----------------------------------------------------------------------------
(* The invariant is one. *)

\* No pass is a good one.
LEMMA IdleIsGood ==
  ASSUME NEW book, NEW log
  PROVE  GoodRound(Trailers!Idle, book, log)
  <1>1. Trailers!Idle \in Rounds
    BY DEF Trailers!Idle, Rounds
  <1>2. /\ Planned(Trailers!Idle, log) /\ Entitled(Trailers!Idle, book) /\ Reported(Trailers!Idle, book, log)
        /\ ~Trailers!Idle.again
    BY DEF Trailers!Idle, Planned, Entitled, Reported
  <1> QED BY <1>1, <1>2 DEF GoodRound

\* At the start there are none.
LEMMA TrailersStart == Trailers!Init => TrailersInv
  <1> SUFFICES ASSUME Trailers!Init PROVE TrailersInv
    OBVIOUS
  <1>1. /\ notebook \in Books
        /\ \A card \in Noted, n \in Trailers!Notes : notebook[card].notes[n] = 0
    BY DEF Trailers!Init, Books
  <1>2. commits = <<>> /\ trail = [p \in Passes |-> Trailers!Idle]
        /\ budget = [edits |-> 0, passes |-> 0] /\ settled = {}
    BY DEF Trailers!Init
  <1>3. commits \in Seq(Messages) /\ Len(commits) <= MaxLog /\ budget \in [edits : 0 .. MaxTouches, passes : 0 .. MaxPasses]
    BY <1>2, TrailersConstants
  <1>4. trail \in [Passes -> Rounds] /\ \A p \in Passes : GoodRound(trail[p], notebook, commits)
    BY <1>2, IdleIsGood DEF GoodRound
  <1>5. ASSUME NEW verb \in Trailers!Verbs, NEW card \in Noted, NEW c \in 1 .. MaxLog
        PROVE  notebook[card].notes[<<verb, c>>] + Cardinality(Pending(trail, verb, card)) <= budget.passes
    <2>1. Pending(trail, verb, card) = {}
      BY <1>2 DEF Pending, Trailers!Idle
    <2>2. notebook[card].notes[<<verb, c>>] = 0
      BY <1>1 DEF Trailers!Notes
    <2>3. Cardinality(Pending(trail, verb, card)) = 0
      BY <2>1, FS_EmptySet
    <2>4. budget.passes = 0
      BY <1>2
    <2> QED BY <2>2, <2>3, <2>4
  <1> QED BY <1>1, <1>2, <1>3, <1>4, <1>5 DEF TrailersInv

\* A pass begins.
LEMMA BeginGoesOn ==
  ASSUME TrailersInv, NEW p \in Passes, NEW first \in 1 .. Len(commits), NEW dry \in BOOLEAN,
         Trailers!BeginPass(p, first, dry)
  PROVE  TrailersInv'
  <1> DEFINE all == <<first, Len(commits)>>
  <1>1. PICK answered \in BOOLEAN :
          trail' = [trail EXCEPT ![p] =
            [Trailers!Idle EXCEPT !.at = "read", !.dry = dry,
               !.range = IF answered THEN all ELSE <<>>,
               !.todo = IF answered THEN Trailers!ParseTrailers(first, Len(commits)) ELSE <<>>,
               !.again = all \in settled]]
    BY DEF Trailers!BeginPass
  <1> DEFINE plan == IF answered THEN Trailers!ParseTrailers(first, Len(commits)) ELSE <<>>
             next == [Trailers!Idle EXCEPT !.at = "read", !.dry = dry,
               !.range = IF answered THEN all ELSE <<>>, !.todo = plan, !.again = all \in settled]
  <1>2. /\ trail' = [trail EXCEPT ![p] = next] /\ trail[p].at = "idle" /\ budget.passes < MaxPasses
        /\ budget' = [budget EXCEPT !.passes = @ + 1]
        /\ notebook' = notebook /\ commits' = commits /\ settled' = settled
    BY <1>1 DEF Trailers!BeginPass
  <1>3. /\ next.at = "read" /\ next.range = (IF answered THEN all ELSE <<>>) /\ next.todo = plan /\ next.seen = {}
        /\ next.dry = dry /\ next.fresh = FALSE /\ next.quiet = TRUE /\ next.again = (all \in settled)
        /\ next.report = {}
        /\ next = [at |-> next.at, range |-> next.range, todo |-> next.todo, seen |-> next.seen, dry |-> next.dry,
                   fresh |-> next.fresh, quiet |-> next.quiet, again |-> next.again, report |-> next.report]
    <2> DEFINE range == IF answered THEN all ELSE <<>>
               again == all \in settled
    <2>1. next = [Trailers!Idle EXCEPT !.at = "read", !.dry = dry, !.range = range, !.todo = plan, !.again = again]
      OBVIOUS
    <2> HIDE DEF plan, all, range, again, next
    <2>2. /\ next.at = "read" /\ next.range = range /\ next.todo = plan /\ next.seen = {} /\ next.dry = dry
          /\ next.fresh = FALSE /\ next.quiet = TRUE /\ next.again = again /\ next.report = {}
      BY <2>1 DEF Trailers!Idle
    <2>3. next = [at |-> next.at, range |-> next.range, todo |-> next.todo, seen |-> next.seen, dry |-> next.dry,
                  fresh |-> next.fresh, quiet |-> next.quiet, again |-> next.again, report |-> next.report]
      BY <2>1 DEF Trailers!Idle
    <2> QED BY <2>2, <2>3 DEF range, again
  <1> HIDE DEF next
  <1>4. commits \in Seq(Messages) /\ Len(commits) <= MaxLog
    BY DEF TrailersInv
  <1>5. next \in Rounds /\ Planned(next, commits)
    <2>1. CASE answered
      <3>1. next.range = all /\ next.todo = Trailers!ParseTrailers(first, Len(commits))
        BY <1>3, <2>1
      <3>2. next.range \in Stretches(commits) /\ next.todo \in Seq(Trailer) /\ Planned(next, commits)
        BY <1>4, <3>1, ParsedIsPlanned
      <3>3. all \in (1 .. MaxLog) \X (1 .. MaxLog) /\ plan \in Seq(Trailer)
        BY <1>3, <3>1, <3>2 DEF Stretches
      <3> HIDE DEF plan, all
      <3>4. next.range \in (1 .. MaxLog) \X (1 .. MaxLog) /\ next.again \in BOOLEAN
        BY <1>3, <2>1, <3>3
      <3>5. next \in Rounds
        BY <1>3, <3>2, <3>4 DEF Rounds
      <3> QED BY <3>2, <3>5
    <2>2. CASE ~answered
      <3>1. next.range = <<>> /\ next.todo = <<>> /\ plan = <<>>
        BY <1>3, <2>2
      <3>2. <<>> \in Seq(Trailer)
        OBVIOUS
      <3> HIDE DEF plan, all
      <3>3. next.again \in BOOLEAN
        BY <1>3
      <3>4. next \in Rounds
        BY <1>3, <3>1, <3>2, <3>3 DEF Rounds
      <3> QED BY <3>1, <3>4 DEF Planned
    <2> QED BY <2>1, <2>2
  <1> HIDE DEF plan
  <1>6. Entitled(next, notebook) /\ Reported(next, notebook, commits)
    BY <1>3 DEF Entitled, Reported
  <1>7. next.again /\ next.range # <<>> => SettledFor(next.range, notebook, commits)
    BY <1>3 DEF TrailersInv
  <1>8. GoodRound(next, notebook, commits)
    BY <1>5, <1>6, <1>7 DEF GoodRound
  <1>9. trail \in [Passes -> Rounds]
    BY DEF TrailersInv
  <1>10. /\ trail'[p] = next /\ \A r \in Passes : r # p => trail'[r] = trail[r]
         /\ trail' \in [Passes -> Rounds]
    BY <1>2, <1>5, <1>9
  <1>11. \A r \in Passes : GoodRound(trail'[r], notebook', commits')
    BY <1>2, <1>8, <1>10 DEF TrailersInv
  <1>12. /\ budget \in [edits : 0 .. MaxTouches, passes : 0 .. MaxPasses]
         /\ budget' \in [edits : 0 .. MaxTouches, passes : 0 .. MaxPasses]
         /\ budget'.passes = budget.passes + 1 /\ budget.passes \in Nat
    <2>1. budget \in [edits : 0 .. MaxTouches, passes : 0 .. MaxPasses]
      BY DEF TrailersInv
    <2>2. budget.passes \in 0 .. MaxPasses /\ budget.passes + 1 \in 0 .. MaxPasses
      BY <1>2, <2>1, TrailersConstants
    <2> QED BY <1>2, <2>1, <2>2
  <1>13. ASSUME NEW verb \in Trailers!Verbs, NEW card \in Noted, NEW c \in 1 .. MaxLog
         PROVE  notebook'[card].notes[<<verb, c>>] + Cardinality(Pending(trail', verb, card)) <= budget'.passes
    <2> DEFINE before == Pending(trail, verb, card)
               after == Pending(trail', verb, card)
    <2>1. before \in SUBSET Passes /\ after \in SUBSET Passes /\ after \subseteq before \cup {p}
      BY <1>10 DEF Pending
    <2>2. notebook[card].notes[<<verb, c>>] + Cardinality(before) <= budget.passes
          /\ notebook[card].notes[<<verb, c>>] \in Nat
      <3>1. <<verb, c>> \in Trailers!Notes
        BY DEF Trailers!Notes
      <3> QED BY <3>1 DEF TrailersInv, Books
    <2> HIDE DEF before, after
    <2>3. /\ Cardinality(before) \in Nat /\ Cardinality(after) \in Nat
          /\ Cardinality(after) <= Cardinality(before) + 1
      BY <2>1, Fewer
    <2> DEFINE notes == notebook[card].notes[<<verb, c>>]
    <2>4. notebook'[card].notes[<<verb, c>>] = notes
      BY <1>2
    <2>5. notes \in Nat /\ notes + Cardinality(before) <= budget.passes
      BY <2>2
    <2> HIDE DEF notes
    <2>6. notes + Cardinality(after) <= budget.passes + 1
      BY <1>12, <2>3, <2>5
    <2> QED BY <1>12, <2>4, <2>6 DEF after
  <1> QED BY <1>2, <1>10, <1>11, <1>12, <1>13 DEF TrailersInv, Pending

\* A pass ends, and a careful one has settled its range.
LEMMA EndGoesOn ==
  ASSUME TrailersInv, NEW p \in Passes, Trailers!EndPass(p)
  PROVE  /\ TrailersInv'
         /\ trail[p].quiet /\ ~trail[p].dry /\ trail[p].range # <<>> =>
              \A verb \in Trailers!Verbs, card \in Noted : \A c \in NewestOf(commits, trail[p].range, verb, card) :
                /\ Spoken(notebook, verb, card, c)
                /\ notebook[card].status = "absent" => <<"missing", card>> \in trail[p].report
  <1> DEFINE q == trail[p]
  <1>1. /\ q.at = "read" /\ q.todo = <<>> /\ trail' = [trail EXCEPT ![p] = Trailers!Idle]
        /\ settled' = settled \cup (IF q.quiet /\ ~q.dry THEN {q.range} \ {<<>>} ELSE {})
        /\ notebook' = notebook /\ commits' = commits /\ budget' = budget
    BY DEF Trailers!EndPass
  <1>2. GoodRound(q, notebook, commits) /\ trail \in [Passes -> Rounds]
    BY DEF TrailersInv
  <1>3. Planned(q, commits) /\ Reported(q, notebook, commits)
    BY <1>2 DEF GoodRound
  <1> HIDE DEF q
  <1>4. ASSUME q.quiet, ~q.dry, q.range # <<>>
        PROVE  /\ q.range \in Stretches(commits)
               /\ \A verb \in Trailers!Verbs, card \in Noted : \A c \in NewestOf(commits, q.range, verb, card) :
                    /\ Spoken(notebook, verb, card, c)
                    /\ notebook[card].status = "absent" => <<"missing", card>> \in q.report
    <2>1. q.range \in Stretches(commits)
      BY <1>3, <1>4 DEF Planned
    <2>2. ASSUME NEW verb \in Trailers!Verbs, NEW card \in Noted, NEW c \in NewestOf(commits, q.range, verb, card)
          PROVE  <<verb, card>> \in q.seen
      <3>1. c \in q.range[1] .. q.range[2] /\ Cites(commits, c, verb, card)
        BY DEF NewestOf
      <3> QED BY <1>1, <1>3, <1>4, <3>1 DEF Planned
    <2> QED BY <1>3, <1>4, <2>1, <2>2 DEF Reported
  <1>5. /\ settled' \subseteq Stretches(commits')
        /\ \A range \in settled' : SettledFor(range, notebook', commits')
    <2>1. ASSUME NEW range \in settled' PROVE range \in Stretches(commits) /\ SettledFor(range, notebook, commits)
      <3>1. CASE range \in settled
        BY <3>1 DEF TrailersInv
      <3>2. CASE range \notin settled
        <4>1. q.quiet /\ ~q.dry /\ range = q.range /\ q.range # <<>>
          BY <1>1, <2>1, <3>2
        <4> QED BY <1>4, <4>1 DEF SettledFor
      <3> QED BY <3>1, <3>2
    <2> QED BY <1>1, <2>1
  <1>6. /\ trail'[p] = Trailers!Idle /\ \A r \in Passes : r # p => trail'[r] = trail[r]
        /\ trail' \in [Passes -> Rounds]
    BY <1>1, <1>2, IdleIsGood DEF GoodRound
  <1>7. \A r \in Passes : GoodRound(trail'[r], notebook', commits')
    BY <1>1, <1>6, IdleIsGood DEF TrailersInv
  <1>8. ASSUME NEW verb \in Trailers!Verbs, NEW card \in Noted, NEW c \in 1 .. MaxLog
        PROVE  notebook'[card].notes[<<verb, c>>] + Cardinality(Pending(trail', verb, card)) <= budget'.passes
    <2> DEFINE before == Pending(trail, verb, card)
               after == Pending(trail', verb, card)
    <2>1. before \in SUBSET Passes /\ after \in SUBSET Passes /\ after \subseteq before
      BY <1>6 DEF Pending, Trailers!Idle
    <2>2. /\ notebook[card].notes[<<verb, c>>] + Cardinality(before) <= budget.passes /\ budget.passes \in Nat
          /\ notebook[card].notes[<<verb, c>>] \in Nat
      <3>1. <<verb, c>> \in Trailers!Notes
        BY DEF Trailers!Notes
      <3> QED BY <3>1, TrailersConstants DEF TrailersInv, Books
    <2> HIDE DEF before, after
    <2>3. Cardinality(before) \in Nat /\ Cardinality(after) \in Nat /\ Cardinality(after) <= Cardinality(before)
      BY <2>1, Fewer
    <2> QED BY <1>1, <2>2, <2>3 DEF after
  <1>9. TrailersInv'
    BY <1>1, <1>5, <1>6, <1>7, <1>8 DEF TrailersInv, Pending
  <1> QED BY <1>4, <1>9 DEF q

\* What stays grows.
LEMMA SameGrows == ASSUME NEW book, NEW new, new = book PROVE Grows(book, new)
  BY DEF Grows

\* A pass reads a card.
LEMMA ReadGoesOn ==
  ASSUME TrailersInv, NEW p \in Passes, Trailers!ReadCard(p)
  PROVE  TrailersInv'
  <1> DEFINE q == trail[p]
             t == Head(q.todo)
  <1>1. /\ q.at = "read" /\ q.todo # <<>>
        /\ notebook' = notebook /\ commits' = commits /\ budget' = budget /\ settled' = settled
    BY DEF Trailers!ReadCard
  <1>2. \/ <<t[1], t[2]>> \in q.seen /\ Trailers!Step(p, [q EXCEPT !.todo = Tail(@)])
        \/ /\ <<t[1], t[2]>> \notin q.seen
           /\ \/ \E bucket \in Trailers!Buckets :
                   /\ Trailers!Step(p, Dealt(q, bucket))
                   /\ ~q.dry => /\ Spoken(notebook, t[1], t[2], t[3])
                                /\ notebook[t[2]].status = "absent" => bucket = "missing"
              \/ /\ ~q.dry /\ ~Spoken(notebook, t[1], t[2], t[3])
                 /\ Trailers!Step(p, [q EXCEPT !.at = "write", !.fresh = TRUE])
    <2> DEFINE absent == notebook[t[2]].status = "absent"
               closed == t[1] = "resolves" /\ notebook[t[2]].status \in Trailers!Terminal
               stored == notebook[t[2]].notes[<<t[1], t[3]>>] > 0
    <2>1. IF <<t[1], t[2]>> \in q.seen THEN Trailers!Step(p, [q EXCEPT !.todo = Tail(@)])
          ELSE IF absent THEN Trailers!Done(p, "missing")
          ELSE IF closed THEN Trailers!Done(p, "skipped")
          ELSE IF stored THEN Trailers!Done(p, "already_applied")
          ELSE IF q.dry THEN Trailers!Done(p, Trailers!Bucket(t[1]))
          ELSE Trailers!Step(p, [q EXCEPT !.at = "write", !.fresh = TRUE])
      BY DEF Trailers!ReadCard, Trailers!AlreadyStored
    <2>2. \A bucket : Trailers!Done(p, bucket) => Trailers!Step(p, Dealt(q, bucket))
      BY DEF Trailers!Done, Dealt
    <2>3. /\ "missing" \in Trailers!Buckets /\ "skipped" \in Trailers!Buckets
          /\ "already_applied" \in Trailers!Buckets /\ Trailers!Bucket(t[1]) \in Trailers!Buckets
      BY DEF Trailers!Buckets, Trailers!Bucket
    <2>4. Spoken(notebook, t[1], t[2], t[3]) <=> absent \/ closed \/ stored
      BY DEF Spoken
    <2>5. closed => ~absent
      BY DEF Trailers!Terminal
    <2>6. notebook[t[2]].status = "absent" <=> absent
      OBVIOUS
    <2> HIDE DEF absent, closed, stored, t, q
    <2>7. CASE <<t[1], t[2]>> \in q.seen
      BY <2>1, <2>7
    <2>8. CASE <<t[1], t[2]>> \notin q.seen /\ absent
      BY <2>1, <2>2, <2>3, <2>4, <2>8
    <2>9. CASE <<t[1], t[2]>> \notin q.seen /\ ~absent /\ closed
      BY <2>1, <2>2, <2>3, <2>4, <2>6, <2>9
    <2>10. CASE <<t[1], t[2]>> \notin q.seen /\ ~absent /\ ~closed /\ stored
      BY <2>1, <2>2, <2>3, <2>4, <2>6, <2>10
    <2>11. CASE <<t[1], t[2]>> \notin q.seen /\ ~absent /\ ~closed /\ ~stored /\ q.dry
      BY <2>1, <2>2, <2>3, <2>11
    <2>12. CASE <<t[1], t[2]>> \notin q.seen /\ ~absent /\ ~closed /\ ~stored /\ ~q.dry
      BY <2>1, <2>4, <2>12
    <2> QED BY <2>7, <2>8, <2>9, <2>10, <2>11, <2>12
  <1>3. GoodRound(q, notebook, commits) /\ q \in Rounds /\ Grows(notebook, notebook') /\ notebook \in Books
    BY <1>1, SameGrows DEF TrailersInv, GoodRound
  <1>4. ASSUME NEW next, Trailers!Step(p, next), GoodRound(next, notebook, commits), q.seen \subseteq next.seen
        PROVE  TrailersInv'
    <2>1. /\ GoodRound(next, notebook', commits) /\ notebook' \in Books /\ trail[p].at # "idle"
          /\ trail[p].seen \subseteq next.seen
          /\ \A verb \in Trailers!Verbs, card \in Noted : \A c \in 1 .. MaxLog :
               notebook'[card].notes[<<verb, c>>] = notebook[card].notes[<<verb, c>>]
      BY <1>1, <1>3, <1>4
    <2> HIDE DEF q
    <2> QED BY <1>1, <1>3, <1>4, <2>1, StepGoesOn
  <1>5. CASE <<t[1], t[2]>> \in q.seen /\ Trailers!Step(p, [q EXCEPT !.todo = Tail(@)])
    <2>1. GoodRound([q EXCEPT !.todo = Tail(@)], notebook, commits)
      BY <1>1, <1>3, <1>5, SkipIsGood
    <2>2. [q EXCEPT !.todo = Tail(@)].seen = q.seen
      BY <1>3 DEF Rounds
    <2> QED BY <1>4, <1>5, <2>1, <2>2
  <1>6. ASSUME <<t[1], t[2]>> \notin q.seen, NEW bucket \in Trailers!Buckets, Trailers!Step(p, Dealt(q, bucket)),
               ~q.dry => /\ Spoken(notebook, t[1], t[2], t[3])
                         /\ notebook[t[2]].status = "absent" => bucket = "missing"
        PROVE  TrailersInv'
    <2>1. Answered(q, bucket, notebook)
      BY <1>1, <1>6 DEF Answered
    <2>2. Grows(notebook, notebook) /\ GoodRound(q, notebook, commits)
      BY <1>3, SameGrows
    <2> HIDE DEF q, t
    <2>3. /\ GoodRound(Dealt(q, bucket), notebook, commits)
          /\ Dealt(q, bucket).seen = q.seen \cup {<<Head(q.todo)[1], Head(q.todo)[2]>>}
      BY <2>1, <2>2, DoneIsGood
    <2> QED BY <1>4, <1>6, <2>3
  <1>7. CASE /\ <<t[1], t[2]>> \notin q.seen /\ ~q.dry /\ ~Spoken(notebook, t[1], t[2], t[3])
             /\ Trailers!Step(p, [q EXCEPT !.at = "write", !.fresh = TRUE])
    <2>1. GoodRound([q EXCEPT !.at = "write", !.fresh = TRUE], notebook, commits)
      BY <1>1, <1>3, <1>7, EntitledIsGood
    <2>2. [q EXCEPT !.at = "write", !.fresh = TRUE].seen = q.seen
      BY <1>3 DEF Rounds
    <2> QED BY <1>4, <1>7, <2>1, <2>2
  <1> HIDE DEF q, t
  <1> QED BY <1>2, <1>5, <1>6, <1>7

\* A note is added to a card, which may close it.
Noting(book, card, n, verb) ==
  [book EXCEPT ![card].notes[n] = @ + 1, ![card].status = IF verb = "resolves" THEN "fixed" ELSE @]

\* What that does to the book.
LEMMA Written ==
  ASSUME NEW book \in Books, NEW card \in Noted, NEW n \in Trailers!Notes, NEW verb, NEW new,
         new = Noting(book, card, n, verb), book[card].status # "absent"
  PROVE  /\ new \in Books /\ Grows(book, new)
         /\ new[card].notes[n] = book[card].notes[n] + 1
         /\ new[card].status = IF verb = "resolves" THEN "fixed" ELSE book[card].status
         /\ \A other \in Noted, m \in Trailers!Notes :
              other # card \/ m # n => new[other].notes[m] = book[other].notes[m]
  <1> DEFINE notes == [book[card].notes EXCEPT ![n] = @ + 1]
             status == IF verb = "resolves" THEN "fixed" ELSE book[card].status
  <1>1. /\ book[card].notes \in [Trailers!Notes -> Nat]
        /\ book[card].status \in {"absent", "open"} \cup Trailers!Terminal
        /\ book[card] = [status |-> book[card].status, notes |-> book[card].notes]
    BY DEF Books
  <1>2. /\ notes \in [Trailers!Notes -> Nat] /\ notes[n] = book[card].notes[n] + 1
        /\ \A m \in Trailers!Notes : m # n => notes[m] = book[card].notes[m]
    BY <1>1
  <1>3. /\ status \in {"absent", "open"} \cup Trailers!Terminal /\ status # "absent"
        /\ book[card].status \in Trailers!Terminal => status \in Trailers!Terminal
    BY <1>1 DEF Trailers!Terminal
  <1>4. new[card].notes = notes /\ new[card].status = status
    BY <1>1 DEF Books, Noting
  <1>5. new[card] = [status |-> status, notes |-> notes]
    BY <1>1 DEF Books, Noting
  <1>6. \A other \in Noted : other # card => new[other] = book[other]
    BY DEF Books, Noting
  <1>7. DOMAIN new = Noted /\ new = [other \in Noted |-> new[other]]
    BY DEF Books, Noting
  <1> HIDE DEF notes, status
  <1>8. new \in Books
    <2>1. \A other \in Noted : new[other] \in [status : {"absent", "open"} \cup Trailers!Terminal,
                                                notes : [Trailers!Notes -> Nat]]
      BY <1>2, <1>3, <1>5, <1>6 DEF Books
    <2> QED BY <1>7, <2>1 DEF Books
  <1>9. \A other \in Noted, m \in Trailers!Notes :
          other # card \/ m # n => new[other].notes[m] = book[other].notes[m]
    BY <1>2, <1>4, <1>6
  <1>10. Grows(book, new)
    <2> SUFFICES ASSUME NEW other \in Noted
                 PROVE  /\ new[other].status = "absent" <=> book[other].status = "absent"
                        /\ book[other].status \in Trailers!Terminal => new[other].status \in Trailers!Terminal
                        /\ \A m \in Trailers!Notes : book[other].notes[m] > 0 => new[other].notes[m] > 0
      BY DEF Grows
    <2>1. CASE other = card
      <3>1. \A m \in Trailers!Notes : book[card].notes[m] > 0 => notes[m] > 0
        <4>1. book[card].notes[n] \in Nat
          BY <1>1
        <4> QED BY <1>2, <4>1
      <3> QED BY <1>3, <1>4, <2>1, <3>1
    <2>2. CASE other # card
      BY <1>6, <2>2
    <2> QED BY <2>1, <2>2
  <1> QED BY <1>2, <1>4, <1>8, <1>9, <1>10 DEF status

\* A pass writes a card, once.
LEMMA WriteGoesOn ==
  ASSUME TrailersInv, NEW p \in Passes, Trailers!WriteCard(p)
  PROVE  /\ TrailersInv'
         /\ ~trail[p].again
         /\ trail[p].fresh =>
              /\ Head(trail[p].todo)[1] = "resolves" =>
                   notebook[Head(trail[p].todo)[2]].status \notin Trailers!Terminal
              /\ \A n \in Trailers!Notes :
                   notebook'[Head(trail[p].todo)[2]].notes[n] # notebook[Head(trail[p].todo)[2]].notes[n] =>
                     notebook'[Head(trail[p].todo)[2]].notes[n] = 1
  <1> DEFINE q == trail[p]
             t == Head(q.todo)
             bucket == Trailers!Bucket(t[1])
             next == Dealt(q, bucket)
  <1>1. /\ q.at = "write" /\ Trailers!Step(p, next)
        /\ notebook' = Noting(notebook, t[2], <<t[1], t[3]>>, t[1])
        /\ commits' = commits /\ budget' = budget /\ settled' = settled
    BY DEF Trailers!WriteCard, Trailers!Done, Dealt, Noting
  <1>2. GoodRound(q, notebook, commits) /\ q \in Rounds /\ notebook \in Books
    BY DEF TrailersInv, GoodRound
  <1>3. /\ q.todo # <<>> /\ <<t[1], t[2]>> \notin q.seen /\ ~q.dry /\ ~q.again
        /\ notebook[t[2]].status # "absent"
        /\ q.fresh => /\ t[1] = "resolves" => notebook[t[2]].status \notin Trailers!Terminal
                      /\ notebook[t[2]].notes[<<t[1], t[3]>>] = 0
    BY <1>1, <1>2 DEF GoodRound, Entitled
  <1>4. /\ t[1] \in Trailers!Verbs /\ t[2] \in Noted /\ t[3] \in 1 .. MaxLog
        /\ <<t[1], t[3]>> \in Trailers!Notes
    <2>1. q.todo \in Seq(Trailer)
      BY <1>2 DEF Rounds
    <2> HIDE DEF q
    <2>2. t \in Trailer
      BY <1>3, <2>1
    <2> QED BY <2>2 DEF Trailer, Trailers!Notes
  <1> HIDE DEF t
  <1>5. /\ notebook' \in Books /\ Grows(notebook, notebook')
        /\ notebook'[t[2]].notes[<<t[1], t[3]>>] = notebook[t[2]].notes[<<t[1], t[3]>>] + 1
        /\ notebook'[t[2]].status = IF t[1] = "resolves" THEN "fixed" ELSE notebook[t[2]].status
        /\ \A other \in Noted, m \in Trailers!Notes :
             other # t[2] \/ m # <<t[1], t[3]>> => notebook'[other].notes[m] = notebook[other].notes[m]
    <2> HIDE DEF q
    <2> QED BY <1>1, <1>2, <1>3, <1>4, Written
  <1>6. Spoken(notebook', t[1], t[2], t[3]) /\ notebook'[t[2]].status # "absent"
    <2>1. notebook[t[2]].notes[<<t[1], t[3]>>] \in Nat
      BY <1>2, <1>4 DEF Books
    <2>2. notebook'[t[2]].notes[<<t[1], t[3]>>] > 0
      BY <1>5, <2>1
    <2> QED BY <1>3, <1>4, <1>5, <2>2 DEF Spoken, Grows
  <1>7. bucket \in Trailers!Buckets
    BY DEF Trailers!Bucket, Trailers!Buckets
  <1>8. /\ GoodRound(next, notebook', commits)
        /\ next.seen = q.seen \cup {<<t[1], t[2]>>}
    <2>1. Answered(q, bucket, notebook')
      BY <1>3, <1>6, <1>7 DEF Answered, t
    <2> HIDE DEF q, bucket
    <2>2. Grows(notebook, notebook') /\ GoodRound(q, notebook, commits)
      BY <1>2, <1>5
    <2>3. /\ GoodRound(Dealt(q, bucket), notebook', commits)
          /\ Dealt(q, bucket).seen = q.seen \cup {<<Head(q.todo)[1], Head(q.todo)[2]>>}
      BY <2>1, <2>2, DoneIsGood
    <2> QED BY <2>3 DEF t
  <1>9. ASSUME NEW verb \in Trailers!Verbs, NEW card \in Noted, NEW c \in 1 .. MaxLog
        PROVE  \/ notebook'[card].notes[<<verb, c>>] = notebook[card].notes[<<verb, c>>]
               \/ /\ notebook'[card].notes[<<verb, c>>] = notebook[card].notes[<<verb, c>>] + 1
                  /\ <<verb, card>> \notin q.seen /\ <<verb, card>> \in next.seen
    <2>1. <<verb, c>> \in Trailers!Notes
      BY DEF Trailers!Notes
    <2> HIDE DEF q, next
    <2>2. CASE card = t[2] /\ <<verb, c>> = <<t[1], t[3]>>
      <3>1. verb = t[1] /\ card = t[2]
        BY <2>2
      <3> QED BY <1>3, <1>5, <1>8, <2>2, <3>1
    <2>3. CASE card # t[2] \/ <<verb, c>> # <<t[1], t[3]>>
      BY <1>5, <2>1, <2>3
    <2> QED BY <2>2, <2>3
  <1>10. TrailersInv'
    <2>1. q.at # "idle" /\ q.seen \subseteq next.seen
      BY <1>1, <1>8
    <2> HIDE DEF next
    <2> QED BY <1>1, <1>5, <1>8, <1>9, <2>1, StepGoesOn
  <1>11. ASSUME q.fresh, NEW n \in Trailers!Notes, notebook'[t[2]].notes[n] # notebook[t[2]].notes[n]
         PROVE  notebook'[t[2]].notes[n] = 1
    <2>1. n = <<t[1], t[3]>>
      BY <1>4, <1>5, <1>11
    <2> QED BY <1>3, <1>5, <1>11, <2>1
  <1> QED BY <1>3, <1>10, <1>11 DEF t

\* Somebody else edits a card, and nothing is settled that cites it.
LEMMA EditGoesOn ==
  ASSUME TrailersInv, NEW edited \in Noted, Trailers!Edit(edited)
  PROVE  TrailersInv'
  <1>1. PICK new \in Trailers!Edits(notebook[edited]) :
          new.status # "absent" /\ notebook' = [notebook EXCEPT ![edited] = new]
    BY DEF Trailers!Edit
  <1>2. /\ trail' = [p \in Passes |-> [trail[p] EXCEPT !.quiet = FALSE, !.again = FALSE, !.fresh = FALSE]]
        /\ budget.edits < MaxTouches /\ budget' = [budget EXCEPT !.edits = @ + 1]
        /\ settled' = {} /\ commits' = commits
    BY DEF Trailers!Edit
  <1>3. /\ notebook \in Books /\ trail \in [Passes -> Rounds] /\ commits \in Seq(Messages) /\ Len(commits) <= MaxLog
        /\ budget \in [edits : 0 .. MaxTouches, passes : 0 .. MaxPasses]
        /\ \A p \in Passes : GoodRound(trail[p], notebook, commits)
    BY DEF TrailersInv
  <1>4. /\ notebook[edited].notes \in [Trailers!Notes -> Nat]
        /\ notebook[edited].status \in {"absent", "open"} \cup Trailers!Terminal
        /\ notebook[edited] = [status |-> notebook[edited].status, notes |-> notebook[edited].notes]
    BY <1>3 DEF Books
  <1>5. /\ new \in [status : {"absent", "open"} \cup Trailers!Terminal, notes : [Trailers!Notes -> Nat]]
        /\ \A n \in Trailers!Notes : new.notes[n] = notebook[edited].notes[n] \/ new.notes[n] = 0
    <2>1. CASE \E status \in {"open", "wont_fix"} : new = [notebook[edited] EXCEPT !.status = status]
      BY <1>4, <2>1 DEF Trailers!Terminal
    <2>2. CASE new = [notebook[edited] EXCEPT !.notes = [n \in Trailers!Notes |-> 0]]
      BY <1>4, <2>2
    <2> QED BY <2>1, <2>2 DEF Trailers!Edits
  <1>6. notebook' \in Books
    BY <1>1, <1>3, <1>5 DEF Books
  <1>7. budget' \in [edits : 0 .. MaxTouches, passes : 0 .. MaxPasses] /\ budget'.passes = budget.passes
    <2>1. budget.edits \in 0 .. MaxTouches
      BY <1>3
    <2>2. budget.edits < MaxTouches
      BY <1>2
    <2>3. budget.edits + 1 \in 0 .. MaxTouches
      BY <2>1, <2>2, TrailersConstants
    <2> QED BY <1>2, <1>3, <2>3
  <1>8. ASSUME NEW p \in Passes
        PROVE  /\ GoodRound(trail'[p], notebook', commits)
               /\ trail'[p].at = trail[p].at /\ trail'[p].seen = trail[p].seen
    <2> DEFINE q == trail[p]
               next == [q EXCEPT !.quiet = FALSE, !.again = FALSE, !.fresh = FALSE]
    <2>1. q \in Rounds /\ Planned(q, commits) /\ Entitled(q, notebook) /\ GoodRound(q, notebook, commits)
      BY <1>3 DEF GoodRound
    <2>2. /\ next \in Rounds
          /\ next.at = q.at /\ next.range = q.range /\ next.todo = q.todo /\ next.seen = q.seen /\ next.dry = q.dry
          /\ ~next.quiet /\ ~next.again /\ ~next.fresh
      BY <2>1 DEF Rounds
    <2>3. trail'[p] = next
      BY <1>2
    <2> HIDE DEF q, next
    <2>4. Planned(next, commits) /\ Reported(next, notebook', commits)
      BY <2>1, <2>2, SamePlan DEF Reported
    <2>5. Entitled(next, notebook')
      <3> SUFFICES ASSUME q.at = "write"
                   PROVE  /\ q.todo # <<>> /\ <<Head(q.todo)[1], Head(q.todo)[2]>> \notin q.seen /\ ~q.dry
                          /\ notebook'[Head(q.todo)[2]].status # "absent"
        BY <2>2 DEF Entitled
      <3>1. /\ q.todo # <<>> /\ <<Head(q.todo)[1], Head(q.todo)[2]>> \notin q.seen /\ ~q.dry
            /\ notebook[Head(q.todo)[2]].status # "absent"
        BY <2>1 DEF Entitled
      <3>2. Head(q.todo)[2] \in Noted
        <4>1. Head(q.todo) \in Trailer
          BY <2>1, <3>1 DEF Rounds
        <4> QED BY <4>1 DEF Trailer
      <3>3. \A card \in Noted : notebook'[card] = IF card = edited THEN new ELSE notebook[card]
        BY <1>1, <1>3 DEF Books
      <3> QED BY <1>1, <3>1, <3>2, <3>3
    <2> QED BY <2>2, <2>3, <2>4, <2>5 DEF GoodRound, q
  <1>9. trail' \in [Passes -> Rounds]
    <2>1. \A p \in Passes : trail'[p] \in Rounds
      BY <1>8 DEF GoodRound
    <2> QED BY <1>2, <2>1
  <1>10. ASSUME NEW verb \in Trailers!Verbs, NEW card \in Noted, NEW c \in 1 .. MaxLog
         PROVE  notebook'[card].notes[<<verb, c>>] + Cardinality(Pending(trail', verb, card)) <= budget'.passes
    <2> DEFINE pending == Pending(trail, verb, card)
               notes == notebook[card].notes[<<verb, c>>]
    <2>1. Pending(trail', verb, card) = pending
      BY <1>8 DEF Pending
    <2>2. <<verb, c>> \in Trailers!Notes
      BY DEF Trailers!Notes
    <2>3. notes \in Nat /\ notes + Cardinality(pending) <= budget.passes /\ budget.passes \in Nat
      BY <1>3, <2>2, TrailersConstants DEF TrailersInv, Books
    <2>4. Cardinality(pending) \in Nat
      <3>1. pending \in SUBSET Passes
        BY DEF Pending
      <3> HIDE DEF pending
      <3> QED BY <3>1, Fewer
    <2>5. notebook'[card].notes[<<verb, c>>] = notes \/ notebook'[card].notes[<<verb, c>>] = 0
      BY <1>1, <1>3, <1>5, <2>2 DEF Books
    <2> HIDE DEF pending, notes
    <2> QED BY <1>7, <2>1, <2>3, <2>4, <2>5
  <1>11. /\ settled' \subseteq Stretches(commits')
         /\ \A range \in settled' : SettledFor(range, notebook', commits')
    BY <1>2
  <1>12. \A p \in Passes : GoodRound(trail'[p], notebook', commits')
    BY <1>2, <1>8
  <1> QED BY <1>2, <1>3, <1>6, <1>7, <1>9, <1>10, <1>11, <1>12 DEF TrailersInv, Pending

\* Somebody commits.
LEMMA CommitGoesOn ==
  ASSUME TrailersInv, NEW body \in Messages, Trailers!CommitWork(body)
  PROVE  TrailersInv'
  <1>1. /\ Len(commits) < MaxLog /\ commits' = Append(commits, body)
        /\ notebook' = notebook /\ trail' = trail /\ budget' = budget /\ settled' = settled
    BY DEF Trailers!CommitWork
  <1>2. commits \in Seq(Messages)
    BY DEF TrailersInv
  <1>3. commits' \in Seq(Messages) /\ Len(commits') <= MaxLog
    BY <1>1, <1>2, TrailersConstants
  <1>4. \A p \in Passes : GoodRound(trail'[p], notebook', commits')
    BY <1>1, <1>2, RoundOutlivesCommit DEF TrailersInv
  <1>5. \A range \in settled' : range \in Stretches(commits') /\ SettledFor(range, notebook', commits')
    BY <1>1, <1>2, LogGrows DEF TrailersInv, SettledFor
  <1> QED BY <1>1, <1>3, <1>4, <1>5 DEF TrailersInv, Pending

\* The invariant is one.
LEMMA TrailersGoOn == TrailersInv /\ [Trailers!Next]_trailersVars => TrailersInv'
  <1> SUFFICES ASSUME TrailersInv, [Trailers!Next]_trailersVars PROVE TrailersInv'
    OBVIOUS
  <1>1. CASE UNCHANGED trailersVars
    BY <1>1 DEF trailersVars, TrailersInv, Pending
  <1>2. ASSUME NEW p \in Passes, NEW first \in 1 .. Len(commits), NEW dry \in BOOLEAN,
               Trailers!BeginPass(p, first, dry)
        PROVE  TrailersInv'
    BY <1>2, BeginGoesOn
  <1>3. ASSUME NEW p \in Passes, Trailers!ReadCard(p) \/ Trailers!WriteCard(p) \/ Trailers!EndPass(p)
        PROVE  TrailersInv'
    BY <1>3, ReadGoesOn, WriteGoesOn, EndGoesOn
  <1>4. ASSUME NEW c \in Noted, Trailers!Edit(c) PROVE TrailersInv'
    BY <1>4, EditGoesOn
  <1>5. ASSUME NEW body \in Messages, Trailers!CommitWork(body) PROVE TrailersInv'
    BY <1>5, CommitGoesOn
  <1> QED BY <1>1, <1>2, <1>3, <1>4, <1>5 DEF Trailers!Next

\* A note is as often on a card as there were passes, at most.
LEMMA TrailersAreTyped == TrailersInv => Trailers!TypeOK
  <1> SUFFICES ASSUME TrailersInv PROVE Trailers!TypeOK
    OBVIOUS
  <1>1. /\ notebook \in Books /\ commits \in Seq(Messages)
        /\ budget \in [edits : 0 .. MaxTouches, passes : 0 .. MaxPasses]
        /\ trail \in [Passes -> Rounds] /\ settled \subseteq Stretches(commits)
    BY DEF TrailersInv
  <1>2. ASSUME NEW card \in Noted
        PROVE  notebook[card] \in [status : {"absent", "open"} \cup Trailers!Terminal,
                                   notes : [Trailers!Notes -> 0 .. MaxPasses]]
    <2>1. notebook[card] \in [status : {"absent", "open"} \cup Trailers!Terminal, notes : [Trailers!Notes -> Nat]]
      BY <1>1 DEF Books
    <2>2. ASSUME NEW n \in Trailers!Notes PROVE notebook[card].notes[n] \in 0 .. MaxPasses
      <3>1. PICK verb \in Trailers!Verbs, c \in 1 .. MaxLog : n = <<verb, c>>
        BY DEF Trailers!Notes
      <3> DEFINE pending == Pending(trail, verb, card)
                 notes == notebook[card].notes[n]
      <3>2. Cardinality(pending) \in Nat
        <4>1. pending \in SUBSET Passes
          BY DEF Pending
        <4> HIDE DEF pending
        <4> QED BY <4>1, Fewer
      <3>3. notes + Cardinality(pending) <= budget.passes
        BY <3>1 DEF TrailersInv
      <3>4. notes \in Nat /\ budget.passes \in 0 .. MaxPasses
        BY <1>1, <2>1
      <3> HIDE DEF pending, notes
      <3>5. notes \in 0 .. MaxPasses
        BY <3>2, <3>3, <3>4, TrailersConstants
      <3> QED BY <3>5 DEF notes
    <2> QED BY <2>1, <2>2
  <1>3. notebook \in [Noted -> [status : {"absent", "open"} \cup Trailers!Terminal,
                                notes : [Trailers!Notes -> 0 .. MaxPasses]]]
    BY <1>1, <1>2 DEF Books
  <1>4. settled \subseteq ((1 .. MaxLog) \X (1 .. MaxLog))
    BY <1>1 DEF Stretches
  <1>5. ASSUME NEW p \in Passes
        PROVE  /\ trail[p].at \in {"idle", "read", "write"}
               /\ trail[p].todo \in Seq(Trailers!Verbs \X Noted \X (1 .. MaxLog))
               /\ trail[p].seen \subseteq (Trailers!Verbs \X Noted)
               /\ trail[p].report \subseteq (Trailers!Buckets \X Noted)
    BY <1>1 DEF Rounds, Trailer
  <1> QED BY <1>1, <1>3, <1>4, <1>5 DEF Trailers!TypeOK

\* The newest of the model.
LEMMA NewestAgree ==
  ASSUME NEW range, NEW verb, NEW card
  PROVE  Trailers!Newest(range, verb, card) = NewestOf(commits, range, verb, card)
  BY DEF Trailers!Newest, NewestOf, Cites

\* Every step is careful.
LEMMA TrailersStepCareful ==
  ASSUME TrailersInv, [Trailers!Next]_trailersVars
  PROVE  Trailers!PassIsCareful
  <1>1. /\ notebook \in Books /\ trail \in [Passes -> Rounds]
    BY DEF TrailersInv
  <1> SUFFICES ASSUME NEW p \in Passes
      PROVE  /\ (trail[p].at = "write" /\ notebook' # notebook /\ trail'[p].at = "read") =>
                  LET verb == Head(trail[p].todo)[1] card == Head(trail[p].todo)[2] IN
                  /\ ~trail[p].again
                  /\ trail[p].fresh =>
                       /\ verb = "resolves" => notebook[card].status \notin Trailers!Terminal
                       /\ \A n \in Trailers!Notes : notebook'[card].notes[n] # notebook[card].notes[n] =>
                                                      notebook'[card].notes[n] = 1
             /\ (trail[p].at = "read" /\ trail'[p].at = "idle" /\ trail[p].quiet /\ ~trail[p].dry /\ trail[p].range # <<>>) =>
                  \A verb \in Trailers!Verbs, card \in Noted : \A c \in Trailers!Newest(trail[p].range, verb, card) :
                    \/ <<"missing", card>> \in trail[p].report /\ notebook[card].status = "absent"
                    \/ verb = "resolves" /\ notebook[card].status \in Trailers!Terminal
                    \/ notebook[card].notes[<<verb, c>>] > 0
    BY DEF Trailers!PassIsCareful
  \* What a step of another does to this pass.
  <1>2. ASSUME NEW r \in Passes, NEW next, r # p, Trailers!Step(r, next) PROVE trail'[p].at = trail[p].at
    <2>1. trail'[p] = [trail[p] EXCEPT !.fresh = @ /\ notebook' = notebook]
      BY <1>2 DEF Trailers!Step
    <2> QED BY <1>1, <2>1 DEF Rounds
  <1>3. ASSUME trail[p].at = "write", notebook' # notebook, trail'[p].at = "read"
        PROVE  Trailers!WriteCard(p)
    <2>1. CASE UNCHANGED trailersVars
      BY <1>3, <2>1 DEF trailersVars
    <2>2. ASSUME NEW r \in Passes, NEW first \in 1 .. Len(commits), NEW dry \in BOOLEAN, Trailers!BeginPass(r, first, dry)
          PROVE  FALSE
      BY <1>3, <2>2 DEF Trailers!BeginPass
    <2>3. ASSUME NEW r \in Passes, Trailers!ReadCard(r) \/ Trailers!EndPass(r) PROVE FALSE
      BY <1>3, <2>3 DEF Trailers!ReadCard, Trailers!EndPass
    <2>4. ASSUME NEW r \in Passes, Trailers!WriteCard(r) PROVE r = p
      BY <1>2, <1>3, <2>4 DEF Trailers!WriteCard, Trailers!Done
    <2>5. ASSUME NEW c \in Noted, Trailers!Edit(c) PROVE FALSE
      <3>1. trail'[p] = [trail[p] EXCEPT !.quiet = FALSE, !.again = FALSE, !.fresh = FALSE]
        BY <2>5 DEF Trailers!Edit
      <3>2. trail'[p].at = trail[p].at
        BY <1>1, <3>1 DEF Rounds
      <3> QED BY <1>3, <3>2
    <2>6. ASSUME NEW body \in Messages, Trailers!CommitWork(body) PROVE FALSE
      BY <1>3, <2>6 DEF Trailers!CommitWork
    <2> QED BY <2>1, <2>2, <2>3, <2>4, <2>5, <2>6 DEF Trailers!Next
  <1>4. ASSUME trail[p].at = "read", trail'[p].at = "idle"
        PROVE  Trailers!EndPass(p)
    <2>1. CASE UNCHANGED trailersVars
      BY <1>4, <2>1 DEF trailersVars
    <2>2. ASSUME NEW r \in Passes, NEW first \in 1 .. Len(commits), NEW dry \in BOOLEAN, Trailers!BeginPass(r, first, dry)
          PROVE  FALSE
      <3>1. r # p
        BY <1>4, <2>2 DEF Trailers!BeginPass
      <3>2. trail'[p] = trail[p]
        BY <1>1, <2>2, <3>1 DEF Trailers!BeginPass
      <3> QED BY <1>4, <3>2
    <2>3. ASSUME NEW r \in Passes, Trailers!ReadCard(r) \/ Trailers!WriteCard(r) PROVE FALSE
      <3>1. PICK next : Trailers!Step(r, next) /\ next.at \in {trail[r].at, "read", "write"}
        <4>1. \/ Trailers!Step(r, [trail[r] EXCEPT !.todo = Tail(@)])
              \/ \E bucket : Trailers!Done(r, bucket)
              \/ Trailers!Step(r, [trail[r] EXCEPT !.at = "write", !.fresh = TRUE])
          BY <2>3 DEF Trailers!ReadCard, Trailers!WriteCard
        <4>2. trail[r] \in Rounds
          BY <1>1
        <4>3. [trail[r] EXCEPT !.todo = Tail(@)].at = trail[r].at
          BY <4>2 DEF Rounds
        <4>4. [trail[r] EXCEPT !.at = "write", !.fresh = TRUE].at = "write"
          BY <4>2 DEF Rounds
        <4>5. \A bucket : /\ Trailers!Done(r, bucket) => Trailers!Step(r, Dealt(trail[r], bucket))
                          /\ Dealt(trail[r], bucket).at = "read"
          BY <4>2 DEF Trailers!Done, Dealt, Rounds
        <4> QED BY <4>1, <4>3, <4>4, <4>5
      <3>2. r = p
        BY <1>2, <1>4, <3>1
      <3>3. trail'[p] = next
        BY <3>1, <3>2 DEF Trailers!Step
      <3> QED BY <1>4, <3>1, <3>2, <3>3
    <2>4. ASSUME NEW r \in Passes, Trailers!EndPass(r) PROVE r = p
      BY <1>1, <1>4, <2>4 DEF Trailers!EndPass
    <2>5. ASSUME NEW c \in Noted, Trailers!Edit(c) PROVE FALSE
      <3>1. trail'[p] = [trail[p] EXCEPT !.quiet = FALSE, !.again = FALSE, !.fresh = FALSE]
        BY <2>5 DEF Trailers!Edit
      <3>2. trail'[p].at = trail[p].at
        BY <1>1, <3>1 DEF Rounds
      <3> QED BY <1>4, <3>2
    <2>6. ASSUME NEW body \in Messages, Trailers!CommitWork(body) PROVE FALSE
      BY <1>4, <2>6 DEF Trailers!CommitWork
    <2> QED BY <2>1, <2>2, <2>3, <2>4, <2>5, <2>6 DEF Trailers!Next
  <1>5. ASSUME trail[p].at = "read", trail'[p].at = "idle", trail[p].quiet, ~trail[p].dry, trail[p].range # <<>>,
               NEW verb \in Trailers!Verbs, NEW card \in Noted, NEW c \in Trailers!Newest(trail[p].range, verb, card)
        PROVE  \/ <<"missing", card>> \in trail[p].report /\ notebook[card].status = "absent"
               \/ verb = "resolves" /\ notebook[card].status \in Trailers!Terminal
               \/ notebook[card].notes[<<verb, c>>] > 0
    <2>1. Trailers!EndPass(p) /\ c \in NewestOf(commits, trail[p].range, verb, card)
      BY <1>4, <1>5, NewestAgree
    <2>2. Spoken(notebook, verb, card, c) /\ (notebook[card].status = "absent" => <<"missing", card>> \in trail[p].report)
      BY <1>5, <2>1, EndGoesOn
    <2> QED BY <2>2 DEF Spoken
  <1>6. ASSUME trail[p].at = "write", notebook' # notebook, trail'[p].at = "read"
        PROVE  /\ ~trail[p].again
               /\ trail[p].fresh =>
                    /\ Head(trail[p].todo)[1] = "resolves" =>
                         notebook[Head(trail[p].todo)[2]].status \notin Trailers!Terminal
                    /\ \A n \in Trailers!Notes :
                         notebook'[Head(trail[p].todo)[2]].notes[n] # notebook[Head(trail[p].todo)[2]].notes[n] =>
                           notebook'[Head(trail[p].todo)[2]].notes[n] = 1
    BY <1>3, <1>6, WriteGoesOn
  <1> QED BY <1>5, <1>6

\* As long as this part moves.
LEMMA TrailersInvariance == Spec => [](part = "trailers" => TrailersInv)
  <1>1. Init => (part = "trailers" => TrailersInv)
    BY TrailersMove, TrailersStart
  <1>2. (part = "trailers" => TrailersInv) /\ [Next]_vars => (part = "trailers" => TrailersInv)'
    BY TrailersMove, TrailersGoOn
  <1> QED BY <1>1, <1>2, PTL DEF Spec

\* A pass over commit trailers, whoever commits, edits or passes meanwhile,
\* overturns no decision that nobody touched since it was read, says nothing
\* twice, writes nothing on a range an undisturbed pass went through, and
\* leaves every card it cites missing, closed or annotated.
THEOREM PassesAreCareful == Spec => TrailersAreCareful
  <1>1. (part = "trailers" => TrailersInv) /\ [Next]_vars => (part = "trailers" => Trailers!PassIsCareful)
    BY TrailersMove, TrailersStepCareful
  <1>2. (part = "trailers" => TrailersInv) /\ [Next]_vars =>
          [part = "trailers" => Trailers!PassIsCareful]_vars
    BY <1>1
  <1> QED BY <1>2, TrailersInvariance, PTL DEF Spec, TrailersAreCareful
=============================================================================
