------------------------------ MODULE Library ------------------------------
(***************************************************************************)
(* Skills and input files of a tenant: their rows in the CatalogDO         *)
(* (skills.ts, files.ts, catalog.ts), their contents in the bucket, and    *)
(* the requests that write both (http/skills.ts, http/files.ts).           *)
(*                                                                         *)
(* A request dies between any two steps, and a client repeats an upload    *)
(* under its key, also while the first attempt still runs.  A bundle is a  *)
(* member of Bundle: its hash and its name and description are its own.    *)
(* A value that may be absent is a set of at most one element.             *)
(***************************************************************************)
EXTENDS Naturals, FiniteSets, FiniteSetsExt

CONSTANTS Operation,   \* idempotency keys of uploads: 1..n, in the order of their first use
          Bundle,      \* normalized skill bundles, or contents of files
          Upload,      \* requests that are served at the same time
          MaxSkill, MaxVersion, MaxKey, MaxFile  \* bounds on what is named

ASSUME LibraryAssumption ==
  /\ Operation \subseteq Nat /\ IsFiniteSet(Operation) /\ IsFiniteSet(Bundle) /\ IsFiniteSet(Upload)
  /\ MaxSkill \in Nat /\ MaxVersion \in Nat /\ MaxKey \in Nat /\ MaxFile \in Nat

VARIABLES skill,      \* the row of each skill
          version,    \* the versions of each skill
          counter,    \* skill_counter: the last number handed out
          operation,  \* skill_operation: what each key reserved
          bundle,     \* the bucket, by key
          file,       \* the row and the object of each input file
          upload,     \* the requests
          issued,     \* skills, keys and files named so far
          made        \* history: the versions that were ever added

libraryVars == <<skill, version, counter, operation, bundle, file, upload, issued, made>>

Skill == 1..MaxSkill
NoUpload == [pc |-> "free", operation |-> {}, body |-> {}, key |-> 0, file |-> 0]
NoFile == [listed |-> FALSE, stored |-> FALSE, deleting |-> FALSE]

UploadAt(u, pc) == upload[u].pc = pc
UploadGoto(u, pc) == upload' = [upload EXCEPT ![u].pc = pc]
UploadEnds(u) == upload' = [upload EXCEPT ![u] = NoUpload]
OpOf(u) == CHOOSE o \in upload[u].operation : TRUE
UploadBody(u) == CHOOSE b \in upload[u].body : TRUE
Row(s) == CHOOSE r \in skill[s] : TRUE
Numbers(s) == {v.number : v \in version[s]}

-----------------------------------------------------------------------------
(***************************************************************************)
(* Skills.  The target 0 is a new skill.                                   *)
(***************************************************************************)
\* uploadSkill, once readSkillUpload accepted the form, up to prepare: the key's
\* reservation, unless it is done or for another upload; or a new one.
Reserves(o, b) ==
  /\ issued.keys < MaxKey /\ issued' = [issued EXCEPT !.keys = @ + 1]
  /\ operation' = [operation EXCEPT ![o] = {[body |-> b, key |-> issued.keys + 1, done |-> FALSE]}]
Starts(u, o, b, key) ==
  upload' = [upload EXCEPT ![u] = [NoUpload EXCEPT !.pc = "put", !.operation = {o}, !.body = {b},
                                                   !.key = key]]
ReservedUpload(o) == CHOOSE r \in operation[o] : TRUE
prepare(u, o, b) ==
  /\ UploadAt(u, "free") /\ (o > 1 => operation[o - 1] # {})
  /\ IF operation[o] # {}
     THEN /\ ReservedUpload(o).body = b /\ ~ReservedUpload(o).done
          /\ Starts(u, o, b, ReservedUpload(o).key) /\ UNCHANGED <<operation, issued>>
     ELSE /\ b.target # 0 => skill[b.target] # {}
          /\ Reserves(o, b) /\ Starts(u, o, b, issued.keys + 1)
  /\ UNCHANGED <<skill, version, counter, bundle, file, made>>

put(u) ==
  /\ UploadAt(u, "put")
  /\ bundle' = [bundle EXCEPT ![upload[u].key] = {UploadBody(u).bundle}]
  /\ UploadGoto(u, "add")
  /\ UNCHANGED <<skill, version, counter, operation, file, issued, made>>

\* add: by whichever attempt comes first, if the skill it extends still exists.
Done(o) == \E r \in operation[o] : r.done
nextNumber(s) == counter[s] + 1
Added(o, b, s, key) ==
  LET n == nextNumber(s)
      fresh == skill[s] = {}
      promoted == fresh \/ b.makeDefault
  IN /\ n <= MaxVersion
     /\ counter' = [counter EXCEPT ![s] = n]
     /\ version' = [version EXCEPT ![s] = @ \cup {[number |-> n, key |-> key, name |-> b.bundle]}]
     /\ skill' = [skill EXCEPT ![s] =
          {[latest |-> n,
            default |-> IF promoted THEN n ELSE Row(s).default,
            name |-> IF promoted THEN b.bundle ELSE Row(s).name]}]
     /\ operation' = [operation EXCEPT ![o] = {[r EXCEPT !.done = TRUE] : r \in @}]
     /\ made' = made \cup {[skill |-> s, number |-> n, operation |-> o, attempt |-> Cardinality(made)]}
add(u) ==
  LET o == OpOf(u)
      b == UploadBody(u)
  IN /\ UploadAt(u, "add")
     /\ IF Done(o) \/ (b.target # 0 /\ skill[b.target] = {})
        THEN UNCHANGED <<skill, version, counter, operation, issued, made>>
        ELSE IF b.target # 0 THEN Added(o, b, b.target, upload[u].key) /\ UNCHANGED issued
        ELSE /\ issued.skills < MaxSkill /\ issued' = [issued EXCEPT !.skills = @ + 1]
             /\ Added(o, b, issued.skills + 1, upload[u].key)
     /\ UploadEnds(u)
     /\ UNCHANGED <<bundle, file>>

\* update: a version, "default" or "latest" becomes the default, with its name.
update(s, v) ==
  /\ skill[s] # {} /\ v \in version[s]
  /\ skill' = [skill EXCEPT ![s] = {[Row(s) EXCEPT !.default = v.number, !.name = v.name]}]
  /\ UNCHANGED <<version, counter, operation, bundle, file, upload, issued, made>>

\* deleteVersion: not the default; the newest row that is left becomes the latest.
newest(rest) == Max({w.number : w \in rest})
deleteVersionOnly(s, v) ==
  /\ skill[s] # {} /\ v \in version[s] /\ v.number # Row(s).default
  /\ version' = [version EXCEPT ![s] = @ \ {v}]
  /\ UNCHANGED <<skill, counter, operation, bundle, file, upload, issued, made>>
deleteVersion(s, v) ==
  /\ skill[s] # {} /\ v \in version[s] /\ v.number # Row(s).default
  /\ version' = [version EXCEPT ![s] = @ \ {v}]
  /\ skill' = [skill EXCEPT ![s] = {[Row(s) EXCEPT !.latest = newest(version[s] \ {v})]}]
  /\ UNCHANGED <<counter, operation, bundle, file, upload, issued, made>>

\* The counter, the operations and the bundles stay: sessions hold keys of bundles.
deleteSkill(s) ==
  /\ skill[s] # {}
  /\ skill' = [skill EXCEPT ![s] = {}] /\ version' = [version EXCEPT ![s] = {}]
  /\ UNCHANGED <<counter, operation, bundle, file, upload, issued, made>>

-----------------------------------------------------------------------------
(***************************************************************************)
(* Input files: the object, then the row; deleted in the same order.       *)
(***************************************************************************)
uploadInputFile(u) ==
  /\ UploadAt(u, "free") /\ issued.files < MaxFile
  /\ issued' = [issued EXCEPT !.files = @ + 1]
  /\ file' = [file EXCEPT ![issued.files + 1].stored = TRUE]
  /\ upload' = [upload EXCEPT ![u] = [NoUpload EXCEPT !.pc = "save", !.file = issued.files + 1]]
  /\ UNCHANGED <<skill, version, counter, operation, bundle, made>>
saveFile(u) ==
  /\ UploadAt(u, "save")
  /\ file' = [file EXCEPT ![upload[u].file].listed = TRUE]
  /\ UploadEnds(u)
  /\ UNCHANGED <<skill, version, counter, operation, bundle, issued, made>>
deleteObject(u, f) ==
  /\ UploadAt(u, "free") /\ file[f].listed
  /\ file' = [file EXCEPT ![f].stored = FALSE, ![f].deleting = TRUE]
  /\ upload' = [upload EXCEPT ![u] = [NoUpload EXCEPT !.pc = "forget", !.file = f]]
  /\ UNCHANGED <<skill, version, counter, operation, bundle, issued, made>>
deleteFile(u) ==
  /\ UploadAt(u, "forget")
  /\ file' = [file EXCEPT ![upload[u].file].listed = FALSE]
  /\ UploadEnds(u)
  /\ UNCHANGED <<skill, version, counter, operation, bundle, issued, made>>

UploadDies(u) ==
  /\ upload[u].pc # "free" /\ UploadEnds(u)
  /\ UNCHANGED <<skill, version, counter, operation, bundle, file, issued, made>>

LibraryInit ==
  /\ skill = [s \in Skill |-> {}] /\ version = [s \in Skill |-> {}]
  /\ counter = [s \in Skill |-> 0]
  /\ operation = [o \in Operation |-> {}] /\ bundle = [k \in 1..MaxKey |-> {}]
  /\ file = [f \in 1..MaxFile |-> NoFile]
  /\ upload = [u \in Upload |-> NoUpload]
  /\ issued = [skills |-> 0, keys |-> 0, files |-> 0] /\ made = {}

SkillNext ==
  \/ \E u \in Upload :
       \/ \E o \in Operation, target \in 0..issued.skills, b \in Bundle, d \in BOOLEAN :
            prepare(u, o, [target |-> target, bundle |-> b, makeDefault |-> d])
       \/ put(u) \/ add(u) \/ UploadDies(u)
  \/ \E s \in Skill :
       \/ \E v \in version[s] : update(s, v) \/ deleteVersion(s, v)
       \/ deleteSkill(s)

FileNext ==
  \E u \in Upload :
    \/ uploadInputFile(u) \/ saveFile(u) \/ deleteFile(u) \/ UploadDies(u)
    \/ \E f \in 1..MaxFile : deleteObject(u, f)

LibrarySpec == LibraryInit /\ [][SkillNext \/ FileNext]_libraryVars

-----------------------------------------------------------------------------
(***************************************************************************)
(* Properties                                                              *)
(***************************************************************************)
\* What a skill shows resolves: its default and its latest version exist, the latest is
\* the newest, and its name is the default's, after any uploads, updates and deletions.
VersionsResolve ==
  \A s \in Skill : \A r \in skill[s] :
    /\ r.latest = Max(Numbers(s))
    /\ \E v \in version[s] : v.number = r.default /\ v.name = r.name

\* However often an upload is attempted, it adds one version, and a version number never
\* names another version, although the first one was deleted.
UploadedOnce ==
  \A a, b \in made :
    a.operation = b.operation \/ <<a.skill, a.number>> = <<b.skill, b.number>> => a = b

\* A version's bundle is stored, is the one it was made from, and is never replaced; an
\* input file that is listed has its object, unless its deletion has begun.
ContentStored ==
  /\ \A s \in Skill : \A v \in version[s] : bundle[v.key] = {v.name}
  /\ \A f \in 1..MaxFile : file[f].listed => file[f].stored \/ file[f].deleting

\* A tenant's skills and files are whole: what is named resolves to stored content, and a
\* retried upload adds nothing twice.
LibraryWhole == VersionsResolve /\ UploadedOnce /\ ContentStored
=============================================================================
