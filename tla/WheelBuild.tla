----------------------------- MODULE WheelBuild ------------------------------
(***************************************************************************)
(* src/spasm/buildbackend.py: build_wheel(), which has another backend     *)
(* build a wheel, compiles what is in it and puts the result in its place, *)
(* in a directory that outlives a crash of the build.                      *)
(*                                                                         *)
(* What a member holds is <<what it is, made of which sources>>; a version *)
(* of the sources stands for their text.  Compiling and hashing happen in  *)
(* memory, so Rework is one step; the file operations are one each.        *)
(***************************************************************************)
EXTENDS Integers, SequencesExt

CONSTANTS
    Inner,      \* wheels of the other backend: members and tag
    Tag,        \* cp{X}{Y}-none-any, the interpreter's
    MaxEdits, MaxCrashes

\* A member of the other backend's wheel: selected is what include and exclude
\* say of it; WHEEL and RECORD are stems without suffix.
InnerMember == [stem : STRING, suffix : STRING, selected : BOOLEAN]

\* A member that is compiled.
Selected(m) == m.suffix \in {".py", ".pya"} /\ m.selected

\* The name that a member has in the compiled wheel.
NewName(m) == <<m.stem, IF Selected(m) THEN ".pyc" ELSE m.suffix>>

\* No two members have the same name, before or after.
ASSUME WheelBuildAssumption ==
    /\ Inner \subseteq [members : Seq(InnerMember), tag : STRING]
    /\ \A w \in Inner : \A i, j \in DOMAIN w.members :
          LET m == w.members[i]
              o == w.members[j]
          IN  i = j \/ (NewName(m) # NewName(o) /\ <<m.stem, m.suffix>> # <<o.stem, o.suffix>>)
    /\ MaxEdits \in Nat /\ MaxCrashes \in Nat

VARIABLES
    inner,     \* the wheel that the other backend makes of this project
    source,    \* the sources: their version, and whether they compile
    dir,       \* the wheel directory: the files by name
    pc,        \* the step build_wheel() has come to
    wheel,     \* the wheel in memory, a sequence of members with their data
    of,        \* history: the version the build in hand began with
    built,     \* history: the version of the last one to have a wheel
    crashes

buildVars == <<inner, source, dir, pc, wheel, of, built, crashes>>

WheelName(tag) == <<tag, ".whl">>
wheel_path == WheelName(inner.tag)
tmp_path == <<inner.tag, ".tmp">>

Member(stem, suffix, data) == [stem |-> stem, suffix |-> suffix, data |-> data]
Is(m, stem) == m.stem = stem /\ m.suffix = ""

\* Name and digest of each member, but of RECORD the name alone.
Record(w) == [k \in DOMAIN w |-> IF Is(w[k], "RECORD") THEN "RECORD" ELSE w[k]]

Recorded(w) ==
    [k \in DOMAIN w |-> IF Is(w[k], "RECORD") THEN Member("RECORD", "", Record(w)) ELSE w[k]]

\* What the other backend's wheel holds, when it has been built.
InnerWheel(w, version) ==
    Recorded([k \in DOMAIN w.members |->
        Member(w.members[k].stem, w.members[k].suffix,
               IF Is(w.members[k], "WHEEL") THEN <<"tag", w.tag>> ELSE <<"source", version>>)])

BuildInit ==
    /\ inner \in Inner
    /\ source = [version |-> 1, compiles |-> TRUE]
    /\ dir = <<>>
    /\ pc = "idle" /\ wheel = <<>>
    /\ of = 0 /\ built = 0 /\ crashes = 0

-----------------------------------------------------------------------------
Put(name, w) == [n \in DOMAIN dir \cup {name} |-> IF n = name THEN w ELSE dir[n]]

\* Mutant: the other backend's wheel stays.
Keeping(name) == dir

Without(name) == [n \in DOMAIN dir \ {name} |-> dir[n]]

\* Someone works on the project, whether a build is under way or not.
EditSource(ok) ==
    /\ source.version <= MaxEdits
    /\ source' = [version |-> source.version + 1, compiles |-> ok]
    /\ UNCHANGED <<inner, dir, pc, wheel, of, built, crashes>>

\* backend.build_wheel(), which overwrites a wheel of this name; then the wheel
\* is read.
BuildInner ==
    /\ pc = "idle"
    /\ wheel' = InnerWheel(inner, source.version)
    /\ dir' = Put(wheel_path, wheel')
    /\ of' = source.version
    /\ pc' = IF source.compiles THEN "rework" ELSE "fail"
    /\ UNCHANGED <<inner, source, built, crashes>>

Compiled(w) ==
    [k \in DOMAIN w |->
        IF Selected(inner.members[k]) THEN Member(w[k].stem, ".pyc", <<"compiled", w[k].data[2]>>) ELSE w[k]]

Retagged(w) ==
    [k \in DOMAIN w |-> IF Is(w[k], "WHEEL") THEN Member("WHEEL", "", <<"tag", Tag>>) ELSE w[k]]

\* Mutant: the temporary file must be new.
OnlyNew == tmp_path \notin DOMAIN dir

\* ZipFile(tmp_path, "w") truncates what a crash has left.
MayOpen == TRUE

\* Mutant: the digests are taken before the tag is changed.
RecordedEarly(w) == Retagged(Recorded(Compiled(w)))

Reworked(w) == Recorded(Retagged(Compiled(w)))

Has(stem) == \E k \in DOMAIN inner.members : Is(inner.members[k], stem)
HasWheel == Has("WHEEL")
final_path == IF HasWheel THEN WheelName(Tag) ELSE wheel_path

Rework ==
    /\ pc = "rework"
    /\ wheel' = Reworked(wheel)
    /\ IF MayOpen
       THEN pc' = "write" /\ dir' = Put(tmp_path, <<>>)
       ELSE pc' = "fail" /\ UNCHANGED dir
    /\ UNCHANGED <<inner, source, of, built, crashes>>

\* A source does not compile: build_wheel() raises before it has written.
Fail ==
    /\ pc = "fail"
    /\ pc' = "idle" /\ wheel' = <<>>
    /\ UNCHANGED <<inner, source, dir, of, built, crashes>>

Written == Len(dir[tmp_path])

WriteMember ==
    /\ pc = "write" /\ Written < Len(wheel)
    /\ dir' = Put(tmp_path, Append(dir[tmp_path], wheel[Written + 1]))
    /\ UNCHANGED <<inner, source, pc, wheel, of, built, crashes>>

\* Mutant: the temporary file may still be open.
AnyWritten == TRUE

\* The archive is complete when the file is closed.
AllWritten == Written = Len(wheel)

Unlink ==
    /\ pc = "write" /\ AllWritten
    /\ dir' = IF wheel_path = final_path THEN dir ELSE Without(wheel_path)
    /\ pc' = "replace"
    /\ UNCHANGED <<inner, source, wheel, of, built, crashes>>

Replace ==
    /\ pc = "replace"
    /\ dir' = [n \in (DOMAIN dir \ {tmp_path}) \cup {final_path} |->
                  IF n = final_path THEN dir[tmp_path] ELSE dir[n]]
    /\ pc' = "return"
    /\ UNCHANGED <<inner, source, wheel, of, built, crashes>>

ReturnWheel ==
    /\ pc = "return"
    /\ pc' = "idle" /\ wheel' = <<>> /\ built' = of
    /\ UNCHANGED <<inner, source, dir, of, crashes>>

Crash ==
    /\ pc # "idle" /\ crashes < MaxCrashes
    /\ pc' = "idle" /\ wheel' = <<>> /\ crashes' = crashes + 1
    /\ UNCHANGED <<inner, source, dir, of, built>>

Build ==
    \/ BuildInner \/ Rework \/ Fail \/ WriteMember \/ Unlink \/ Replace \/ ReturnWheel

BuildNext == Build \/ Crash \/ \E ok \in BOOLEAN : EditSource(ok)

BuildSpec == BuildInit /\ [][BuildNext]_buildVars /\ WF_buildVars(Build)

-----------------------------------------------------------------------------
(***************************************************************************)
(* Properties.                                                             *)
(***************************************************************************)
Data(w, stem) == w[CHOOSE k \in DOMAIN w : Is(w[k], stem)].data

\* All members are there, and RECORD is of them.
Whole(w) ==
    /\ Len(w) = Len(inner.members)
    /\ Has("RECORD") => Data(w, "RECORD") = Record(w)

\* A file that has the name of a wheel is one, whatever crashed, and its WHEEL
\* has the tag of its name.
WheelsAreWhole ==
    \A n \in DOMAIN dir \ {tmp_path} :
        /\ Whole(dir[n])
        /\ HasWheel => Data(dir[n], "WHEEL") = <<"tag", n[1]>>

\* What a build of this version should leave (buildbackend.py:1-22): compiled
\* members for the selected sources and the others as they were.
Holds(w, version) ==
    \A k \in DOMAIN inner.members :
        LET m == inner.members[k]
        IN  \/ Is(m, "WHEEL") \/ Is(m, "RECORD")
            \/ IF Selected(m)
               THEN Contains(w, Member(m.stem, ".pyc", <<"compiled", version>>))
               ELSE Contains(w, Member(m.stem, m.suffix, <<"source", version>>))

\* When build_wheel() returns, the wheel it names is the only file, and is made
\* of the sources as the build found them: nothing that an earlier one left when
\* it crashed or raised is in it or beside it (buildbackend.py:124-170, 200-207).
ReturnsTheWheel ==
    pc = "return" => DOMAIN dir = {final_path} /\ Holds(dir[final_path], of)

\* The sources of a wheel are unlinked only when the compiled wheel is complete:
\* once the other backend has built one, some file holds all members of a build, be
\* it under the temporary name (buildbackend.py:160-168).  Of which sources they are
\* is ReturnsTheWheel's: a build that crashed may leave those of an older one.
NothingIsLost ==
    pc \in {"rework", "write", "replace", "return"} \/ built > 0 =>
        \E n \in DOMAIN dir : Whole(dir[n])

\* Whatever crashed or failed to compile, once the sources compile and a build
\* may run to its end, one does: nothing that is left in the directory is in its
\* way.
BuiltInTheEnd == <>[]source.compiles => <>[](built = source.version)

=============================================================================
