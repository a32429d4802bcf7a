------------------------------ MODULE ScriptTree ------------------------------
(***************************************************************************)
(* How an archive becomes the tree of scripts of a simulator: the walk of  *)
(* ZipFileVisitor over its entries with the handler SimScript gives it.    *)
(* What it has to agree with are the loader of a folder of the same        *)
(* content (loadFolder), and the structure that the service management     *)
(* gives out and evaluates (SimulatorFolder).                              *)
(*                                                                         *)
(* A script is named by the directory it was made for.  Of what is in the  *)
(* files only this is left: a sim file can be read or is malformed, and    *)
(* there is one property, whose value is the directory that set it.        *)
(***************************************************************************)
EXTENDS Naturals, Sequences, FiniteSets, SequencesExt

CONSTANTS
  Dir,        \* directories
  Root,       \* the archive itself
  ParentOf,   \* the directory a directory is in
  NameOf,     \* the last name of its path
  Lib,        \* the directories called lib
  None,
  MaxFile     \* bound: files of an archive

SubDir == Dir \ {Root}
DirNames == {NameOf[d] : d \in SubDir}

\* init.properties, two sim files, one that is malformed, .ignore and a jar.
Kind == {"init", "sim", "more", "bad", "ignore", "jar"}
File == [dir : Dir, kind : Kind]

\* The path of a directory leads to the archive itself: it has one name more
\* than its parent's path.
IsTree ==
  \E length \in [Dir -> 0 .. Cardinality(Dir)] :
    \A d \in SubDir : length[d] = length[ParentOf[d]] + 1

\* A path is that of one directory.  The archives looked at have no directory
\* below a lib.
ASSUME TreeAssumption ==
  /\ Root \in Dir /\ None \notin Dir /\ Dir \cap File = {} /\ IsFiniteSet(Dir)
  /\ ParentOf \in [SubDir -> Dir \ Lib] /\ IsTree
  /\ \A d, e \in SubDir : ParentOf[d] = ParentOf[e] /\ NameOf[d] = NameOf[e] => d = e
  /\ Lib \subseteq SubDir
  /\ MaxFile \in Nat

\* Those of the given kinds in a sequence of files.  SelectSeq would do, but
\* the provers know nothing about it.
OfKind(s, kinds) ==
  LET upTo[i \in 0 .. Len(s)] ==
        IF i = 0 THEN <<>>
        ELSE IF s[i] \in kinds THEN Append(upTo[i - 1], s[i]) ELSE upTo[i - 1]
  IN upTo[Len(s)]

VARIABLES
  dirs, files,  \* the entries of the archive
  entryList,    \* those not handled yet
  roots,        \* [entry, target]: directories to go into, the next one first
  dirList,      \* the same, of the level being handled
  subScripts,   \* per script: by name a script, or None
  templatePairs, \* per script: the sim files they are from
  prop,         \* per script: value of the property in config
  ignored,      \* scripts that are ignored
  libURLs,      \* per script
  failed,       \* an IOException left the constructor
  order         \* history: the files of a directory in the archive's order

archive == <<dirs, files>>
walk == <<entryList, roots, dirList>>
script == <<subScripts, templatePairs, prop, ignored, libURLs>>
treeVars == <<archive, walk, script, failed, order>>

TreeInit ==
  /\ dirs \in SUBSET SubDir
  /\ files \in {ToSet(s) : s \in BoundedSeq(File, MaxFile)}
  /\ entryList = dirs \cup files
  /\ roots = <<[entry |-> Root, target |-> Root]>> /\ dirList = <<>>
  /\ subScripts = [d \in Dir |-> [n \in DirNames |-> None]]
  /\ templatePairs = [d \in Dir |-> <<>>]
  /\ prop = [d \in Dir |-> None]
  /\ ignored = {}
  /\ libURLs = [d \in Dir |-> {}]
  /\ failed = FALSE
  /\ order = [d \in Dir |-> <<>>]

-----------------------------------------------------------------------------
(* The walk.  The archive may have its entries in any order.               *)

Walks == roots # <<>> /\ ~failed
Here == Head(roots).entry
Target == Head(roots).target

FilesHere == {f \in entryList \cap files : f.dir = Here}
DirsHere == {d \in entryList \cap dirs : ParentOf[d] = Here}

\* The next entry of the level is a file.
Visit(f) ==
  /\ f \in FilesHere
  /\ entryList' = entryList \ {f}
  /\ order' = [order EXCEPT ![Here] = Append(@, f.kind)]
  /\ UNCHANGED <<archive, roots, dirList>>

\* handleFile, of an ignored script.
SkipFile(f) ==
  /\ Visit(f)
  /\ Target \in ignored
  /\ UNCHANGED <<script, failed>>

LoadInit(f) ==
  /\ Visit(f)
  /\ Target \notin ignored /\ f.kind = "init"
  /\ prop' = [prop EXCEPT ![Target] = Here]
  /\ UNCHANGED <<subScripts, templatePairs, ignored, libURLs, failed>>

Sim == {"sim", "more"}
LoadSim(f) ==
  /\ Visit(f)
  /\ Target \notin ignored /\ f.kind \in Sim
  /\ templatePairs' = [templatePairs EXCEPT ![Target] = Append(@, <<Here, f.kind>>)]
  /\ UNCHANGED <<subScripts, prop, ignored, libURLs, failed>>

LoadFails(f) ==
  /\ Visit(f)
  /\ Target \notin ignored /\ f.kind = "bad"
  /\ failed' = TRUE
  /\ UNCHANGED script

\* The script is taken out of its parent's under the name of the directory,
\* which in a lib is not the script's.  The parent of the root is another one.
Ignore(f) ==
  /\ Visit(f)
  /\ Target \notin ignored /\ f.kind = "ignore"
  /\ ignored' = ignored \cup {Target}
  /\ subScripts' =
       IF Target = Root THEN subScripts
       ELSE [subScripts EXCEPT ![ParentOf[Target]][NameOf[Here]] = None]
  /\ UNCHANGED <<templatePairs, prop, libURLs, failed>>

\* Jars are looked for in the archive's own lib only.
AddJar(f) ==
  /\ Visit(f)
  /\ Target \notin ignored /\ f.kind = "jar"
  /\ libURLs' = IF Here \in Lib /\ ParentOf[Here] = Root
                  THEN [libURLs EXCEPT ![Target] = @ \cup {f}] ELSE libURLs
  /\ UNCHANGED <<subScripts, templatePairs, prop, ignored, failed>>

\* The new SimScript(parent, entry) has a copy of its parent's properties.
Enter(d) ==
  /\ entryList' = entryList \ {d}
  /\ IF d \in Lib
     THEN /\ libURLs' = [libURLs EXCEPT ![Target] = @ \cup {d}]
          /\ dirList' = Append(dirList, [entry |-> d, target |-> Target])
          /\ UNCHANGED <<subScripts, prop>>
     ELSE /\ prop' = [prop EXCEPT ![d] = prop[Target]]
          /\ subScripts' = [subScripts EXCEPT ![Target][NameOf[d]] = d]
          /\ dirList' = Append(dirList, [entry |-> d, target |-> d])
          /\ UNCHANGED libURLs
  /\ UNCHANGED <<archive, roots, templatePairs, ignored, failed, order>>

\* Mutant of HandleDir: a directory is handled as its entry comes.
HandleDirAtOnce(d) ==
  /\ d \in DirsHere
  /\ Enter(d)

\* handleDir, of the directories that were put aside until the files are done.
HandleDir(d) ==
  /\ FilesHere = {} /\ d \in DirsHere
  /\ Enter(d)

\* The directories of the level are gone into before what is left beside it.
GoDown ==
  /\ FilesHere \cup DirsHere = {}
  /\ roots' = dirList \o Tail(roots)
  /\ dirList' = <<>>
  /\ UNCHANGED <<archive, entryList, script, failed, order>>

TreeNext ==
  /\ Walks
  /\ \/ \E f \in FilesHere :
          SkipFile(f) \/ LoadInit(f) \/ LoadSim(f) \/ LoadFails(f) \/ Ignore(f) \/ AddJar(f)
     \/ \E d \in DirsHere : HandleDir(d)
     \/ GoDown

TreeSpec == TreeInit /\ [][TreeNext]_treeVars

Done == roots = <<>> \/ failed

-----------------------------------------------------------------------------
(* The folder with the same content.                                       *)

\* The directory itself and those it is in.
Up[d \in Dir] == IF d = Root THEN {Root} ELSE {d} \cup Up[ParentOf[d]]

\* Of its files, which come before its directories, loadFolder reads those
\* before the first .ignore, which also keeps it from the directories.
FolderIgnores(d) == "ignore" \in ToSet(order[d])
BeforeIgnore(s) ==
  IF "ignore" \in ToSet(s)
  THEN SubSeq(s, 1, SelectInSeq(s, LAMBDA k : k = "ignore") - 1) ELSE s
Reads(d) == BeforeIgnore(order[d])
Loads(d) == \A e \in Up[d] \ {d} : ~FolderIgnores(e)

FolderScripts == {d \in ({Root} \cup dirs) \ Lib : Loads(d) /\ ~FolderIgnores(d)}
FolderFails == \E d \in ({Root} \cup dirs) \ Lib : Loads(d) /\ "bad" \in ToSet(Reads(d))
FolderRules(d) ==
  LET sims == OfKind(Reads(d), Sim)
  IN [i \in DOMAIN sims |-> <<d, sims[i]>>]
FolderProp[d \in Dir] ==
  IF "init" \in ToSet(Reads(d)) THEN d
  ELSE IF d = Root THEN None ELSE FolderProp[ParentOf[d]]
FolderLib(d) ==
  LET libs == {e \in dirs \cap Lib : ParentOf[e] = d}
  IN libs \cup {f \in files : f.dir \in libs /\ f.kind = "jar"}

-----------------------------------------------------------------------------
(* The structure of a simulator, and what is evaluated from it.            *)

\* The scripts found from the root by their names.
Reached[d \in Dir] ==
  \/ d = Root
  \/ d \notin Lib /\ subScripts[ParentOf[d]][NameOf[d]] = d /\ Reached[ParentOf[d]]

Scripts == {d \in Dir : Reached[d]}

StructureKinds == Sim \cup {"init", "bad"}

\* Mutant of StructureFiles: no look for a further "/" in an entry's name.
StructureFilesBelow(d) ==
  OfKind(FlattenSeq(SetToSeq({order[e] : e \in {e \in Dir : d \in Up[e]}})), StructureKinds)

\* The entries whose name is the path of the script and the name of a file.
StructureFiles(d) == OfKind(order[d], StructureKinds)

\* loadFolder, of such a structure: no file of it is an .ignore.
EvaluationFails(d) == "bad" \in ToSet(StructureFiles(d))
EvaluatedRules(d) ==
  LET sims == OfKind(StructureFiles(d), Sim)
  IN [i \in DOMAIN sims |-> <<d, sims[i]>>]
EvaluatedProp[d \in Dir] ==
  IF "init" \in ToSet(StructureFiles(d)) THEN d
  ELSE IF d = Root THEN None ELSE EvaluatedProp[ParentOf[d]]

-----------------------------------------------------------------------------
(* Properties.                                                             *)

DirsHaveEntries ==
  /\ \A f \in files : f.dir \in dirs \cup {Root}
  /\ \A d \in dirs : ParentOf[d] \in dirs \cup {Root}
LibsHaveJarsOnly == \A f \in files : f.dir \in Lib => f.kind = "jar"
NothingBadIgnored == \A f \in files : f.kind = "bad" => Loads(f.dir)

\* "It will treat zip file as a folder": in whatever order its entries come, an
\* archive fails, is ignored, or has the same scripts with the same rules,
\* properties and libraries as the folder, provided that its directories have
\* entries of their own, that there are but jars in a lib, and that no sim file
\* below an ignored directory is malformed, of which the folder's loader hears
\* nothing (SimScript constructors, loadFolder, ZipFileVisitor.visit).
ZipIsAFolder ==
  Done /\ DirsHaveEntries /\ LibsHaveJarsOnly /\ NothingBadIgnored =>
    /\ failed <=> FolderFails
    /\ ~failed => (Root \in ignored <=> FolderIgnores(Root))
    /\ ~failed /\ Root \notin ignored =>
         /\ Scripts = FolderScripts
         /\ \A d \in Scripts : templatePairs[d] = FolderRules(d) /\ prop[d] = FolderProp[d]
         /\ libURLs[Root] = FolderLib(Root)

\* The structure the service management gives out for a simulator of an archive
\* evaluates to the simulator: the same rules and properties in every script,
\* ignored directories and incomplete archives included
\* (SimulatorFolder, SimulatorManager.evaluateSimulatorStructure).
StructureKeepsScript ==
  Done /\ ~failed /\ Root \notin ignored /\ LibsHaveJarsOnly =>
    \A d \in Scripts :
      /\ ~EvaluationFails(d)
      /\ templatePairs[d] = EvaluatedRules(d)
      /\ prop[d] = EvaluatedProp[d]
===============================================================================
