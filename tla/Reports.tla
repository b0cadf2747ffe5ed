------------------------------- MODULE Reports -------------------------------
(***************************************************************************)
(* Programs that read all of their input, compute, and write one report    *)
(* before they end: envsub and varmerge of the same sources, hashsum       *)
(* create with the verify of its manifest, jsongate, the three that        *)
(* compare a tree with what they kept of it, those that read up to a       *)
(* bound, and those that report on a host in motion or change it when      *)
(* asked.  What happens around them while they read is part of their       *)
(* input.  An input is an initial state, and the program is one step.      *)
(***************************************************************************)
EXTENDS Integers, Sequences, FiniteSets

CONSTANTS
    Limit,          \* of eventwhy, the bytes that it reads
    RecordLimit,    \* and those of one line
    Names,          \* what a tree of hashsum can hold, by name
    Contents,       \* and the contents of it
    GateLines,      \* the lines that jsongate can be given
    Above,          \* the paths of the other trees, each with the directories above it
    StateFile,      \* the state file, where it is in the tree
    StateDir,       \* its directory
    Valid,          \* of envsub's types, the values of each
    Written         \* a path as it comes back from JSON

\* Trees are finite, and what is above a path is ordered; a state file is no directory.
ASSUME TreeAssumption ==
    /\ IsFiniteSet(DOMAIN Above)
    /\ \A p \in DOMAIN Above :
        /\ Above[p] \subseteq DOMAIN Above \ {p, StateFile}
        /\ \A d \in Above[p] : Above[d] \subseteq Above[p]
    /\ DOMAIN Written = DOMAIN Above
    /\ StateDir /= StateFile
ASSUME LimitsAssumption == Limit \in Nat /\ RecordLimit \in Nat

VARIABLES tool, input, output

reportVars == <<input, output>>

VM == INSTANCE VarMerge
HV == INSTANCE HashVerify
JG == INSTANCE JsonGate
HC == INSTANCE HomeCompare
MS == INSTANCE Metascore
DB == INSTANCE DaemonBaseline
HE == INSTANCE HostEvidence
MC == INSTANCE MacCommands
BR == INSTANCE BoundedReaders
PW == INSTANCE PcapWhy

\* What a tool can be given.
IsInput(t, in) ==
    CASE t = "envsub" -> VM!IsSources(in)
      [] t = "hashsum" -> in \in HV!Inputs(Names, Contents)
      [] t = "jsongate" -> in.lines \in Seq(GateLines)
      [] t = "homestate" -> HC!IsInput(in)
      [] t = "metascore" -> MS!IsInput(in)
      [] t = "dtp" -> DB!IsInput(in)
      [] t = "ports" -> HE!IsHost(in)
      [] t = "restartwhy" -> HE!IsRestart(in)
      [] t = "pwatch" -> HE!IsWatch(in)
      [] t = "unitwhy" -> HE!IsUnit(in)
      [] t = "contextsnap" -> HE!IsContext(in)
      [] t = "cded" -> HE!IsClipboard(in)
      [] t = "osx" -> MC!IsCommand(in)
      [] t = "aaas" -> MC!IsAudit(in)
      [] t = "eventwhy" -> BR!IsEvents(in)
      [] t = "selinuxwhy" -> BR!IsLog(in)
      [] t = "pcapwhy" -> PW!IsCaptures(in)

Tools == {"envsub", "hashsum", "jsongate", "homestate", "metascore", "dtp", "ports", "restartwhy", "pwatch",
    "unitwhy", "contextsnap", "cded", "osx", "aaas", "eventwhy", "selinuxwhy", "pcapwhy"}

ReportsInit ==
    /\ tool \in Tools
    /\ IsInput(tool, input) /\ output = <<>>

Envsub == tool = "envsub" /\ output' = VM!Both(input)
Verify == tool = "hashsum" /\ output' = HV!RoundTrip(input)
Gate == tool = "jsongate" /\ output' = JG!Gate(input)
Check == tool = "homestate" /\ output' = HC!Check(input)
Metascore == tool = "metascore" /\ output' = MS!Metascore(input)
Dtp == tool = "dtp" /\ output' = DB!Dtp(input)
Ports == tool = "ports" /\ output' = HE!Ports(input)
Restartwhy == tool = "restartwhy" /\ output' = HE!Restartwhy(input)
Pwatch == tool = "pwatch" /\ output' = HE!Samples(input)
Unitwhy == tool = "unitwhy" /\ output' = HE!Unitwhy(input)
Contextsnap == tool = "contextsnap" /\ output' = HE!Contextsnap(input)
Cded == tool = "cded" /\ output' = HE!Cded(input)
Osx == tool = "osx" /\ output' = MC!Osx(input)
Aaas == tool = "aaas" /\ output' = MC!Aaas(input)
Eventwhy == tool = "eventwhy" /\ output' = BR!Eventwhy(input)
Selinuxwhy == tool = "selinuxwhy" /\ output' = BR!Selinuxwhy(input)
Pcapwhy == tool = "pcapwhy" /\ output' = PW!Analyze(input)

ReportsNext ==
    /\ output = <<>> /\ UNCHANGED <<tool, input>>
    /\ \/ Envsub \/ Verify \/ Gate \/ Check \/ Metascore \/ Dtp \/ Ports \/ Restartwhy \/ Pwatch \/ Unitwhy
       \/ Contextsnap \/ Cded \/ Osx \/ Aaas \/ Eventwhy \/ Selinuxwhy \/ Pcapwhy

ReportsSpec == ReportsInit /\ [][ReportsNext]_<<tool, input, output>>

Of(t) == tool = t /\ output /= <<>>

-----------------------------------------------------------------------------
\* envsub renders the highest source of a key and shows no secret; varmerge agrees with
\* it on the value and the source.
SourcesDecide ==
    Of("envsub") =>
        /\ VM!RenderFollowsSources(input, output.sub)
        /\ VM!MergeAgreesWithEnvSub(input, output.sub, output.merge)

\* hashsum verify tells what is not as hashsum create found it.
VerifyTellsChanges ==
    Of("hashsum") => HV!VerifyTellsChanges(input, output)

\* jsongate decides for the worst finding, in whatever order they come.
DecisionIsTheWorst ==
    Of("jsongate") => JG!DecisionIsTheWorst(input, output)

\* homestate --check, metascore and dtp explain the difference of a tree from the one
\* that was recorded; dtp only of what its key has signed and both scans have read.
ChangesExplainTrees ==
    /\ Of("homestate") => HC!ChangesExplainTrees(input, output)
    /\ Of("metascore") => MS!ScoresExplainTrees(input, output)
    /\ Of("dtp") => DB!CheckedMeansSigned(input, output)

\* ports, restartwhy, pwatch, unitwhy and contextsnap say what they have read, and tell
\* what they have not; cded clears what it has read, and osx and aaas change what they
\* are asked to.
EvidenceIsRead ==
    /\ Of("ports") => HE!PortsAreHeld(input, output)
    /\ Of("restartwhy") => HE!RestartsAreSeen(input, output)
    /\ Of("pwatch") => HE!SamplesAreKept(input, output)
    /\ Of("unitwhy") => HE!UnitsAreTold(input, output)
    /\ Of("contextsnap") => HE!IdentityIsWhole(input, output)
    /\ Of("cded") => HE!DrainIsEarned(input, output)
    /\ Of("osx") => MC!NothingChangesUnasked(input, output)
    /\ Of("aaas") => MC!RevokedIsAsked(input, output)

\* eventwhy, selinuxwhy and pcapwhy leave nothing out without saying so, but pcapwhy
\* what comes after its bound of flows.
PassMeansEverything ==
    /\ Of("eventwhy") => BR!PassMeansEverything(input, output)
    /\ Of("selinuxwhy") => BR!DenialsAreTold(input, output)
    /\ Of("pcapwhy") => PW!CompleteMeansAll(input, output)
=============================================================================
