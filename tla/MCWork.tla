------------------------------- MODULE MCWork --------------------------------
(***************************************************************************)
(* More components that share no state with one another, one at a time, as *)
(* in MCParts: the registry of companies and what looks for their boards,  *)
(* how dives are started, the calls to language models, and the documents  *)
(* of an application.                                                      *)
(***************************************************************************)
EXTENDS BoardRegistry, DiveStarts, ModelCalls, TailoredResumes, TLC

CONSTANTS Works, c1, c2, r1, r2, b1, b2, e1, e2

VARIABLE work

workVars == <<work, registryVars, startsVars, modelVars, tailoredVars>>

\* Sites whose careers page names a board, or only the page behind it.
MCSite(careers, further) ==
  [lead |-> "page", board |-> NoBoard, answers |-> "as given", home |-> {}, careers |-> careers,
   further |-> further, own |-> NoBoard, network |-> FALSE, system |-> FALSE]
MCSites == {MCSite({b1}, NoPage), MCSite({}, {b1})}
MCFirstSite == [c \in Registered |-> IF c = c1 THEN MCSite({b1}, NoPage) ELSE MCSite({}, {b1})]
MCAliases == {<<c1, c2, b2>>}
MCDirectory == [c \in Registered |-> IF c = c1 THEN b2 ELSE NoBoard]

\* Two calls of one program, or one each of two; asked of the best provider
\* there is, paced or not, or of one the owner named; with ollama here, at
\* another address or serving what does not run here.
MCSetting(configured, named, fallback, inOne, place) ==
  [configured |-> configured, named |-> [t \in ModelTasks |-> named], fallback |-> fallback,
   process |-> [c \in Callers |-> IF inOne \/ c = e1 THEN "worker" ELSE "api"],
   ollama |-> place]
MCSettings ==
  {MCSetting({"gemini"}, "auto", TRUE, TRUE, "here"),
   MCSetting({"anthropic"}, "auto", TRUE, FALSE, "cloud"),
   MCSetting({"gemini", "openrouter"}, "openrouter", FALSE, FALSE, "elsewhere"),
   MCSetting({"gemini", "anthropic"}, "auto", FALSE, TRUE, "here")}

\* Each part has the type its module gives it.
WorkTypeOK == work \in Works /\ RegistryTypeOK /\ StartsTypeOK /\ ModelTypeOK /\ TailoredTypeOK

\* What a part that stands still begins with is one value.
WorkInit ==
  /\ work \in Works /\ RegistryInit /\ StartsInit /\ ModelInit /\ TailoredInit
  /\ work # "calls" => settings = MCSetting({"gemini"}, "auto", TRUE, TRUE, "here")
  /\ work # "documents" => now = [posting |-> "p1", mode |-> "rewrite"]

\* A step of one part, the others standing still.
Still(p, v) == IF work = p THEN TRUE ELSE UNCHANGED v
In(p, A) ==
  /\ work = p /\ A /\ UNCHANGED work
  /\ Still("registry", registryVars) /\ Still("starts", startsVars)
  /\ Still("calls", modelVars) /\ Still("documents", tailoredVars)

WorkNext ==
  \/ In("registry", RegistryNext)
  \/ In("starts", StartsNext)
  \/ In("calls", ModelNext)
  \/ In("documents", TailoredNext)

WorkSpec == WorkInit /\ [][WorkNext]_workVars
=============================================================================
