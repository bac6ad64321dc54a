------------------------------- MODULE Analyses -------------------------------
(***************************************************************************)
(* The AI analysis of a namespace or an object (ai.go): one goroutine a key  *)
(* streams the model's answer into the insight the panel polls.  A text is   *)
(* what it has of one <think> block, of the reasoning in it and of an answer *)
(* after it, in that order.  The opening tag may be missing: some templates  *)
(* put it at the end of the prompt.                                          *)
(***************************************************************************)
EXTENDS Naturals

CONSTANT Keys  \* aiStoreKey: cluster and scope

VARIABLES
    aiRunning,  \* keys being analysed
    insight,    \* aiInsightCache
    analysis    \* key -> the goroutine and what the model has streamed to it

anVars == <<aiRunning, insight, analysis>>

------------------------------------------------------------------------------
(* State *)

Pieces == {"<think>", "reasoning", "</think>", "answer"}

\* Their order in a text.
Place == [p \in Pieces |-> CASE p = "<think>" -> 1 [] p = "reasoning" -> 2 [] p = "</think>" -> 3 [] p = "answer" -> 4]

\* parts: what the text has.  reasoning: some came apart, as reasoning_content.
Text == {t \in [parts : SUBSET Pieces, reasoning : BOOLEAN] :
           "answer" \in t.parts /\ "</think>" \notin t.parts => t.parts = {"answer"}}

NoText == [parts |-> {}, reasoning |-> FALSE]

\* shows: what Content has.  reasoning: Reasoning is kept.
Insight == [at : {"none", "partial", "error", "final"}, shows : SUBSET Pieces,
            thinking : BOOLEAN, reasoning : BOOLEAN]

Blank(at) == [at |-> at, shows |-> {}, thinking |-> FALSE, reasoning |-> FALSE]

AnTypeOK ==
    /\ aiRunning \subseteq Keys
    /\ insight \in [Keys -> Insight]
    /\ analysis \in [Keys -> [pc : {"idle", "evidence", "slot", "stream", "over"}, text : Text]]

AnInit ==
    /\ aiRunning = {}
    /\ insight = [k \in Keys |-> Blank("none")]
    /\ analysis = [k \in Keys |-> [pc |-> "idle", text |-> NoText]]

------------------------------------------------------------------------------
(* Texts *)

\* stripThink: a block is cut, an open one too, and what comes before a closing tag
\* alone.
stripThink(parts) ==
    CASE {"<think>", "</think>"} \subseteq parts -> parts \ {"<think>", "reasoning", "</think>"}
      [] "<think>" \in parts /\ "</think>" \notin parts -> {}
      [] "<think>" \notin parts /\ "</think>" \in parts -> parts \ {"reasoning", "</think>"}
      [] OTHER -> parts

\* Mutant: a closing tag is looked for only after an opening one.
cleanBlock(parts) ==
    IF {"<think>", "</think>"} \subseteq parts THEN parts \cap {"answer"} ELSE parts

\* cleanLMResponse cuts up to </think>; without one it leaves the text alone.
cleanLMResponse(parts) == IF "</think>" \in parts THEN parts \cap {"answer"} ELSE parts

\* thinkText
thinkText(parts) ==
    IF {"<think>", "</think>"} \subseteq parts THEN parts \cap {"reasoning"} ELSE {}

\* The next tokens.
Extended(t) ==
    {u \in Text : /\ t.parts \subseteq u.parts
                  /\ \A x \in u.parts \ t.parts, y \in t.parts : Place[y] < Place[x]
                  /\ t.reasoning => u.reasoning}

------------------------------------------------------------------------------
(* triggerScopedAnalysis, storeAnalysis *)

\* With one running a request changes nothing.
Trigger(k) ==
    /\ k \notin aiRunning
    /\ aiRunning' = aiRunning \cup {k}
    /\ analysis' = [analysis EXCEPT ![k] = [pc |-> "evidence", text |-> NoText]]
    /\ UNCHANGED insight

\* The prompt is ready; until now the panel was shown the last insight.
Mark(k) ==
    /\ analysis[k].pc = "evidence"
    /\ insight' = [insight EXCEPT ![k] = Blank("partial")]
    /\ analysis' = [analysis EXCEPT ![k].pc = "slot"]
    /\ UNCHANGED aiRunning

Admitted(k) ==
    /\ analysis[k].pc = "slot"
    /\ analysis' = [analysis EXCEPT ![k].pc = "stream"]
    /\ UNCHANGED <<aiRunning, insight>>

\* Mutant: the text is shown as it is.
WrittenRaw(t) ==
    [at |-> "partial", shows |-> cleanLMResponse(t.parts), thinking |-> FALSE, reasoning |-> FALSE]

\* writeFn
Written(t) ==
    [at |-> "partial", shows |-> stripThink(t.parts), reasoning |-> FALSE,
     thinking |-> stripThink(t.parts) = {} /\ (t.reasoning \/ "<think>" \in t.parts)]

\* More tokens; every 300 ms the panel is shown them.
Chunk(k) ==
    /\ analysis[k].pc = "stream"
    /\ \E t \in Extended(analysis[k].text) :
         /\ analysis' = [analysis EXCEPT ![k].text = t]
         /\ insight' = [insight EXCEPT ![k] = Written(t)] \/ UNCHANGED insight
    /\ UNCHANGED aiRunning

\* Claude Code starts another turn: ccReadStream drops the text, not the reasoning.
Turn(k) ==
    /\ analysis[k].pc = "stream"
    /\ analysis' = [analysis EXCEPT ![k].text = [NoText EXCEPT !.reasoning = analysis[k].text.reasoning]]
    /\ UNCHANGED <<aiRunning, insight>>

\* Mutant: the error is only logged.
FailsLogged(k) ==
    /\ analysis[k].pc \in {"slot", "stream"}
    /\ analysis' = [analysis EXCEPT ![k].pc = "over"]
    /\ UNCHANGED <<aiRunning, insight>>

\* No slot, a failed call, a timeout, a stream that breaks off, or no answer.
Fails(k) ==
    /\ analysis[k].pc \in {"slot", "stream"}
    /\ insight' = [insight EXCEPT ![k] = Blank("error")]
    /\ analysis' = [analysis EXCEPT ![k].pc = "over"]
    /\ UNCHANGED aiRunning

\* The stream ends with what is taken for an answer.
Answered(k) ==
    LET t == analysis[k].text
    IN /\ analysis[k].pc = "stream" /\ cleanLMResponse(t.parts) # {}
       /\ insight' = [insight EXCEPT ![k] =
              [at |-> "final", shows |-> cleanLMResponse(t.parts), thinking |-> FALSE,
               reasoning |-> t.reasoning \/ thinkText(t.parts) # {}]]
       /\ analysis' = [analysis EXCEPT ![k].pc = "over"]
       /\ UNCHANGED aiRunning

\* The deferred aiRunning.Delete; a request before it is dropped.
Forgotten(k) ==
    /\ analysis[k].pc = "over"
    /\ aiRunning' = aiRunning \ {k}
    /\ analysis' = [analysis EXCEPT ![k] = [pc |-> "idle", text |-> NoText]]
    /\ UNCHANGED insight

------------------------------------------------------------------------------

Analyse(k) ==
    \/ Mark(k) \/ Admitted(k) \/ Chunk(k) \/ Turn(k) \/ Fails(k) \/ Answered(k) \/ Forgotten(k)

AnNext == \E k \in Keys : Trigger(k) \/ Analyse(k)

AnSpec == AnInit /\ [][AnNext]_anVars

\* The context's timeout ends a stream; goroutines run.
AnFairness ==
    \A k \in Keys : /\ WF_anVars(Mark(k)) /\ WF_anVars(Fails(k) \/ Answered(k))
                    /\ WF_anVars(Forgotten(k))

\* What the panel shows as streaming is being streamed, by one goroutine; it shows
\* "Thinking" only without an answer, and never reasoning beside the answer, wherever the
\* tags are; a finished insight has a text (storeAnalysis, stripThink, cleanLMResponse).
InsightShows ==
    \A k \in Keys :
        /\ insight[k].at = "partial" => k \in aiRunning
        /\ insight[k].thinking => insight[k].at = "partial" /\ insight[k].shows = {}
        /\ "answer" \in insight[k].shows => insight[k].shows = {"answer"}
        /\ insight[k].at = "final" => insight[k].shows # {}

\* Content has reasoning only until the text that is written closes it, and while it
\* streams only if the text did not open it either (writeFn, storeAnalysis).
ReasoningApart ==
    [][\A k \in Keys :
         insight'[k] # insight[k] /\ "reasoning" \in insight'[k].shows =>
             /\ "</think>" \notin analysis'[k].text.parts
             /\ insight'[k].at = "partial" => "<think>" \notin analysis'[k].text.parts]_anVars

\* ai.go, AIInsight: "The reasoning itself is never part of Content", not even that of a
\* block the model opened and did not close.
ReasoningHidden == \A k \in Keys : ~({"<think>", "reasoning"} \subseteq insight[k].shows)

\* However an analysis ends, the panel stops waiting.
InsightSettles == \A k \in Keys : insight[k].at = "partial" ~> insight[k].at # "partial"

==============================================================================
