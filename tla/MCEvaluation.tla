---------------------------- MODULE MCEvaluation ----------------------------
(* suiko-eval for TLC.  Two sources, the second of which may be fetched    *)
(* alone; and for the commands up to three documents and two samples, of   *)
(* the thresholds t1 and t2 are accepted.                                  *)
EXTENDS ExternalCorpus, Evaluation

TwoSources == <<"a", "b">>

Doc(label, split, genre, chars, prefixed, fires, terms) ==
  [label |-> label, split |-> split, genre |-> genre, chars |-> chars,
   prefixed |-> prefixed, terms |-> terms,
   fires |-> [v \in {"default", "t1", "t2"} |->
                IF v = "default" THEN fires[1] ELSE fires[IF v = "t1" THEN 1 ELSE 2]]]

MCDocuments ==
  {Doc("human", split, "tech", chars, chars = 10, fires, <<0, 1, 0>>) :
     split \in {"dev", "holdout"}, chars \in {9, 10}, fires \in {<<0, 0>>, <<2, 1>>, <<1, 0>>}}
  \cup
  {Doc("ai", split, genre, 20, FALSE, fires,
       IF genre = "tech" THEN <<5, 0, 6>> ELSE <<1, 6, 0>>) :
     split \in {"dev", "holdout"}, genre \in {"tech", "essay"},
     fires \in {<<1, 1>>, <<1, 0>>}}

MCSamples ==
  [category : {"c1", "c2"}, expect : {"fire", "silent"}, findings : {0, 2}]

MCCorpora ==
  [documents : UNION {[1..n -> MCDocuments] : n \in 1..2},
   external : {<< >>} \cup {<<d>> : d \in {e \in MCDocuments : e.chars # 9}},
   samples : {<< >>}]
  \cup
  [documents : [1..1 -> MCDocuments], external : {<< >>},
   samples : UNION {[1..n -> MCSamples] : n \in 0..2}]

Calibrates ==
  [name : {"calibrate"}, values : {<<"t1", "t2">>, <<"t2", "t1">>, <<"t1", "t3">>},
   limit : {2, 6, 8}, external : {TRUE}, exclude : BOOLEAN]

MCCommands ==
  Calibrates \cup [name : {"sweep"}, values : {<<"t1", "t2">>, <<"t3">>}]
  \cup [name : {"report"}, external : {TRUE}, split : {"dev", "holdout", "all"}]
  \cup [name : {"vocab"}, external : {TRUE}, exclude : BOOLEAN]
  \cup {[name |-> "lengths"], [name |-> "labeled"]}

MCAccepted == {"t1", "t2"}
-----------------------------------------------------------------------------
(* One of the two at a time: the files are fetched and read, or a command  *)
(* computes on documents, whatever those are.                              *)
NoCommand == [kind |-> "none"]

SuikoEvalInit ==
  /\ Init
  /\ \/ EvaluationInit /\ alone
     \/ documents = << >> /\ external = << >> /\ samples = << >> /\ out = NoCommand

OnFiles(A) == out = NoCommand /\ A /\ UNCHANGED evaluationVars

SuikoEvalNext == OnFiles(Next) \/ (EvaluationNext /\ UNCHANGED vars)

SuikoEvalSpec ==
  /\ SuikoEvalInit /\ [][SuikoEvalNext]_<<vars, evaluationVars>>
  /\ \A p \in Fetchers : WF_<<vars, evaluationVars>>(OnFiles(Fetching(p)))
=============================================================================
