---------------------------- MODULE LlmRequests ----------------------------
(* The dialogues with the model (main.py, LLM/flag_solver.py): what is     *)
(* asked is a conversation that grows by the unusable reply and its        *)
(* correction, each request sends a copy of it that is cut to the size     *)
(* limit (LLM/LLMUtil.py), and a request that fails is repeated.  A        *)
(* message is its role and its length, a reply what can be read in it.     *)
EXTENDS Integers, Sequences

CONSTANTS
    HardLimit,    \* MAX_INPUT_CHARS_HARD
    NoticeLen,    \* of TRUNCATION_NOTICE
    Spare,        \* the 256 characters cut beyond what is too much
    RoleLen,      \* of the name of a role
    Lengths,      \* bound: lengths of prompts and replies
    FeedbackLen,  \* bound: the length of a correction
    MaxRequests   \* LLM_MAX_RETRIES

Role == {"system", "user", "assistant"}
MostMessages == 8 \* the longest conversation: three replies and their corrections

LimitsAssumption ==
    /\ NoticeLen \in Nat /\ Spare \in Nat /\ HardLimit \in Nat /\ FeedbackLen \in Nat
    /\ Lengths \subseteq Nat /\ RoleLen \in [Role -> Nat] /\ MaxRequests \in Nat \ {0}
    /\ \A r \in Role : MostMessages * (RoleLen[r] + NoticeLen) <= HardLimit

VARIABLES
    turn,      \* idle, copy, shrink, wait for the reply, over
    dialogue,  \* which one it is
    talk,      \* its messages
    prompt,    \* the copy that is sent
    upTo,      \* the messages of the copy not looked at yet
    round,     \* the replies that were unusable
    failures,  \* failed requests for this reply
    ending     \* how it ended

llmVars == <<turn, dialogue, talk, prompt, upTo, round, failures, ending>>

----------------------------------------------------------------------------
(* Replies: none at all (the request failed for good), no content, blanks, *)
(* and text in which there is a script, no JSON, JSON that does not parse, *)
(* a scalar, an object or a list, as asked for or not.                     *)
Json == {"object", "otherObject", "list", "otherList", "emptyList"}
Text == {"script", "prose", "broken", "scalar"} \cup Json
Reply == {"failure", "none", "blank"} \cup Text

(* What extract_json_with_fallback finds no segment in.                    *)
NoJson == {"blank", "script", "prose", "broken", "scalar"}

(* How a dialogue takes a reply: it uses it, drops the question, asks the  *)
(* same again, or asks again with the reply and a correction; the rest is  *)
(* an exception that its caller sees.  untold: the last reply is not       *)
(* answered any more.                                                      *)
Dialogue(tries, uses, drops, again, tells, untold) ==
    [tries |-> tries, uses |-> uses, drops |-> drops, again |-> again, tells |-> tells, untold |-> untold]
Once(uses, drops) == Dialogue(1, uses, drops, {}, {}, TRUE)

(* mutate_suggest_with_taint parses the whole reply.                       *)
SuggestWithTaint ==
    Dialogue(3, {"list"}, {"blank", "emptyList"}, {"failure", "none", "otherList"},
             {"script", "prose", "broken", "scalar", "object", "otherObject"}, TRUE)
SuggestWithoutTaint == SuggestWithTaint
MutateScript == Once({"script"}, {"blank"} \cup (Text \ {"script"}))
SeedTargetedScript == Dialogue(3, Text, {}, {}, {"none", "blank"}, TRUE)
TextMutationPlan ==
    Dialogue(3, {"list"}, {}, {}, NoJson \cup {"object", "otherObject", "otherList", "emptyList"}, FALSE)
DirectText == Dialogue(3, Text, {}, {}, {"none", "blank"}, TRUE)
DirectPlan ==
    Dialogue(3, {"object", "otherObject"}, {}, {"list", "otherList", "emptyList"}, NoJson, TRUE)
GenerateScript == Dialogue(3, {"object"}, {}, {}, NoJson \cup (Json \ {"object"}), FALSE)
Analysis == GenerateScript
JsonObject ==
    Dialogue(3, {"object", "otherObject"}, {"failure", "none"}, {},
             NoJson \cup {"list", "otherList", "emptyList"}, TRUE)
SolveWithFlags == Once({"object"}, NoJson \cup {"otherObject"})

(* The chats of LLMUtil: a request that fails becomes a reply of its own.  *)
Chat == Once(Reply, {})
Advice == Once(Reply \ {"failure"}, {})

Dialogues ==
    {SuggestWithTaint, SuggestWithoutTaint, MutateScript, SeedTargetedScript, TextMutationPlan, DirectText,
     DirectPlan, GenerateScript, Analysis, JsonObject, SolveWithFlags, Chat, Advice}

----------------------------------------------------------------------------
Msg(r, n) == [role |-> r, len |-> n]

Idle == Dialogue(0, {}, {}, {}, {}, TRUE)
Init ==
    /\ turn = "idle" /\ dialogue = Idle
    /\ talk = <<>> /\ prompt = <<>> /\ upTo = 0
    /\ round = 0 /\ failures = 0 /\ ending = "none"

Begin(d, system, user) ==
    /\ turn = "idle" /\ turn' = "copy"
    /\ dialogue' = d /\ talk' = <<Msg("system", system), Msg("user", user)>>
    /\ UNCHANGED <<prompt, upTo, round, failures, ending>>

(* _estimate_messages_chars                                                *)
Chars(m) == RoleLen[m.role] + m.len
Estimate(ms) ==
    LET upto[n \in 0 .. Len(ms)] == IF n = 0 THEN 0 ELSE upto[n - 1] + Chars(ms[n])
    IN  upto[Len(ms)]

(* get_response sends a copy; _shrink_messages_to_limit goes through it    *)
(* from the end until it fits.                                             *)
Whole(m) == [role |-> m.role, len |-> m.len, form |-> "whole"]
Copy ==
    /\ turn = "copy" /\ turn' = "shrink"
    /\ prompt' = [i \in DOMAIN talk |-> Whole(talk[i])] /\ upTo' = Len(talk)
    /\ UNCHANGED <<dialogue, talk, round, failures, ending>>

BareOverflow(total) == total - HardLimit                            \* mutant
Overflow(total) == total - HardLimit + NoticeLen + Spare

Cut(m, total) ==
    LET keep == m.len - Overflow(total)
    IN  IF keep > 0 THEN [m EXCEPT !.len = keep + NoticeLen, !.form = "cut"]
        ELSE [m EXCEPT !.len = NoticeLen, !.form = "notice"]

Shrink ==
    /\ turn = "shrink" /\ UNCHANGED <<dialogue, talk, round, failures, ending>>
    /\ IF Estimate(prompt) <= HardLimit \/ upTo = 0
       THEN turn' = "wait" /\ UNCHANGED <<prompt, upTo>>
       ELSE /\ upTo' = upTo - 1 /\ UNCHANGED turn
            /\ prompt' = IF prompt[upTo].len = 0 THEN prompt
                         ELSE [prompt EXCEPT ![upTo] = Cut(prompt[upTo], Estimate(prompt))]

(* Whatever goes wrong, the same request is sent again after a pause; the  *)
(* last failure is raised.                                                 *)
Repeat ==
    /\ turn = "wait" /\ failures + 1 < MaxRequests
    /\ failures' = failures + 1
    /\ UNCHANGED <<turn, dialogue, talk, prompt, upTo, round, ending>>

----------------------------------------------------------------------------
End(how) == turn' = "over" /\ ending' = how /\ UNCHANGED <<talk, round>>

(* After an unusable reply: the next one, if there is one.                 *)
Unusable ==
    /\ round' = round + 1
    /\ IF round + 1 < dialogue.tries THEN turn' = "copy" /\ UNCHANGED ending
       ELSE turn' = "over" /\ ending' = "nothing"

(* append_llm_retry_feedback                                               *)
Told(n) == talk \o <<Msg("assistant", n), Msg("user", FeedbackLen)>>

Answer(r, n) ==
    /\ turn = "wait" /\ failures' = 0
    /\ r = "failure" <=> failures + 1 = MaxRequests
    /\ UNCHANGED <<dialogue, prompt, upTo>>
    /\ \/ r \in dialogue.uses /\ End("used")
       \/ r \in dialogue.drops /\ End("nothing")
       \/ r \in dialogue.again /\ Unusable /\ UNCHANGED talk
       \/ /\ r \in dialogue.tells /\ Unusable
          /\ talk' = IF dialogue.untold /\ round + 1 = dialogue.tries THEN talk ELSE Told(n)
       \/ /\ r \notin dialogue.uses \cup dialogue.drops \cup dialogue.again \cup dialogue.tells
          /\ End("raised")

ReplyLengths(r) == IF r \in {"failure", "none"} THEN {0} ELSE Lengths

Next ==
    \/ turn = "idle" /\ \E d \in Dialogues, system, user \in Lengths : Begin(d, system, user)
    \/ Copy \/ Shrink \/ Repeat
    \/ turn = "wait" /\ \E r \in Reply : \E n \in ReplyLengths(r) : Answer(r, n)

Spec == Init /\ [][Next]_llmVars

----------------------------------------------------------------------------
Forms == {"whole", "cut", "notice"}
TypeOK ==
    /\ turn \in {"idle", "copy", "shrink", "wait", "over"} /\ dialogue \in Dialogues \cup {Idle}
    /\ talk \in Seq([role : Role, len : Nat]) /\ prompt \in Seq([role : Role, len : Nat, form : Forms])
    /\ upTo \in 0 .. Len(prompt) /\ round \in 0 .. dialogue.tries /\ failures \in 0 .. MaxRequests - 1
    /\ ending \in {"none", "used", "nothing", "raised"}

(* A request fits the limit, however the conversation has grown, and what  *)
(* was cut for it was cut from the end: messages as they are, at most one  *)
(* that lost its rest, and notices or empty messages after it; one that    *)
(* was cut in two fills the request up to the spare characters, and        *)
(* nothing is cut of a conversation that fits as it is.                    *)
RequestsFit ==
    turn = "wait" =>
        /\ Len(prompt) = Len(talk) /\ Estimate(prompt) <= HardLimit
        /\ \E k \in 0 .. Len(prompt) :
              /\ \A i \in 1 .. k : prompt[i] = Whole(talk[i])
              /\ \A i \in k + 1 .. Len(prompt) :
                    \/ prompt[i].form = "notice" \/ prompt[i].len = 0
                    \/ prompt[i].form = "cut" /\ i = k + 1 /\ Estimate(prompt) = HardLimit - Spare
        /\ Estimate(talk) <= HardLimit => \A i \in DOMAIN prompt : prompt[i].form = "whole"
=============================================================================
