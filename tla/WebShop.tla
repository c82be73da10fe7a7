------------------------------ MODULE WebShop ------------------------------
(***************************************************************************)
(* One trajectory of the WebShop agent flow (recipe/webshop/               *)
(* webshop_agent_flow.py, run) against the page engine.  The episode's     *)
(* state lives in the flow: env_state travels with every request and is    *)
(* replaced by the one in the answer, and the page and the offers of the   *)
(* next prompt are taken from that answer too.  A request that raises      *)
(* leaves all three as they were, and spends a step.                       *)
(*                                                                         *)
(* A step of the model is one turn of the while loop: the coroutine shares *)
(* nothing with the others, and the engine keeps nothing.                  *)
(***************************************************************************)
EXTENDS WebShopEngine

CONSTANTS
  MaxSteps,        \* max_steps
  SuccessReward,   \* success_reward
  Penalty,         \* invalid_tool_call_penalty
  Goals,           \* the goals of the data set
  Junk             \* a click target that no page knows

ASSUME FlowAssumption ==
  /\ MaxSteps \in Nat \ {0} /\ SuccessReward \in Nat \ {0} /\ Penalty \in Nat
  /\ Junk \notin Items \union Values \union Buttons
  /\ \A g \in Goals :
       /\ g.full \in BOOLEAN /\ g.asin \in Items /\ g.suits \subseteq Items
       /\ g.wanted \in UNION {[N -> Values] : N \in SUBSET Names}

VARIABLES
  goal,         \* the goal of the trajectory
  env,          \* env_state
  observation,  \* current_observation: the page, and the notices wrapped around it
  offers,       \* the clicks of available_actions
  history,      \* recent_history: the commands that were answered, and the invalid calls
  steps,        \* the steps of the output: anchor observation and reward
  done

vars == <<goal, env, observation, offers, history, steps, done>>

Clicks == Items \union Values \union Buttons \union {Junk}

Commands == {[name |-> "search", value |-> q] : q \in Queries}
              \union {[name |-> "click", value |-> t] : t \in Clicks}
              \union {[name |-> "malformed", value |-> Junk]}

InvalidCall == [name |-> "invalid tool call", value |-> Junk]

Plain(page) == [page |-> page, notices |-> 0]

\* What the observation says when the engine answers with state s.
Shown(s) == IF s.page = "done" THEN [page |-> "done"] ELSE Render(s)

-----------------------------------------------------------------------------

Init ==
  /\ goal \in Goals
  /\ env = Fresh
  /\ observation = Plain(Render(Fresh))
  /\ offers = AvailableClicks(Fresh)
  /\ history = <<>> /\ steps = <<>>
  /\ done = FALSE

Turning == Len(steps) < MaxSteps /\ ~done

Keep(reward) == steps' = Append(steps, [anchor |-> observation, reward |-> reward])

\* The engine answers a command, a refused one included.
Answer(command) ==
  CASE command.name = "search" -> Search(env, command.value)
    [] command.name = "click" -> Click(env, command.value)
    [] OTHER -> env

Act(command) ==
  /\ Turning
  /\ LET after == Answer(command) IN
     /\ env' = after
     /\ observation' = Plain(Shown(after))
     /\ offers' = AvailableClicks(after)
     /\ done' = (after.page = "done")
     /\ Keep(IF after.page = "done" /\ Success(goal, after) THEN SuccessReward ELSE 0)
  /\ history' = Append(history, command)
  /\ UNCHANGED goal

\* The request raises: a timeout, a refused connection or an error status, whether
\* the server computed an answer or not.
ActFails ==
  /\ Turning
  /\ Keep(0)
  /\ UNCHANGED <<goal, env, observation, offers, history, done>>

\* The response has no tool call, several, one of another name or without a
\* command.  Notices pile up around the page that the model last saw.
CallWrongly ==
  /\ Turning
  /\ observation' = [observation EXCEPT !.notices = @ + 1]
  /\ Keep(-Penalty)
  /\ history' = Append(history, InvalidCall)
  /\ UNCHANGED <<goal, env, offers, done>>

Next == (\E command \in Commands : Act(command)) \/ ActFails \/ CallWrongly

Spec == Init /\ [][Next]_vars

-----------------------------------------------------------------------------
(* Safety. *)

\* Every prompt shows the page of the state that the next request will carry, and
\* offers only clicks that the engine takes in that state; a next page that is
\* offered is not empty.
PromptIsCurrent ==
  /\ observation.page = Shown(env)
  /\ \A target \in offers : ~Refuses(env, target)
  /\ "next >" \in offers => Render(Click(env, "next >")).results # <<>>

\* The product last clicked since the last search.
Opened(item, i) ==
  /\ history[i].name = "click" /\ history[i].value = item
  /\ \A j \in i + 1..Len(history) :
       history[j].name # "search" /\ ~(history[j].name = "click" /\ history[j].value \in Items)

\* A value clicked on it last for an option.
Chosen(item, i, name, value) ==
  \E k \in i + 1..Len(history) :
    /\ history[k].name = "click" /\ history[k].value = value
    /\ OptionName(item, value) = name
    /\ \A j \in k + 1..Len(history) : history[j].name = "click" /\ history[j].value \in Values =>
         OptionName(item, history[j].value) # name

\* The success reward is paid at most once, for the last step, and exactly when the
\* trajectory bought a suitable product that it had opened since its last search,
\* with every wanted option chosen since it was opened: no choice made on another
\* product counts, and no failed or invalid step loses one.
PaidForItsClicks ==
  \A k \in DOMAIN steps : steps[k].reward = SuccessReward <=>
    /\ done /\ k = Len(steps)
    /\ \E item \in goal.suits, i \in DOMAIN history :
         /\ Opened(item, i)
         /\ goal.full \/ item = goal.asin
         /\ \A n \in DOMAIN goal.wanted :
              \E m \in IF goal.full THEN Names ELSE {n} : Chosen(item, i, m, goal.wanted[n])
=============================================================================
