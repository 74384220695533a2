------------------------------- MODULE Brain -------------------------------
(***************************************************************************)
(* The deep-Q-learning agent of ConvNetJS (web/js/convnetjs/deepqlearn.js) *)
(* with its running averages (util.js).                                    *)
(*                                                                         *)
(* The environment calls forward(state) and then, if it has one to give,   *)
(* backward(reward).  forward keeps the last network inputs, states and    *)
(* actions in windows that move with every forward; rewards are kept in    *)
(* one that moves with every backward.  Experiences are put together from  *)
(* all four.                                                               *)
(*                                                                         *)
(* Abstractions.  The state that the environment reports at the i-th pass  *)
(* is the number i, and the reward for it, too, so that the properties can *)
(* tell them apart.  What the network answers and what it learns is left   *)
(* out: a policy may name any action.                                      *)
(***************************************************************************)
EXTENDS Integers, Sequences, SequencesExt

CONSTANTS
  Action,         \* the actions
  None,           \* undefined
  TemporalWindow, \* the values of temporal_window of an instance
  ExperienceSize, \* experience_size
  StartThreshold, \* start_learn_threshold
  Burnin, Total,  \* learning_steps_burnin, learning_steps_total
  EpsilonMin,     \* epsilon_min, in parts of Total - Burnin
  WindowSize,     \* the size of a running average
  MaxPasses,      \* bound: calls of forward
  MaxToggles      \* bound: how often learning is switched

ASSUME WindowAssumption == TemporalWindow \subseteq Nat /\ WindowSize \in Nat \ {0}
ASSUME MemoryAssumption == ExperienceSize \in Nat \ {0} /\ StartThreshold \in Nat
ASSUME StepsAssumption ==
  /\ Burnin \in Nat /\ Total \in Nat /\ Burnin < Total
  /\ EpsilonMin \in 0..Total - Burnin
ASSUME NoneAssumption == None \notin Action /\ None \notin Nat
ASSUME BoundsAssumption == MaxPasses \in Nat /\ MaxToggles \in Nat

VARIABLES
  temporal_window,
  net_window,     \* what the network was given
  state_window, action_window, reward_window,
  experience,
  learning,
  age,            \* how many backward() have learned
  epsilon,        \* in parts of Total - Burnin
  average_reward, \* a running average, with its values v and their sum
  average_loss,   \* how many values that of the losses holds
  history,        \* each pass's action, and its reward when it had one
  toggles         \* counted for the bound

windows == <<net_window, state_window, action_window>>
brainVars == <<temporal_window, windows, reward_window, experience, learning, age,
               epsilon, average_reward, average_loss, history, toggles>>

window_size == IF temporal_window > 2 THEN temporal_window ELSE 2
forward_passes == Len(history)
Whole == Total - Burnin    \* an epsilon of 1

Pass == 1..MaxPasses
Pair == Pass \X Action
NetInput == {<<>>} \cup (Pass \X Seq(Pair))

BrainTypeOK ==
  /\ temporal_window \in TemporalWindow
  /\ net_window \in [1..window_size -> NetInput \cup {None}]
  /\ state_window \in [1..window_size -> Pass \cup {None}]
  /\ action_window \in [1..window_size -> Action \cup {None}]
  /\ reward_window \in [1..window_size -> Pass \cup {None}]
  /\ experience \in Seq([state0 : NetInput, action0 : Action,
                         reward0 : Pass \cup {None}, state1 : NetInput])
  /\ Len(experience) <= ExperienceSize
  /\ learning \in BOOLEAN
  /\ age \in 0..MaxPasses
  /\ epsilon \in EpsilonMin..Whole \cup {0}
  /\ average_reward \in [v : Seq(Pass), sum : Nat]
  /\ average_loss \in 0..WindowSize
  /\ history \in Seq([action : Action, reward : Pass \cup {None}])
  /\ toggles \in 0..MaxToggles

Empty == [i \in 1..window_size |-> None]

BrainInit ==
  /\ temporal_window \in TemporalWindow
  /\ net_window = Empty /\ state_window = Empty
  /\ action_window = Empty /\ reward_window = Empty
  /\ experience = <<>>
  /\ learning = TRUE
  /\ age = 0
  /\ epsilon = Whole
  /\ average_reward = [v |-> <<>>, sum |-> 0]
  /\ average_loss = 0
  /\ history = <<>>
  /\ toggles = 0

-----------------------------------------------------------------------------

\* shift() and push(x)
Shifted(window, x) == Append(Tail(window), x)

\* Window.add
Added(w, x) ==
  IF Len(w.v) = WindowSize
  THEN [v |-> Shifted(w.v, x), sum |-> w.sum + x - Head(w.v)]
  ELSE [v |-> Append(w.v, x), sum |-> w.sum + x]

\* The state now, and the states and actions before it, the latest first.
getNetInput(state) ==
  LET n == window_size
  IN <<state, [k \in 1..temporal_window |-> <<state_window[n + 1 - k], action_window[n + 1 - k]>>]>>

\* Mutant of Annealed: the floor is forgotten.
AnnealedFurther ==
  IF learning THEN IF age <= Burnin THEN Whole ELSE Whole - (age - Burnin) ELSE 0

\* The epsilon of the epsilon-greedy policy; epsilon_test_time is 0 here.
Annealed ==
  LET falling == Whole - (age - Burnin)
  IN IF ~learning THEN 0
     ELSE IF age <= Burnin THEN Whole
     ELSE IF falling < EpsilonMin THEN EpsilonMin ELSE falling

\* There are states and actions to look back at.
Enough == forward_passes + 1 > temporal_window

\* forward(state): a random action, with the probability epsilon or without
\* context, and otherwise the one that the policy names.
forward(action) ==
  LET state == forward_passes + 1
      net_input == IF Enough THEN getNetInput(state) ELSE <<>>
  IN /\ forward_passes < MaxPasses
     /\ epsilon' = IF Enough THEN Annealed ELSE epsilon
     /\ net_window' = Shifted(net_window, net_input)
     /\ state_window' = Shifted(state_window, state)
     /\ action_window' = Shifted(action_window, action)
     /\ history' = Append(history, [action |-> action, reward |-> None])
     /\ UNCHANGED <<temporal_window, reward_window, experience, learning, age,
                    average_reward, average_loss, toggles>>

\* The experience of the pass before this one.
NewExperience ==
  LET n == window_size
  IN [state0 |-> net_window[n - 1], action0 |-> action_window[n - 1],
      reward0 |-> reward_window'[n - 1], state1 |-> net_window[n]]

\* Mutant of Remember: the first experience is stored a pass too early.
RememberEarly ==
  IF forward_passes > temporal_window
  THEN IF Len(experience) < ExperienceSize
       THEN experience' = Append(experience, NewExperience)
       ELSE \E ri \in 1..ExperienceSize :
              experience' = [experience EXCEPT ![ri] = NewExperience]
  ELSE UNCHANGED experience

\* It is stored, in the place of any other when the memory is full.
Remember ==
  IF forward_passes > temporal_window + 1
  THEN IF Len(experience) < ExperienceSize
       THEN experience' = Append(experience, NewExperience)
       ELSE \E ri \in 1..ExperienceSize :
              experience' = [experience EXCEPT ![ri] = NewExperience]
  ELSE UNCHANGED experience

\* Mutant of Train: the threshold is enough.
TrainEarly ==
  average_loss' = IF Len(experience') >= StartThreshold /\ average_loss < WindowSize
                  THEN average_loss + 1 ELSE average_loss

\* A batch is trained when there are enough experiences.
Train ==
  average_loss' = IF Len(experience') > StartThreshold /\ average_loss < WindowSize
                  THEN average_loss + 1 ELSE average_loss

backward ==
  LET reward == forward_passes
  IN /\ forward_passes > 0 /\ Last(history).reward = None
     /\ average_reward' = Added(average_reward, reward)
     /\ reward_window' = Shifted(reward_window, reward)
     /\ history' = [history EXCEPT ![forward_passes].reward = reward]
     /\ IF learning
        THEN age' = age + 1 /\ Remember /\ Train
        ELSE UNCHANGED <<age, experience, average_loss>>
     /\ UNCHANGED <<temporal_window, windows, learning, epsilon, toggles>>

\* The page switches between training and test.
ToggleLearning ==
  /\ toggles < MaxToggles
  /\ toggles' = toggles + 1
  /\ learning' = ~learning
  /\ UNCHANGED <<temporal_window, windows, reward_window, experience, age,
                 epsilon, average_reward, average_loss, history>>

Forward == \E action \in Action : forward(action)

BrainNext == Forward \/ backward \/ ToggleLearning

BrainSpec == BrainInit /\ [][BrainNext]_brainVars

-----------------------------------------------------------------------------
(* Properties *)

\* The network input of a pass, from what happened.
InputOf(i) ==
  <<i, [k \in 1..temporal_window |-> <<i - k, history[i - k].action>>]>>

\* Every experience is a transition that took place: two passes that follow
\* each other, with the first one's context and action, and with its reward, if
\* it had one; however learning was switched on and off, rewards were left out,
\* and experiences were replaced.  (A pass without a reward is remembered with
\* the reward of an earlier one.)
TrueTransitions ==
  \A n \in DOMAIN experience :
    \E i \in temporal_window + 1..forward_passes - 1 :
      LET e == experience[n] IN
      /\ e.state0 = InputOf(i) /\ e.state1 = InputOf(i + 1)
      /\ e.action0 = history[i].action
      /\ history[i].reward # None => e.reward0 = history[i].reward

\* A brain that is left to learn trains at every reward from the first on for
\* which it has seen enough, and never stops; if its memory holds more than the
\* threshold asks for.
TrainsInTime ==
  toggles = 0 /\ StartThreshold < ExperienceSize =>
    LET seen == Cardinality({i \in temporal_window + 2..forward_passes : history[i].reward # None})
        due == IF seen > StartThreshold THEN seen - StartThreshold ELSE 0
    IN average_loss = IF due < WindowSize THEN due ELSE WindowSize

=============================================================================
