------------------------------ MODULE CatPage ------------------------------
(***************************************************************************)
(* The page of the CNN classifier (web/index.html) and its web server      *)
(* (cnn.py).                                                               *)
(*                                                                         *)
(* "Load" reads the batches of images one after the other, each in the     *)
(* background, and then draws the samples.  "Start" posts the samples to   *)
(* the server, which answers one request at a time, and compares the       *)
(* answers with the labels of the samples.  The two keep out of each       *)
(* other's way by disabling buttons, and share num_samples, the list of    *)
(* loaded batches and current_samples.                                     *)
(*                                                                         *)
(* Abstractions.  The number that is typed is counted in batches, one      *)
(* sample to a batch; a sample is the batch it is drawn from, NoSample     *)
(* where the code would read past the list.  What is drawn on the page is  *)
(* left out.                                                               *)
(***************************************************************************)
EXTENDS Naturals, Sequences, SequencesExt, FiniteSets

CONSTANTS
  Available, \* how many batches there are
  NoSample,
  MaxLoads, MaxRuns \* bounds: clicks on the buttons

ASSUME PageAssumption == Available \in Nat \ {0} /\ NoSample \notin Nat
ASSUME ClicksAssumption == MaxLoads \in Nat /\ MaxRuns \in Nat

VARIABLES
  input,           \* inputImageCount
  enabled,         \* loadButton, startButton and inputImageCount
  num_samples,     \* and num_batches
  loads,           \* the loads under way: the batch, and what they wait for
  loaded_train_batches,
  current_samples,
  requests,        \* posts that are not answered
  result,          \* the samples of the last answer, and those compared with
  clicks           \* history: how many, and what they met

pageVars == <<input, enabled, num_samples, loads, loaded_train_batches,
              current_samples, requests, result, clicks>>

\* 0 stands for what is no number or too small, Available + 1 for too many.
Count == 0..Available + 1
Widget == {"load", "start", "input"}
Samples == Seq(0..Available - 1)

PageTypeOK ==
  /\ input \in Count
  /\ enabled \subseteq Widget
  /\ num_samples \in Count
  /\ loads \in Seq([batch : 0..Available, waits : {"timer", "image"}])
  /\ loaded_train_batches \in Seq(0..Available - 1)
  /\ current_samples \in Samples
  /\ Len(current_samples) <= Available
  /\ requests \in Seq(Samples)
  /\ result \in [answered : Samples, compared : Samples]
  /\ clicks \in [loads : 0..MaxLoads, runs : 0..MaxRuns,
                 overlapped : BOOLEAN,   \* a start was clicked during a load
                 failed : BOOLEAN]       \* a post or an image failed

PageInit ==
  /\ input = 1
  /\ enabled = {"load", "input"}
  /\ num_samples = 1
  /\ loads = <<>>
  /\ loaded_train_batches = <<>>
  /\ current_samples = <<>>
  /\ requests = <<>>
  /\ result = [answered |-> <<>>, compared |-> <<>>]
  /\ clicks = [loads |-> 0, runs |-> 0, overlapped |-> FALSE, failed |-> FALSE]

-----------------------------------------------------------------------------

Valid(count) == count \in 1..Available

\* A key in the field.
Type(count) ==
  /\ "input" \in enabled
  /\ input' = count
  /\ enabled' = IF Valid(count) THEN enabled \cup {"load"} ELSE enabled \ {"load"}
  /\ UNCHANGED <<num_samples, loads, loaded_train_batches, current_samples,
                 requests, result, clicks>>

Load ==
  /\ "load" \in enabled /\ clicks.loads < MaxLoads
  /\ num_samples' = input
  /\ enabled' = enabled \ {"load", "input"}
  /\ loads' = Append(loads, [batch |-> 0, waits |-> "timer"])
  /\ clicks' = [clicks EXCEPT !.loads = @ + 1]
  /\ UNCHANGED <<input, loaded_train_batches, current_samples, requests, result>>

\* load_batch, and load_data_batch.
LoadNext(k) ==
  /\ loads[k].waits = "timer" /\ loads[k].batch < num_samples
  /\ loads' = [loads EXCEPT ![k].waits = "image"]
  /\ UNCHANGED <<input, enabled, num_samples, loaded_train_batches, current_samples,
                 requests, result, clicks>>

\* Mutant of Sample: a place in the list is chosen among all images.
SampleAnywhere(place) ==
  IF place + 1 \in DOMAIN loaded_train_batches THEN loaded_train_batches[place + 1] ELSE NoSample

\* sample_training_instance
Sample(place) ==
  IF place \in DOMAIN loaded_train_batches THEN loaded_train_batches[place] ELSE NoSample

\* load_batch, when the last batch is loaded: draw the samples.
Draw(k) ==
  /\ loads[k].waits = "timer" /\ loads[k].batch >= num_samples
  /\ \E places \in [1..num_samples -> 1..num_samples] :
       current_samples' = [j \in 1..num_samples |-> Sample(places[j])]
  /\ enabled' = Widget
  /\ loads' = RemoveAt(loads, k)
  /\ UNCHANGED <<input, num_samples, loaded_train_batches, requests, result, clicks>>

\* onload
ImageLoaded(k) ==
  /\ loads[k].waits = "image" /\ loads[k].batch < Available
  /\ loaded_train_batches' = Append(loaded_train_batches, loads[k].batch)
  /\ loads' = [loads EXCEPT ![k] = [batch |-> @.batch + 1, waits |-> "timer"]]
  /\ UNCHANGED <<input, enabled, num_samples, current_samples, requests, result, clicks>>

\* The image cannot be fetched: there is no onerror, and nothing else goes on
\* with the load.
ImageFails(k) ==
  /\ loads[k].waits = "image"
  /\ loads' = RemoveAt(loads, k)
  /\ clicks' = [clicks EXCEPT !.failed = TRUE]
  /\ UNCHANGED <<input, enabled, num_samples, loaded_train_batches, current_samples,
                 requests, result>>

\* Mutant of Busy: Start leaves the other buttons alone.
BusyStarting == enabled \ {"start"}

\* All are disabled during a run.
Busy == {}

Start ==
  /\ "start" \in enabled /\ clicks.runs < MaxRuns
  /\ enabled' = Busy
  /\ requests' = Append(requests, current_samples)
  /\ clicks' = [clicks EXCEPT !.runs = @ + 1, !.overlapped = @ \/ loads # <<>>]
  /\ UNCHANGED <<input, num_samples, loads, loaded_train_batches, current_samples, result>>

\* Mutant of AfterRun: Load stays disabled.
AfterRunStart == {"start", "input"}

AfterRun == Widget

\* do_POST, and the callback of post.
Respond ==
  /\ requests # <<>>
  /\ result' = [answered |-> Head(requests), compared |-> current_samples]
  /\ requests' = Tail(requests)
  /\ enabled' = AfterRun
  /\ UNCHANGED <<input, num_samples, loads, loaded_train_batches, current_samples, clicks>>

\* An exception in do_POST, or a lost connection: the callback is not called.
Fail ==
  /\ requests # <<>>
  /\ requests' = Tail(requests)
  /\ clicks' = [clicks EXCEPT !.failed = TRUE]
  /\ UNCHANGED <<input, enabled, num_samples, loads, loaded_train_batches,
                 current_samples, result>>

Browser == \E k \in DOMAIN loads : LoadNext(k) \/ Draw(k) \/ ImageLoaded(k) \/ ImageFails(k)

PageNext ==
  \/ \E count \in Count : Type(count)
  \/ Load \/ Start
  \/ Browser
  \/ Respond \/ Fail

PageSpec == PageInit /\ [][PageNext]_pageVars

\* Timers fire, images are loaded or fail, and a request is answered or fails.
PageFairSpec == PageSpec /\ WF_pageVars(Browser) /\ WF_pageVars(Respond \/ Fail)

-----------------------------------------------------------------------------
(* Properties *)

\* Samples are taken from batches that have been loaded, among the first
\* num_batches; also when loads of different lengths overlap, and the list has
\* batches twice.
SamplesFromLoaded ==
  [][current_samples' # current_samples =>
       \A j \in DOMAIN current_samples' :
         /\ current_samples'[j] \in 0..num_samples - 1
         /\ Contains(loaded_train_batches, current_samples'[j])]_pageVars

\* The answers are compared with the labels of the samples they are for, as
\* long as Start is not clicked during a load.  (It is enabled then: the new
\* samples replace those that were posted, and from then on loads and runs
\* overlap.)
ResultsMatch == ~clicks.overlapped => result.answered = result.compared

\* Load comes back after every load and run, unless a post or an image failed,
\* a count that is no longer valid was loaded, or the field has none.
LoadComesBack ==
  []<>("load" \in enabled \/ ~Valid(input) \/ clicks.failed)

=============================================================================
