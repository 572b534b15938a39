-------------------------------- MODULE WebUI --------------------------------
(***************************************************************************)
(* The web interface of paasbox (src/views): App, TasksController and        *)
(* TaskItem over a Redux store, the requests they send to the HTTP API, and  *)
(* a user who follows links, goes back and forward and clicks.               *)
(*                                                                          *)
(* React and react-redux run an event and every update it causes to the end  *)
(* before the next one: so does an action here. What is slow is the network: *)
(* answers come late, in any order, or never, while the user goes on. The    *)
(* two requests of fetchTasks, which waits for both, are one.                *)
(***************************************************************************)
EXTENDS Integers, FiniteSets

CONSTANTS
    Stacks, First,  \* stacks of /api/stacks, and the first of them
    Ids,            \* task ids: every stack uses the same
    Controls,       \* the two switches of a task: "run" and "dev"
    Unknown,        \* a stack or a task that does not exist
    MaxFetches,     \* bound on requests for tasks
    MaxChanges      \* bound on clicks and on changes by others, together

ASSUME FirstAssumption == First \in Stacks
ASSUME ControlsAssumption == Controls \subseteq {"run", "dev"}
ASSUME UnknownAssumption == Unknown \notin Stacks \cup Ids
ASSUME WebBounds == MaxFetches \in Nat /\ MaxChanges \in Nat

NoStack == "no stack"
NoTask == "no task"
NoTasks == [by |-> 0]
NoItems == [t \in {} |-> {}]

VARIABLES
    server,     \* is_started and dev_mode of every task, as the API knows them
    path,       \* the route: params.stack and params.task
    stacks,     \* App's state: "fetching", or "known"
    \* the store: activeStack.id, activeStack.tasks, activeTask.id
    activeStack, tasks, activeTask,
    isFetchingTasks,    \* state of the TasksController that is mounted
    items,              \* hasStarted and devMode, the state of each TaskItem
    broken,             \* the component whose TypeError ended an update half way: React is stuck
    \* requests that have not been answered
    fetches, posts,
    \* bookkeeping
    latest, lost,       \* the last fetch, and whether its answer will not come
    late,               \* the answer to an earlier one has come since
    clicks, lastClick,  \* clicks so far, and the last one on each control
    lastServed,         \* the last click the API has carried out, 0 if somebody else came
    others

store == <<activeStack, tasks, activeTask>>
view == <<isFetchingTasks, items, broken>>
net == <<server, fetches, posts>>
count == <<latest, lost, late, clicks, lastClick, lastServed, others>>
vars == <<path, stacks, store, view, net, count>>

Root == [stack |-> NoStack, task |-> NoTask]
Paths == {Root} \cup [stack : Stacks \cup {Unknown}, task : Ids \cup {NoTask, Unknown}]
Never == [t \in Ids |-> [c \in Controls |-> 0]]

Init ==
    /\ server = [s \in Stacks |-> [t \in Ids |-> [c \in Controls |-> FALSE]]]
    /\ path \in Paths /\ stacks = "fetching"
    /\ activeStack = NoStack /\ tasks = NoTasks /\ activeTask = NoTask
    /\ isFetchingTasks = FALSE /\ items = NoItems /\ broken = "no"
    /\ fetches = {} /\ posts = {}
    /\ latest = 0 /\ lost = FALSE /\ late = FALSE /\ clicks = 0 /\ lastClick = Never
    /\ lastServed = [s \in Stacks |-> Never] /\ others = 0

-----------------------------------------------------------------------------
(* Rendering                                                                *)

\* TaskItems stay mounted while their keys do; the others take what the tasks say.
Items(labels) ==
    [t \in Ids |-> IF t \in DOMAIN items THEN items[t] ELSE labels[t]]

\* Logs of a task without instances: current_instances[0] of undefined.
CannotRender(list) == \E t \in list.logs : t \notin list.live

\* What the user sees after an update: Loading, or the list.
Render(fetching, list, labels) ==
    /\ isFetchingTasks' = fetching
    /\ items' = IF fetching \/ list = NoTasks THEN NoItems ELSE Items(labels)
    /\ broken' = IF fetching THEN "no"
                 ELSE IF list = NoTasks THEN "TasksList"
                 ELSE IF CannotRender(list) THEN "Logs" ELSE "no"

\* A TypeError in the middle of an update.
Break(component) ==
    /\ broken' = component
    /\ UNCHANGED <<store, isFetchingTasks, items, fetches, latest, lost, late, lastClick>>

\* fetchTasks. (mine: of the controller that is mounted.)
Fetch(s, t, inFlight) ==
    /\ latest < MaxFetches /\ latest' = latest + 1 /\ lost' = FALSE /\ late' = FALSE
    /\ fetches' = inFlight \cup {[n |-> latest + 1, stack |-> s, task |-> t, mine |-> TRUE, then |-> NoTask]}
    /\ Render(TRUE, NoTasks, NoItems)
    /\ lastClick' = Never

-----------------------------------------------------------------------------
(* App and its router                                                       *)

\* Mutant: the tasks of the stack that is left are fetched.
OldStack(p) == IF path.stack \in Stacks THEN path.stack ELSE p.stack

FetchedStack(p) == p.stack

\* App sets the active stack, which has no tasks, and clears the active task.
Activate(s) == activeStack' = s /\ tasks' = NoTasks /\ activeTask' = NoTask

\* TasksController is mounted and fetches in componentWillMount.
Mount(p, inFlight) == Activate(p.stack) /\ Fetch(FetchedStack(p), p.task, inFlight)

\* Mutant: nothing is pushed.
NoTarget(p) == p

\* RedirectToStack pushes the first stack while it mounts.
Target(p) == IF p = Root THEN [stack |-> First, task |-> NoTask] ELSE p

StacksArrive ==
    /\ stacks = "fetching" /\ stacks' = "known" /\ path' = Target(path)
    /\ IF path.stack = Unknown THEN Break("App") ELSE Mount(Target(path), fetches)
    /\ UNCHANGED <<server, posts, clicks, lastServed, others>>

Visit(p) ==
    /\ p # path /\ broken = "no"
    /\ UNCHANGED <<server, posts, clicks, lastServed, others>>

VisitEarly ==
    /\ stacks = "fetching"
    /\ \E p \in Paths : Visit(p) /\ path' = p
    /\ UNCHANGED <<stacks, store, view, fetches, latest, lost, late, lastClick>>

\* The controller goes with its requests; a request of componentWillMount will
\* then set the active task from the last props it had.
Orphan(f) ==
    [f EXCEPT !.mine = FALSE,
              !.then = IF f.mine /\ tasks # NoTasks THEN path.task ELSE f.then]

Orphaned == {Orphan(f) : f \in fetches}

VisitRoot ==
    /\ stacks = "known" /\ Visit(Root) /\ path' = Target(Root)
    /\ Mount(Target(Root), Orphaned)
    /\ UNCHANGED stacks

\* Mutant: the flag is asked the wrong way round.
OnlyWhileFetching(p) == p.stack # activeStack /\ isFetchingTasks

NewActiveStack(p) == p.stack # activeStack

\* componentWillReceiveProps: leaving logs, the tasks of the new stack are undefined.
VisitStack ==
    /\ stacks = "known"
    /\ \E p \in Paths \ {Root} :
         /\ Visit(p) /\ path' = p /\ p.stack # path.stack
         /\ IF p.stack = Unknown THEN Break("App")
            ELSE IF p.task = NoTask /\ path.task # NoTask THEN Break("TasksController")
            ELSE /\ Activate(p.stack)
                 /\ IF NewActiveStack(p) THEN Fetch(FetchedStack(p), p.task, fetches)
                    ELSE Render(isFetchingTasks, NoTasks, NoItems) /\ UNCHANGED <<fetches, latest, lost, late, lastClick>>
    /\ UNCHANGED stacks

\* Mutant: the active task is kept when its logs are hidden.
KeptTask == activeTask

ClearedTask == NoTask

\* Logs are left, or those of a task that is not the active one are asked for.
ShowsOther(p) == p.task = NoTask \/ p.task # activeTask

\* Within a stack the router only changes the task, whose logs are shown or hidden.
VisitTask ==
    /\ stacks = "known"
    /\ \E p \in Paths :
         /\ Visit(p) /\ path' = p /\ p.stack = path.stack
         /\ IF ShowsOther(p) /\ (tasks = NoTasks \/ p.task = Unknown) THEN Break("TasksController")
            ELSE /\ activeTask' = IF p.task = NoTask THEN ClearedTask ELSE p.task
                 /\ tasks' = IF ShowsOther(p) THEN [tasks EXCEPT !.logs = {p.task} \cap Ids] ELSE tasks
                 /\ Render(isFetchingTasks, tasks', items)
                 /\ UNCHANGED <<activeStack, fetches, latest, lost, late, lastClick>>
    /\ UNCHANGED stacks

-----------------------------------------------------------------------------
(* Answers                                                                  *)

\* Mutant: the flag is not reset.
StaysFetching(f) == isFetchingTasks

StillFetching(f) == isFetchingTasks /\ ~f.mine

\* The tasks go to the stack that is active by now. componentWillReceiveProps then
\* shows the logs of the route's task, if that is not the active task already. (live,
\* labels: what the API said when it answered; the tasks have changed since, as likely
\* as not, so that it may be anything.)
Arrive(f) ==
    /\ broken = "no" /\ fetches' = fetches \ {f}
    /\ \E live \in SUBSET Ids, labels \in [Ids -> [Controls -> BOOLEAN]] :
         LET own == IF path.task \notin {NoTask, activeTask} THEN path.task ELSE f.task
             answer == [by |-> f.n, of |-> f.stack, live |-> live, logs |-> {own} \cap Ids]
         IN /\ tasks' = answer
            /\ IF own = Unknown
               THEN broken' = "TasksController" /\ UNCHANGED <<activeTask, isFetchingTasks, items>>
               ELSE /\ activeTask' = IF f.then # NoTask THEN f.then
                                     ELSE IF path.task # NoTask THEN path.task ELSE activeTask
                    /\ Render(StillFetching(f), answer, labels)
    /\ lastClick' = Never /\ late' = (late \/ f.n # latest)
    /\ UNCHANGED <<path, stacks, activeStack, server, posts, latest, lost, clicks, lastServed, others>>

\* No answer, one with an error status (get.js resolves neither), or a task whose port
\* has no listener yet: portStatuses[...] is undefined. isFetchingTasks stays.
\* (An earlier request that is lost is one whose answer never comes.)
Lose(f) ==
    /\ f.n = latest /\ fetches' = fetches \ {f} /\ lost' = TRUE
    /\ UNCHANGED <<path, stacks, store, view, server, posts, latest, late, clicks, lastClick, lastServed, others>>

-----------------------------------------------------------------------------
(* TaskItem, and the API                                                    *)

Listed == stacks = "known" /\ ~isFetchingTasks /\ broken = "no"

\* Mutant: setState takes effect at once.
SentAtOnce(t, c) == items[t][c]

\* setState is batched: the request is made from the state before the click.
Sent(t, c) == ~items[t][c]

Click(t, c) ==
    /\ Listed /\ clicks + others < MaxChanges
    /\ clicks' = clicks + 1 /\ lastClick' = [lastClick EXCEPT ![t][c] = clicks + 1]
    /\ items' = [items EXCEPT ![t][c] = ~@]
    /\ posts' = posts \cup {[n |-> clicks + 1, stack |-> tasks.of, task |-> t, control |-> c, to |-> Sent(t, c)]}
    /\ UNCHANGED <<path, stacks, store, isFetchingTasks, broken, server, fetches, latest, lost, late, lastServed, others>>

\* The answer is only logged, so that a request that is lost is one never served.
Serve(p) ==
    /\ posts' = posts \ {p}
    /\ server' = [server EXCEPT ![p.stack][p.task][p.control] = p.to]
    /\ lastServed' = [lastServed EXCEPT ![p.stack][p.task][p.control] = p.n]
    /\ UNCHANGED <<path, stacks, store, view, fetches, latest, lost, late, clicks, lastClick, others>>

\* A start comes to nothing: the stack is not started, Start fails, or there is nothing
\* to create and so no waitLoop that would take back `stopped'. (A start of what is
\* started or a stop of what is stopped is refused too: to the page, it was served.)
Refuse(p) ==
    /\ p.control = "run" /\ p.to /\ posts' = posts \ {p}
    /\ UNCHANGED <<path, stacks, store, view, server, fetches, count>>

\* Another client, or the task itself: a waitLoop takes back `stopped', also that of a
\* dev-mode placeholder, and a restart of paasbox ends dev mode.
Other(s, t, c) ==
    /\ clicks + others < MaxChanges /\ others' = others + 1
    /\ server' = [server EXCEPT ![s][t][c] = ~@]
    /\ lastServed' = [lastServed EXCEPT ![s][t][c] = 0]
    /\ UNCHANGED <<path, stacks, store, view, fetches, posts, latest, lost, late, clicks, lastClick>>

-----------------------------------------------------------------------------
Next ==
    \/ StacksArrive \/ VisitEarly \/ VisitRoot \/ VisitStack \/ VisitTask
    \/ \E f \in fetches : Arrive(f) \/ Lose(f)
    \/ \E t \in Ids, c \in Controls : Click(t, c) \/ \E s \in Stacks : Other(s, t, c)
    \/ \E p \in posts : Serve(p) \/ Refuse(p)

Spec == Init /\ [][Next]_vars

-----------------------------------------------------------------------------
(* Properties.                                                              *)

FetchesOK == fetches \subseteq
    [n : 1..MaxFetches, stack : Stacks, task : Ids \cup {NoTask, Unknown}, mine : BOOLEAN,
     then : Ids \cup {NoTask, Unknown}]
PostsOK == posts \subseteq
    [n : 1..MaxChanges, stack : Stacks, task : Ids, control : Controls, to : BOOLEAN]
TasksOK == \/ tasks = NoTasks
           \/ tasks \in [by : 1..MaxFetches, of : Stacks, live : SUBSET Ids, logs : SUBSET Ids]
CountOK ==
    /\ latest \in 0..MaxFetches /\ lost \in BOOLEAN /\ late \in BOOLEAN /\ clicks \in 0..MaxChanges /\ others \in 0..MaxChanges
    /\ lastClick \in [Ids -> [Controls -> 0..MaxChanges]]
    /\ lastServed \in [Stacks -> [Ids -> [Controls -> 0..MaxChanges]]]
TypeOK ==
    /\ server \in [Stacks -> [Ids -> [Controls -> BOOLEAN]]]
    /\ path \in Paths /\ stacks \in {"fetching", "known"}
    /\ activeStack \in Stacks \cup {NoStack} /\ activeTask \in Ids \cup {NoTask, Unknown}
    /\ isFetchingTasks \in BOOLEAN /\ broken \in {"no", "App", "TasksController", "TasksList", "Logs"}
    /\ items = NoItems \/ items \in [Ids -> [Controls -> BOOLEAN]]
    /\ FetchesOK /\ PostsOK /\ TasksOK /\ CountOK

\* TasksList is rendered only when the active stack has its tasks: whatever the order
\* of clicks and answers, mapping an undefined `tasks' there is not what breaks the page.
ListHasTasks == broken # "TasksList"

\* When the answer on display is the one asked for last, the tasks are those of the
\* stack in the address bar. (A late answer to an earlier request shows the tasks of
\* another stack: TasksController.jsx:137 asks nobody whom they belong to.)
ShownAreOfStack == Listed /\ tasks.by = latest => tasks.of = path.stack /\ activeStack = path.stack

\* As long as no late answer came, the logs on display are those of the task in the address bar.
LogsFollowPath == Listed /\ ~late => tasks.logs = {path.task} \cap Ids

\* "Loading tasks..." stays only while an answer to this controller is on its way, or
\* when the answer to its last request is lost.
LoadingIsAwaited == stacks = "known" /\ isFetchingTasks /\ broken = "no" => lost \/ \E f \in fetches : f.mine

\* However wrong a label was - another client came first, the answer was out of date,
\* the task of another stack left its state behind, the API refused a start - once the
\* API has carried out the last click on it and nothing came after, it says what is the
\* case. (A click that is refused leaves the label wrong until the next one.)
ClickHeals ==
    Listed => \A t \in Ids, c \in Controls :
        lastClick[t][c] # 0 /\ lastServed[tasks.of][t][c] = lastClick[t][c]
            => items[t][c] = server[tasks.of][t][c]
=============================================================================
