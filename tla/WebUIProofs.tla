----------------------------- MODULE WebUIProofs -----------------------------
(***************************************************************************)
(* For any stacks, tasks and switches, and any number of fetches and clicks  *)
(* that overtake each other: the page shows what it should, and a click      *)
(* repairs a wrong label.                                                    *)
(***************************************************************************)
EXTENDS WebUI, TLAPS

\* The page is up, and React is not stuck.
Live == stacks = "known" /\ broken = "no"

\* Before the stacks are known nothing is asked, shown or clicked.
Blank ==
    stacks = "fetching" =>
        /\ fetches = {} /\ posts = {} /\ tasks = NoTasks /\ activeTask = NoTask /\ broken = "no"
        /\ latest = 0 /\ lastClick = Never

\* A list that is shown is the list of something.
ListShown ==
    /\ broken # "TasksList"
    /\ Live /\ ~isFetchingTasks => tasks # NoTasks /\ items \in [Ids -> [Controls -> BOOLEAN]]

Where == Live => path.stack \in Stacks /\ activeStack = path.stack

\* Numbers tell fetches apart, and the last one is the mounted controller's own.
Numbered ==
    /\ \A f, g \in fetches : f.n = g.n => f = g
    /\ tasks.by <= latest
    /\ \A f \in fetches : f.n <= latest

Newest ==
    Live => /\ latest > 0
            /\ \A f \in fetches : f.n = latest => f.stack = path.stack /\ f.mine /\ f.then = NoTask
            /\ tasks.by = latest => tasks.of = path.stack

Awaited == Live /\ isFetchingTasks => lost \/ \E f \in fetches : f.n = latest

\* Without late answers the active task is the one in the address bar as soon as there
\* are tasks; until then only the fetch remembers it.
Punctual ==
    Live /\ ~late =>
        IF tasks = NoTasks
        THEN activeTask = NoTask /\ \A f \in fetches : f.n = latest => f.task = path.task
        ELSE /\ activeTask = path.task /\ tasks.logs = {path.task} \cap Ids
             /\ \A f \in fetches : f.n # latest

\* What has become of the last click on each control.
Clicked ==
    Live => \A t \in Ids, c \in Controls :
        /\ lastClick[t][c] # 0 => ~isFetchingTasks /\ tasks # NoTasks
        /\ \A p \in posts : lastClick[t][c] = p.n =>
             p.stack = tasks.of /\ p.task = t /\ p.control = c /\ p.to = items[t][c]
        /\ lastClick[t][c] # 0 /\ lastServed[tasks.of][t][c] = lastClick[t][c]
             => items[t][c] = server[tasks.of][t][c]

\* No click is known before it happens.
Past ==
    /\ \A p \in posts : p.n <= clicks
    /\ \A t \in Ids, c \in Controls : lastClick[t][c] <= clicks
    /\ \A s \in Stacks, t \in Ids, c \in Controls : lastServed[s][t][c] <= clicks

\* The inductive invariant of the web interface.
WInv ==
    /\ TypeOK /\ Blank /\ ListShown /\ Where /\ Numbered /\ Newest /\ Awaited
    /\ Punctual /\ Clicked /\ Past

-----------------------------------------------------------------------------
LEMMA InitWInv == Init => WInv
<1> SUFFICES ASSUME Init PROVE WInv
  OBVIOUS
<1> USE WebBounds DEF Init
<1>1. TypeOK
  <2>1. CountOK
    <3>1. Never \in [Ids -> [Controls -> 0..MaxChanges]]
      BY DEF Never
    <3>2. lastClick \in [Ids -> [Controls -> 0..MaxChanges]]
      BY <3>1
    <3>3. lastServed \in [Stacks -> [Ids -> [Controls -> 0..MaxChanges]]]
      BY <3>1
    <3>4. latest \in 0..MaxFetches /\ clicks \in 0..MaxChanges /\ others \in 0..MaxChanges
      OBVIOUS
    <3>5. lost \in BOOLEAN /\ late \in BOOLEAN
      OBVIOUS
    <3> HIDE DEF Init
    <3> QED
      BY <3>2, <3>3, <3>4, <3>5 DEF CountOK
  <2>2. FetchesOK /\ PostsOK /\ TasksOK
    BY DEF FetchesOK, PostsOK, TasksOK
  <2> QED
    BY <2>1, <2>2 DEF TypeOK
<1>2. tasks.by <= latest
  BY DEF NoTasks
<1>3. Blank /\ ListShown /\ Where /\ Newest /\ Awaited /\ Punctual
  BY DEF Blank, ListShown, Where, Newest, Awaited, Punctual, Live
<1>4. Numbered /\ Clicked /\ Past
  BY <1>2 DEF Numbered, Clicked, Past, Live, Never
<1> QED
  BY <1>1, <1>3, <1>4 DEF WInv

LEMMA ServeWInv == ASSUME WInv, NEW p \in posts, Serve(p) PROVE WInv'
<1> USE DEF Serve, WInv, store, view
<1>0. /\ p \in [n : 1..MaxChanges, stack : Stacks, task : Ids, control : Controls, to : BOOLEAN]
      /\ server \in [Stacks -> [Ids -> [Controls -> BOOLEAN]]]
      /\ lastServed \in [Stacks -> [Ids -> [Controls -> 0..MaxChanges]]]
  BY DEF TypeOK, PostsOK, CountOK
<1>1. TypeOK'
  <2>1. CountOK'
    BY <1>0, WebBounds DEF TypeOK, CountOK
  <2>2. server' \in [Stacks -> [Ids -> [Controls -> BOOLEAN]]]
    BY <1>0
  <2>3. PostsOK'
    BY DEF TypeOK, PostsOK
  <2> QED
    BY <2>1, <2>2, <2>3 DEF TypeOK, FetchesOK, TasksOK
<1>2. (Blank /\ ListShown /\ Where /\ Numbered /\ Newest /\ Awaited /\ Punctual)'
  BY DEF Blank, ListShown, Where, Numbered, Newest, Awaited, Punctual, Live
<1>3. Clicked'
  <2> SUFFICES ASSUME Live, NEW t \in Ids, NEW c \in Controls
               PROVE  /\ lastClick[t][c] # 0 => ~isFetchingTasks /\ tasks # NoTasks
                      /\ \A q \in posts' : lastClick[t][c] = q.n =>
                           q.stack = tasks.of /\ q.task = t /\ q.control = c /\ q.to = items[t][c]
                      /\ lastClick[t][c] # 0 /\ lastServed'[tasks.of][t][c] = lastClick[t][c]
                           => items[t][c] = server'[tasks.of][t][c]
    BY DEF Clicked, Live
  <2>1. /\ lastClick[t][c] # 0 => ~isFetchingTasks /\ tasks # NoTasks
        /\ \A q \in posts : lastClick[t][c] = q.n =>
             q.stack = tasks.of /\ q.task = t /\ q.control = c /\ q.to = items[t][c]
        /\ lastClick[t][c] # 0 /\ lastServed[tasks.of][t][c] = lastClick[t][c]
             => items[t][c] = server[tasks.of][t][c]
    BY DEF Clicked
  <2>2. ASSUME lastClick[t][c] # 0, lastServed'[tasks.of][t][c] = lastClick[t][c]
        PROVE  items[t][c] = server'[tasks.of][t][c]
    <3>1. tasks.of \in Stacks
      BY <2>1, <2>2 DEF TypeOK, TasksOK
    <3>2. CASE p.stack = tasks.of /\ p.task = t /\ p.control = c
      <4>1. lastServed'[tasks.of][t][c] = p.n
        BY <3>1, <3>2, <1>0
      <4>2. server'[tasks.of][t][c] = p.to
        BY <3>1, <3>2, <1>0
      <4>3. p.to = items[t][c]
        BY <4>1, <2>1, <2>2
      <4> QED
        BY <4>2, <4>3
    <3>3. CASE ~(p.stack = tasks.of /\ p.task = t /\ p.control = c)
      <4>1. lastServed'[tasks.of][t][c] = lastServed[tasks.of][t][c]
        BY <3>1, <3>3, <1>0
      <4>2. server'[tasks.of][t][c] = server[tasks.of][t][c]
        BY <3>1, <3>3, <1>0
      <4> QED
        BY <4>1, <4>2, <2>1, <2>2
    <3> QED
      BY <3>2, <3>3
  <2> QED
    BY <2>1, <2>2
<1>4. Past'
  <2>1. \A q \in posts : q.n <= clicks
    BY DEF Past
  <2>2. \A s \in Stacks, t \in Ids, c \in Controls : lastServed'[s][t][c] \in {lastServed[s][t][c], p.n}
    BY <1>0
  <2> QED
    BY <2>1, <2>2 DEF Past
<1> QED
  BY <1>1, <1>2, <1>3, <1>4

LEMMA RefuseWInv == ASSUME WInv, NEW p \in posts, Refuse(p) PROVE WInv'
<1> USE DEF Refuse, WInv, store, view, count
<1>1. TypeOK'
  BY DEF TypeOK, FetchesOK, PostsOK, TasksOK, CountOK
<1>2. (Blank /\ ListShown /\ Where /\ Numbered /\ Newest /\ Awaited /\ Punctual)'
  BY DEF Blank, ListShown, Where, Numbered, Newest, Awaited, Punctual, Live
<1>3. (Clicked /\ Past)'
  BY DEF Clicked, Past, Live
<1> QED
  BY <1>1, <1>2, <1>3

LEMMA OtherWInv == ASSUME WInv, NEW s \in Stacks, NEW t \in Ids, NEW c \in Controls, Other(s, t, c) PROVE WInv'
<1> USE DEF Other, WInv, store, view
<1>0. /\ server \in [Stacks -> [Ids -> [Controls -> BOOLEAN]]]
      /\ lastServed \in [Stacks -> [Ids -> [Controls -> 0..MaxChanges]]]
  BY DEF TypeOK, CountOK
<1>1. TypeOK'
  <2>1. CountOK'
    BY <1>0, WebBounds DEF TypeOK, CountOK
  <2>2. server' \in [Stacks -> [Ids -> [Controls -> BOOLEAN]]]
    BY <1>0
  <2> QED
    BY <2>1, <2>2 DEF TypeOK, FetchesOK, PostsOK, TasksOK
<1>2. (Blank /\ ListShown /\ Where /\ Numbered /\ Newest /\ Awaited /\ Punctual)'
  BY DEF Blank, ListShown, Where, Numbered, Newest, Awaited, Punctual, Live
<1>3. Clicked'
  <2> SUFFICES ASSUME Live, NEW u \in Ids, NEW d \in Controls
               PROVE  /\ lastClick[u][d] # 0 => ~isFetchingTasks /\ tasks # NoTasks
                      /\ \A q \in posts : lastClick[u][d] = q.n =>
                           q.stack = tasks.of /\ q.task = u /\ q.control = d /\ q.to = items[u][d]
                      /\ lastClick[u][d] # 0 /\ lastServed'[tasks.of][u][d] = lastClick[u][d]
                           => items[u][d] = server'[tasks.of][u][d]
    BY DEF Clicked, Live
  <2>1. /\ lastClick[u][d] # 0 => ~isFetchingTasks /\ tasks # NoTasks
        /\ \A q \in posts : lastClick[u][d] = q.n =>
             q.stack = tasks.of /\ q.task = u /\ q.control = d /\ q.to = items[u][d]
        /\ lastClick[u][d] # 0 /\ lastServed[tasks.of][u][d] = lastClick[u][d]
             => items[u][d] = server[tasks.of][u][d]
    BY DEF Clicked
  <2>2. ASSUME lastClick[u][d] # 0, lastServed'[tasks.of][u][d] = lastClick[u][d]
        PROVE  items[u][d] = server'[tasks.of][u][d]
    <3>1. tasks.of \in Stacks
      BY <2>1, <2>2 DEF TypeOK, TasksOK
    <3>2. ~(s = tasks.of /\ t = u /\ c = d)
      BY <3>1, <1>0, <2>2
    <3>3. lastServed'[tasks.of][u][d] = lastServed[tasks.of][u][d]
      BY <3>1, <3>2, <1>0
    <3>4. server'[tasks.of][u][d] = server[tasks.of][u][d]
      BY <3>1, <3>2, <1>0
    <3> QED
      BY <3>3, <3>4, <2>1, <2>2
  <2> QED
    BY <2>1, <2>2
<1>4. Past'
  <2>1. \A r \in Stacks, u \in Ids, d \in Controls : lastServed'[r][u][d] \in {lastServed[r][u][d], 0}
    BY <1>0
  <2>2. clicks \in Nat
    BY WebBounds DEF TypeOK, CountOK
  <2> QED
    BY <2>1, <2>2 DEF Past
<1> QED
  BY <1>1, <1>2, <1>3, <1>4

LEMMA LoseWInv == ASSUME WInv, NEW f \in fetches, Lose(f) PROVE WInv'
<1> USE DEF Lose, WInv, store, view
<1>1. TypeOK'
  BY DEF TypeOK, FetchesOK, PostsOK, TasksOK, CountOK
<1>2. (Blank /\ ListShown /\ Where /\ Numbered /\ Newest /\ Awaited /\ Punctual)'
  BY DEF Blank, ListShown, Where, Numbered, Newest, Awaited, Punctual, Live
<1>3. (Clicked /\ Past)'
  BY DEF Clicked, Past, Live
<1> QED
  BY <1>1, <1>2, <1>3

LEMMA VisitEarlyWInv == ASSUME WInv, VisitEarly PROVE WInv'
<1> USE DEF VisitEarly, Visit, WInv, store, view
<1>1. TypeOK'
  BY DEF TypeOK, FetchesOK, PostsOK, TasksOK, CountOK
<1>2. (Blank /\ ListShown /\ Where /\ Numbered /\ Newest /\ Awaited /\ Punctual)'
  BY DEF Blank, ListShown, Where, Numbered, Newest, Awaited, Punctual, Live
<1>3. (Clicked /\ Past)'
  BY DEF Clicked, Past, Live
<1> QED
  BY <1>1, <1>2, <1>3

LEMMA ClickWInv == ASSUME WInv, NEW t \in Ids, NEW c \in Controls, Click(t, c) PROVE WInv'
<1> USE DEF Click, WInv, store
<1> DEFINE new == [n |-> clicks + 1, stack |-> tasks.of, task |-> t, control |-> c, to |-> Sent(t, c)]
<1>0. /\ items \in [Ids -> [Controls -> BOOLEAN]]
      /\ lastClick \in [Ids -> [Controls -> 0..MaxChanges]]
      /\ lastServed \in [Stacks -> [Ids -> [Controls -> 0..MaxChanges]]]
      /\ clicks \in Nat /\ clicks + 1 \in 1..MaxChanges /\ clicks' = clicks + 1
      /\ tasks # NoTasks /\ tasks.of \in Stacks
  BY WebBounds DEF TypeOK, CountOK, TasksOK, ListShown, Live, Listed
<1>1. TypeOK'
  <2>1. lastClick' \in [Ids -> [Controls -> 0..MaxChanges]]
    BY <1>0
  <2>2. CountOK'
    BY <1>0, <2>1 DEF TypeOK, CountOK
  <2>3. items' \in [Ids -> [Controls -> BOOLEAN]]
    BY <1>0
  <2>4. new \in [n : 1..MaxChanges, stack : Stacks, task : Ids, control : Controls, to : BOOLEAN]
    BY <1>0 DEF Sent
  <2>5. PostsOK'
    BY <2>4 DEF TypeOK, PostsOK
  <2> QED
    BY <2>2, <2>3, <2>5 DEF TypeOK, FetchesOK, TasksOK
<1>2. (Blank /\ ListShown /\ Where /\ Numbered /\ Newest /\ Awaited /\ Punctual)'
  <2>1. items' \in [Ids -> [Controls -> BOOLEAN]]
    BY <1>0
  <2> QED
    BY <2>1 DEF Blank, ListShown, Where, Numbered, Newest, Awaited, Punctual, Live, Listed
<1>3. Clicked'
  <2> SUFFICES ASSUME NEW u \in Ids, NEW d \in Controls
               PROVE  /\ lastClick'[u][d] # 0 => ~isFetchingTasks /\ tasks # NoTasks
                      /\ \A q \in posts' : lastClick'[u][d] = q.n =>
                           q.stack = tasks.of /\ q.task = u /\ q.control = d /\ q.to = items'[u][d]
                      /\ lastClick'[u][d] # 0 /\ lastServed[tasks.of][u][d] = lastClick'[u][d]
                           => items'[u][d] = server[tasks.of][u][d]
    BY DEF Clicked
  <2>1. /\ \A q \in posts : lastClick[u][d] = q.n =>
             q.stack = tasks.of /\ q.task = u /\ q.control = d /\ q.to = items[u][d]
        /\ lastClick[u][d] # 0 /\ lastServed[tasks.of][u][d] = lastClick[u][d]
             => items[u][d] = server[tasks.of][u][d]
    BY DEF Clicked, Live, Listed
  <2>2. /\ \A q \in posts : q.n <= clicks
        /\ lastClick[u][d] <= clicks /\ lastServed[tasks.of][u][d] <= clicks
    BY <1>0 DEF Past
  <2>3. posts' = posts \cup {new} /\ new.n = clicks + 1
    OBVIOUS
  <2>4. CASE u = t /\ d = c
    <3>1. lastClick'[u][d] = clicks + 1
      BY <1>0, <2>4
    <3>2. \A q \in posts : q.n # clicks + 1
      BY <2>2, <1>0 DEF TypeOK, PostsOK
    <3>3. new.stack = tasks.of /\ new.task = u /\ new.control = d
      BY <2>4
    <3>4. new.to = items'[u][d]
      BY <1>0, <2>4 DEF Sent
    <3>5. lastServed[tasks.of][u][d] # clicks + 1
      BY <2>2, <1>0
    <3> QED
      BY <3>1, <3>2, <3>3, <3>4, <3>5, <2>3, <1>0 DEF Listed
  <2>5. CASE ~(u = t /\ d = c)
    <3>1. lastClick'[u][d] = lastClick[u][d] /\ items'[u][d] = items[u][d]
      BY <1>0, <2>5
    <3>2. lastClick[u][d] # new.n
      BY <2>2, <2>3, <1>0
    <3> QED
      BY <3>1, <3>2, <2>1, <2>3, <1>0 DEF Listed
  <2> QED
    BY <2>4, <2>5
<1>4. Past'
  <2>1. \A u \in Ids, d \in Controls : lastClick'[u][d] \in {lastClick[u][d], clicks + 1}
    BY <1>0
  <2>2. \A u \in Ids, d \in Controls : lastClick[u][d] \in Nat
    BY <1>0
  <2>3. \A s \in Stacks, u \in Ids, d \in Controls : lastServed[s][u][d] \in Nat
    BY <1>0
  <2>4. \A q \in posts : q.n \in Nat
    BY DEF TypeOK, PostsOK
  <2>5. \A q \in posts' : q.n <= clicks'
    BY <2>4, <1>0 DEF Past
  <2>6. \A u \in Ids, d \in Controls : lastClick'[u][d] <= clicks'
    BY <2>1, <2>2, <1>0 DEF Past
  <2>7. \A s \in Stacks, u \in Ids, d \in Controls : lastServed'[s][u][d] <= clicks'
    BY <2>3, <1>0 DEF Past
  <2> QED
    BY <2>5, <2>6, <2>7 DEF Past
<1> QED
  BY <1>1, <1>2, <1>3, <1>4

-----------------------------------------------------------------------------
(* Requests for tasks, updates that break off, and what is rendered.        *)

FetchRecord ==
    [n : 1..MaxFetches, stack : Stacks, task : Ids \cup {NoTask, Unknown}, mine : BOOLEAN,
     then : Ids \cup {NoTask, Unknown}]

LEMMA ItemsType ==
    ASSUME TypeOK, NEW labels \in [Ids -> [Controls -> BOOLEAN]]
    PROVE  Items(labels) \in [Ids -> [Controls -> BOOLEAN]]
<1>1. items = NoItems \/ items \in [Ids -> [Controls -> BOOLEAN]]
  BY DEF TypeOK
<1>2. \A t \in Ids : t \in DOMAIN items => items[t] \in [Controls -> BOOLEAN]
  BY <1>1 DEF NoItems
<1> QED
  BY <1>2 DEF Items

LEMMA MountWInv ==
    ASSUME WInv, NEW p \in Paths, p.stack \in Stacks, NEW inFlight \in SUBSET FetchRecord,
           \A f, g \in inFlight : f.n = g.n => f = g,
           \A f \in inFlight : f.n <= latest,
           Mount(p, inFlight), path' = p, stacks' = "known",
           UNCHANGED <<server, posts, clicks, lastServed, others>>
    PROVE  WInv'
<1> USE DEF Mount, Activate, Fetch, FetchedStack, WInv
<1> DEFINE new == [n |-> latest + 1, stack |-> p.stack, task |-> p.task, mine |-> TRUE, then |-> NoTask]
<1>0. /\ latest \in Nat /\ latest + 1 \in 1..MaxFetches /\ latest' = latest + 1
      /\ fetches' = inFlight \cup {new} /\ new.n = latest + 1
      /\ \A f \in inFlight : f.n \in Nat
      /\ tasks' = NoTasks /\ activeTask' = NoTask /\ activeStack' = p.stack
      /\ isFetchingTasks' = TRUE /\ items' = NoItems /\ broken' = "no"
      /\ lost' = FALSE /\ late' = FALSE /\ lastClick' = Never
  BY WebBounds DEF TypeOK, CountOK, FetchRecord, Render
<1> HIDE DEF Mount, Fetch, Activate
<1>1. TypeOK'
  <2>1. lastClick' \in [Ids -> [Controls -> 0..MaxChanges]]
    BY <1>0, WebBounds DEF Never
  <2>2. lost' \in BOOLEAN /\ late' \in BOOLEAN
    BY <1>0
  <2>3. CountOK'
    BY <1>0, <2>1, <2>2 DEF TypeOK, CountOK
  <2>4. p.task \in Ids \cup {NoTask, Unknown}
    BY DEF Paths, Root
  <2>5. new \in FetchRecord
    BY <1>0, <2>4 DEF FetchRecord
  <2>6. FetchesOK'
    BY <1>0, <2>5 DEF FetchesOK, FetchRecord
  <2>7. TasksOK' /\ PostsOK'
    BY <1>0 DEF TypeOK, TasksOK, PostsOK
  <2> QED
    BY <1>0, <2>3, <2>6, <2>7 DEF TypeOK
<1>2. (Blank /\ ListShown /\ Where /\ Awaited)'
  BY <1>0 DEF Blank, ListShown, Where, Awaited, Live
<1>3. Numbered'
  <2>1. tasks'.by = 0
    BY <1>0 DEF NoTasks
  <2>2. \A f \in inFlight : f.n # new.n
    BY <1>0
  <2>3. \A f, g \in fetches' : f.n = g.n => f = g
    BY <1>0, <2>2
  <2>4. \A f \in fetches' : f.n <= latest'
    BY <1>0
  <2> QED
    BY <1>0, <2>1, <2>3, <2>4 DEF Numbered
<1>4. Newest' /\ Punctual'
  <2>1. tasks'.by = 0
    BY <1>0 DEF NoTasks
  <2>2. \A f \in fetches' : f.n = latest' => f = new
    BY <1>0
  <2>3. new.stack = path'.stack /\ new.mine /\ new.then = NoTask /\ new.task = path'.task
    OBVIOUS
  <2> QED
    BY <1>0, <2>1, <2>2, <2>3 DEF Newest, Punctual
<1>5. Clicked'
  <2>1. \A t \in Ids, c \in Controls : lastClick'[t][c] = 0
    BY <1>0 DEF Never
  <2>2. \A q \in posts' : q.n # 0
    BY DEF TypeOK, PostsOK
  <2> QED
    BY <2>1, <2>2 DEF Clicked
<1>6. Past'
  <2>1. \A t \in Ids, c \in Controls : lastClick'[t][c] <= clicks
    BY <1>0 DEF Never, TypeOK, CountOK
  <2> QED
    BY <2>1 DEF Past
<1> QED
  BY <1>1, <1>2, <1>3, <1>4, <1>5, <1>6

LEMMA BreakWInv ==
    ASSUME WInv, NEW component \in {"App", "TasksController"}, Break(component),
           path' \in Paths, stacks' = "known", UNCHANGED <<server, posts, clicks, lastServed, others>>
    PROVE  WInv'
<1> USE DEF Break, WInv, store
<1>1. TypeOK'
  BY DEF TypeOK, FetchesOK, PostsOK, TasksOK, CountOK
<1>2. (Blank /\ ListShown /\ Where /\ Numbered /\ Newest /\ Awaited /\ Punctual)'
  BY DEF Blank, ListShown, Where, Numbered, Newest, Awaited, Punctual, Live
<1>3. (Clicked /\ Past)'
  BY DEF Clicked, Past, Live
<1> QED
  BY <1>1, <1>2, <1>3

LEMMA StacksArriveWInv == ASSUME WInv, StacksArrive PROVE WInv'
<1> USE DEF StacksArrive
<1>1. Target(path) \in Paths
  BY FirstAssumption DEF WInv, TypeOK, Target, Paths
<1>2. CASE path.stack = Unknown
  BY <1>1, <1>2, BreakWInv
<1>3. CASE path.stack # Unknown
  <2>1. Target(path).stack \in Stacks
    BY <1>3, FirstAssumption DEF WInv, TypeOK, Target, Paths
  <2>2. fetches \in SUBSET FetchRecord
    BY DEF WInv, TypeOK, FetchesOK, FetchRecord
  <2>3. /\ \A f, g \in fetches : f.n = g.n => f = g
        /\ \A f \in fetches : f.n <= latest
    BY DEF WInv, Numbered
  <2> QED
    BY <1>1, <1>3, <2>1, <2>2, <2>3, MountWInv
<1> QED
  BY <1>2, <1>3

LEMMA VisitRootWInv == ASSUME WInv, VisitRoot PROVE WInv'
<1> USE DEF VisitRoot, Visit
<1>1. Target(Root) \in Paths /\ Target(Root).stack \in Stacks
  BY FirstAssumption DEF Target, Paths, Root
<1>2. path.task \in Ids \cup {NoTask, Unknown}
  BY DEF WInv, TypeOK, Paths, Root
<1>3. fetches \in SUBSET FetchRecord
  BY DEF WInv, TypeOK, FetchesOK, FetchRecord
<1>4. ASSUME NEW f \in fetches PROVE Orphan(f) \in FetchRecord /\ Orphan(f).n = f.n
  <2>1. f.then \in Ids \cup {NoTask, Unknown} /\ f \in FetchRecord
    BY <1>3 DEF FetchRecord
  <2>2. PICK r \in Ids \cup {NoTask, Unknown} : r = IF f.mine /\ tasks # NoTasks THEN path.task ELSE f.then
    BY <1>2, <2>1
  <2>3. Orphan(f) = [f EXCEPT !.mine = FALSE, !.then = r]
    BY <2>2 DEF Orphan
  <2>4. [f EXCEPT !.mine = FALSE, !.then = r] \in FetchRecord /\ [f EXCEPT !.mine = FALSE, !.then = r].n = f.n
    BY <2>1 DEF FetchRecord
  <2> QED
    BY <2>3, <2>4
<1>5. \A o \in Orphaned : \E f \in fetches : o = Orphan(f)
  BY DEF Orphaned
<1>6. Orphaned \in SUBSET FetchRecord
  BY <1>4, <1>5
<1>7. /\ \A f, g \in fetches : f.n = g.n => f = g
      /\ \A f \in fetches : f.n <= latest
  BY DEF WInv, Numbered
<1>8. /\ \A f, g \in Orphaned : f.n = g.n => f = g
      /\ \A f \in Orphaned : f.n <= latest
  BY <1>4, <1>5, <1>7
<1> QED
  BY <1>1, <1>6, <1>8, MountWInv

LEMMA VisitStackWInv == ASSUME WInv, VisitStack PROVE WInv'
<1>1. PICK p \in Paths \ {Root} :
        /\ Visit(p) /\ path' = p /\ p.stack # path.stack
        /\ IF p.stack = Unknown THEN Break("App")
           ELSE IF p.task = NoTask /\ path.task # NoTask THEN Break("TasksController")
           ELSE /\ Activate(p.stack)
                /\ IF NewActiveStack(p) THEN Fetch(FetchedStack(p), p.task, fetches)
                   ELSE Render(isFetchingTasks, NoTasks, NoItems) /\ UNCHANGED <<fetches, latest, lost, late, lastClick>>
  BY DEF VisitStack
<1>2. stacks = "known" /\ stacks' = "known" /\ broken = "no"
  BY <1>1 DEF VisitStack, Visit
<1>3. NewActiveStack(p)
  BY <1>1, <1>2 DEF NewActiveStack, WInv, Where, Live
<1>4. UNCHANGED <<server, posts, clicks, lastServed, others>>
  BY <1>1 DEF Visit
<1>5. CASE p.stack = Unknown
  BY <1>1, <1>2, <1>4, <1>5, BreakWInv
<1>6. CASE p.stack # Unknown /\ p.task = NoTask /\ path.task # NoTask
  BY <1>1, <1>2, <1>4, <1>6, BreakWInv
<1>7. CASE p.stack # Unknown /\ ~(p.task = NoTask /\ path.task # NoTask)
  <2>1. Mount(p, fetches)
    BY <1>1, <1>3, <1>7 DEF Mount
  <2>2. p.stack \in Stacks
    BY <1>7 DEF Paths
  <2>3. fetches \in SUBSET FetchRecord
    BY DEF WInv, TypeOK, FetchesOK, FetchRecord
  <2>4. /\ \A f, g \in fetches : f.n = g.n => f = g
        /\ \A f \in fetches : f.n <= latest
    BY DEF WInv, Numbered
  <2> QED
    BY <1>1, <1>2, <1>4, <2>1, <2>2, <2>3, <2>4, MountWInv
<1> QED
  BY <1>5, <1>6, <1>7

LEMMA VisitTaskWInv == ASSUME WInv, VisitTask PROVE WInv'
<1>1. PICK p \in Paths :
        /\ Visit(p) /\ path' = p /\ p.stack = path.stack
        /\ IF ShowsOther(p) /\ (tasks = NoTasks \/ p.task = Unknown) THEN Break("TasksController")
           ELSE /\ activeTask' = IF p.task = NoTask THEN ClearedTask ELSE p.task
                /\ tasks' = IF ShowsOther(p) THEN [tasks EXCEPT !.logs = {p.task} \cap Ids] ELSE tasks
                /\ Render(isFetchingTasks, tasks', items)
                /\ UNCHANGED <<activeStack, fetches, latest, lost, late, lastClick>>
  BY DEF VisitTask
<1>2. stacks = "known" /\ stacks' = "known" /\ broken = "no" /\ p # path
  BY <1>1 DEF VisitTask, Visit
<1>3. UNCHANGED <<server, posts, clicks, lastServed, others>>
  BY <1>1 DEF Visit
<1>4. CASE ShowsOther(p) /\ (tasks = NoTasks \/ p.task = Unknown)
  BY <1>1, <1>2, <1>3, <1>4, BreakWInv
<1>5. CASE ~(ShowsOther(p) /\ (tasks = NoTasks \/ p.task = Unknown))
  <2>1. /\ activeTask' = p.task
        /\ tasks' = IF ShowsOther(p) THEN [tasks EXCEPT !.logs = {p.task} \cap Ids] ELSE tasks
        /\ Render(isFetchingTasks, tasks', items)
        /\ UNCHANGED <<activeStack, fetches, latest, lost, late, lastClick>>
    BY <1>1, <1>5 DEF ClearedTask
  <2>2. p.task \in Ids \cup {NoTask, Unknown}
    BY DEF Paths, Root
  <2>3. /\ tasks = NoTasks => tasks' = NoTasks
        /\ tasks # NoTasks => /\ tasks' \in [by : 1..MaxFetches, of : Stacks, live : SUBSET Ids, logs : SUBSET Ids]
                              /\ tasks' # NoTasks /\ tasks'.by = tasks.by /\ tasks'.of = tasks.of
                              /\ tasks'.logs = IF ShowsOther(p) THEN {p.task} \cap Ids ELSE tasks.logs
    <3>1. CASE tasks = NoTasks
      BY <2>1, <1>5, <3>1
    <3>2. CASE tasks # NoTasks
      <4>1. tasks \in [by : 1..MaxFetches, of : Stacks, live : SUBSET Ids, logs : SUBSET Ids]
        BY <3>2 DEF WInv, TypeOK, TasksOK
      <4>2. /\ tasks' \in [by : 1..MaxFetches, of : Stacks, live : SUBSET Ids, logs : SUBSET Ids]
            /\ tasks'.by = tasks.by /\ tasks'.of = tasks.of
            /\ tasks'.logs = IF ShowsOther(p) THEN {p.task} \cap Ids ELSE tasks.logs
        BY <4>1, <2>1
      <4>3. tasks'.by # NoTasks.by
        BY <4>2 DEF NoTasks
      <4> QED
        BY <3>2, <4>2, <4>3
    <3> QED
      BY <3>1, <3>2
  <2>4. isFetchingTasks' = isFetchingTasks
    BY <2>1 DEF Render
  <2>5. ~isFetchingTasks => tasks # NoTasks /\ items \in [Ids -> [Controls -> BOOLEAN]]
    BY <1>2 DEF WInv, ListShown, Live
  <2>6. /\ isFetchingTasks => items' = NoItems
        /\ ~isFetchingTasks => items' = items
    <3>1. items \in [Ids -> [Controls -> BOOLEAN]] => Items(items) = items
      BY DEF Items
    <3> QED
      BY <2>1, <2>3, <2>5, <3>1 DEF Render
  <2>7. broken' \in {"no", "Logs"}
    BY <2>1, <2>3, <2>5 DEF Render
  <2>8. TypeOK'
    <3>1. FetchesOK' /\ PostsOK' /\ CountOK'
      BY <2>1, <1>3 DEF WInv, TypeOK, FetchesOK, PostsOK, CountOK
    <3>2. TasksOK'
      BY <2>3 DEF TasksOK
    <3>3. items' = NoItems \/ items' \in [Ids -> [Controls -> BOOLEAN]]
      BY <2>5, <2>6 DEF WInv, TypeOK
    <3> QED
      BY <1>1, <1>2, <1>3, <2>1, <2>2, <2>4, <2>7, <3>1, <3>2, <3>3 DEF WInv, TypeOK
  <2>9. (Blank /\ ListShown /\ Where)'
    BY <1>1, <1>2, <2>1, <2>3, <2>4, <2>5, <2>6, <2>7 DEF WInv, Blank, ListShown, Where, Live
  <2>10. Numbered'
    BY <2>1, <2>3 DEF WInv, Numbered
  <2>11. Newest'
    <3>1. Live /\ latest > 0 /\ path'.stack = path.stack
      BY <1>1, <1>2 DEF WInv, Newest, Live
    <3>2. \A f \in fetches : f.n = latest => f.stack = path.stack /\ f.mine /\ f.then = NoTask
      BY <3>1 DEF WInv, Newest
    <3>3. tasks.by = latest => tasks.of = path.stack
      BY <3>1 DEF WInv, Newest
    <3>4. tasks'.by = latest => tasks'.of = path.stack
      <4>1. CASE tasks = NoTasks
        BY <2>3, <3>3, <4>1
      <4>2. CASE tasks # NoTasks
        BY <2>3, <3>3, <4>2
      <4> QED
        BY <4>1, <4>2
    <3> QED
      BY <2>1, <3>1, <3>2, <3>4 DEF Newest
  <2>12. Awaited'
    BY <1>2, <2>1, <2>4 DEF WInv, Awaited, Live
  <2>13. Punctual'
    <3> SUFFICES ASSUME ~late
                 PROVE  IF tasks' = NoTasks
                        THEN activeTask' = NoTask /\ \A f \in fetches' : f.n = latest' => f.task = path'.task
                        ELSE /\ activeTask' = path'.task /\ tasks'.logs = {path'.task} \cap Ids
                             /\ \A f \in fetches' : f.n # latest'
      BY <2>1 DEF Punctual
    <3>1. tasks # NoTasks
      BY <1>2, <1>5 DEF WInv, Punctual, Live, ShowsOther
    <3>2. /\ activeTask = path.task /\ tasks.logs = {path.task} \cap Ids
          /\ \A f \in fetches : f.n # latest
      BY <3>1, <1>2 DEF WInv, Punctual, Live
    <3>3. tasks'.logs = {p.task} \cap Ids
      BY <2>3, <3>1, <3>2 DEF ShowsOther
    <3> QED
      BY <1>1, <2>1, <2>3, <3>1, <3>2, <3>3
  <2>14. (Clicked /\ Past)'
    <3>1. Past'
      BY <1>3, <2>1 DEF WInv, Past
    <3> SUFFICES ASSUME NEW t \in Ids, NEW c \in Controls
                 PROVE  /\ lastClick[t][c] # 0 => ~isFetchingTasks /\ tasks' # NoTasks
                        /\ \A q \in posts : lastClick[t][c] = q.n =>
                             q.stack = tasks'.of /\ q.task = t /\ q.control = c /\ q.to = items'[t][c]
                        /\ lastClick[t][c] # 0 /\ lastServed[tasks'.of][t][c] = lastClick[t][c]
                             => items'[t][c] = server[tasks'.of][t][c]
      BY <1>3, <2>1, <2>4, <3>1 DEF Clicked
    <3>2. /\ lastClick[t][c] # 0 => ~isFetchingTasks /\ tasks # NoTasks
          /\ \A q \in posts : lastClick[t][c] = q.n =>
               q.stack = tasks.of /\ q.task = t /\ q.control = c /\ q.to = items[t][c]
          /\ lastClick[t][c] # 0 /\ lastServed[tasks.of][t][c] = lastClick[t][c]
               => items[t][c] = server[tasks.of][t][c]
      BY <1>2 DEF WInv, Clicked, Live
    <3>3. \A q \in posts : q.n # 0
      BY DEF WInv, TypeOK, PostsOK
    <3>4. CASE lastClick[t][c] = 0
      BY <3>3, <3>4
    <3>5. CASE lastClick[t][c] # 0
      <4>1. tasks' # NoTasks /\ tasks'.of = tasks.of /\ items' = items
        BY <2>3, <2>6, <3>2, <3>5
      <4> QED
        BY <4>1, <3>2, <3>5
    <3> QED
      BY <3>4, <3>5
  <2> QED
    BY <2>8, <2>9, <2>10, <2>11, <2>12, <2>13, <2>14 DEF WInv
<1> QED
  BY <1>4, <1>5

LEMMA ArriveWInv == ASSUME WInv, NEW f \in fetches, Arrive(f) PROVE WInv'
<1> DEFINE own == IF path.task \notin {NoTask, activeTask} THEN path.task ELSE f.task
<1>1. PICK live \in SUBSET Ids, labels \in [Ids -> [Controls -> BOOLEAN]] :
        /\ tasks' = [by |-> f.n, of |-> f.stack, live |-> live, logs |-> {own} \cap Ids]
        /\ IF own = Unknown
           THEN broken' = "TasksController" /\ UNCHANGED <<activeTask, isFetchingTasks, items>>
           ELSE /\ activeTask' = IF f.then # NoTask THEN f.then
                                 ELSE IF path.task # NoTask THEN path.task ELSE activeTask
                /\ Render(StillFetching(f), tasks', labels)
  BY DEF Arrive
<1>2. /\ broken = "no" /\ fetches' = fetches \ {f}
      /\ lastClick' = Never /\ late' = (late \/ f.n # latest)
      /\ UNCHANGED <<path, stacks, activeStack, server, posts, latest, lost, clicks, lastServed, others>>
  BY DEF Arrive
<1>3. f \in FetchRecord
  BY DEF WInv, TypeOK, FetchesOK, FetchRecord
<1>4. stacks = "known" /\ Live
  BY <1>2 DEF WInv, TypeOK, Blank, Live
<1>5. path.task \in Ids \cup {NoTask, Unknown}
  BY DEF WInv, TypeOK, Paths, Root
<1> HIDE DEF own
<1>6. /\ tasks' \in [by : 1..MaxFetches, of : Stacks, live : SUBSET Ids, logs : SUBSET Ids]
      /\ tasks'.by = f.n /\ tasks'.of = f.stack /\ tasks'.logs = {own} \cap Ids
  BY <1>1, <1>3 DEF FetchRecord
<1>7. tasks' # NoTasks
  <2>1. tasks'.by # NoTasks.by
    BY <1>6 DEF NoTasks
  <2> QED
    BY <2>1
<1>8. own # Unknown =>
        /\ isFetchingTasks' = (isFetchingTasks /\ ~f.mine)
        /\ items' = IF isFetchingTasks' THEN NoItems ELSE Items(labels)
        /\ broken' \in {"no", "Logs"}
  BY <1>1, <1>7 DEF Render, StillFetching
<1>9. Items(labels) \in [Ids -> [Controls -> BOOLEAN]]
  BY ItemsType DEF WInv
<1>10. TypeOK'
  <2>1. Never \in [Ids -> [Controls -> 0..MaxChanges]]
    BY WebBounds DEF Never
  <2>2. late' \in BOOLEAN
    BY <1>2
  <2>3. CountOK'
    BY <1>2, <2>1, <2>2 DEF WInv, TypeOK, CountOK
  <2>4. FetchesOK' /\ PostsOK' /\ TasksOK'
    BY <1>2, <1>6 DEF WInv, TypeOK, FetchesOK, PostsOK, TasksOK
  <2>5. activeTask' \in Ids \cup {NoTask, Unknown}
    BY <1>1, <1>3, <1>5 DEF WInv, TypeOK, FetchRecord
  <2>6. isFetchingTasks' \in BOOLEAN
    BY <1>1, <1>8 DEF WInv, TypeOK
  <2>7. items' = NoItems \/ items' \in [Ids -> [Controls -> BOOLEAN]]
    BY <1>1, <1>8, <1>9 DEF WInv, TypeOK
  <2>8. broken' \in {"no", "TasksController", "Logs"}
    BY <1>1, <1>8
  <2> QED
    BY <1>2, <2>3, <2>4, <2>5, <2>6, <2>7, <2>8 DEF WInv, TypeOK
<1>11. (Blank /\ ListShown /\ Where)'
  <2>1. Live' => own # Unknown
    BY <1>1 DEF Live
  <2>2. broken' # "TasksList"
    BY <1>1, <1>8
  <2>3. ListShown'
    BY <2>1, <2>2, <1>7, <1>8, <1>9 DEF ListShown
  <2> QED
    BY <2>3, <1>2, <1>4 DEF WInv, Blank, Where, Live
<1>12. Numbered'
  BY <1>2, <1>6 DEF WInv, Numbered
<1>13. Newest'
  BY <1>2, <1>4, <1>6 DEF WInv, Newest
<1>14. Awaited'
  <2> SUFFICES ASSUME Live', isFetchingTasks' PROVE lost \/ \E g \in fetches' : g.n = latest
    BY <1>2 DEF Awaited
  <2>1. isFetchingTasks /\ ~f.mine
    BY <1>1, <1>8 DEF Live
  <2>2. \A g \in fetches : g.n = latest => g.mine
    BY <1>4 DEF WInv, Newest
  <2>3. lost \/ \E g \in fetches : g.n = latest
    BY <1>4, <2>1 DEF WInv, Awaited
  <2> QED
    BY <1>2, <2>1, <2>2, <2>3
<1>15. Punctual'
  <2> SUFFICES ASSUME Live', ~late'
               PROVE  /\ activeTask' = path.task /\ tasks'.logs = {path.task} \cap Ids
                      /\ \A g \in fetches' : g.n # latest
    BY <1>2, <1>7 DEF Punctual
  <2>1. ~late /\ f.n = latest
    BY <1>2
  <2>2. tasks = NoTasks
    BY <1>4, <2>1 DEF WInv, Punctual
  <2>3. activeTask = NoTask /\ f.task = path.task
    BY <1>4, <2>1, <2>2 DEF WInv, Punctual
  <2>4. f.then = NoTask
    BY <1>4, <2>1 DEF WInv, Newest
  <2>5. own = path.task
    BY <2>3 DEF own
  <2>6. activeTask' = path.task
    BY <1>1, <2>3, <2>4 DEF Live
  <2>7. \A g \in fetches' : g.n # latest
    BY <1>2, <2>1 DEF WInv, Numbered
  <2> QED
    BY <1>6, <2>5, <2>6, <2>7
<1>16. Clicked'
  <2>1. \A t \in Ids, c \in Controls : lastClick'[t][c] = 0
    BY <1>2 DEF Never
  <2>2. \A q \in posts' : q.n # 0
    BY <1>2 DEF WInv, TypeOK, PostsOK
  <2> QED
    BY <2>1, <2>2 DEF Clicked
<1>17. Past'
  <2>1. \A t \in Ids, c \in Controls : lastClick'[t][c] <= clicks
    BY <1>2 DEF Never, WInv, TypeOK, CountOK
  <2> QED
    BY <1>2, <2>1 DEF WInv, Past
<1> QED
  BY <1>10, <1>11, <1>12, <1>13, <1>14, <1>15, <1>16, <1>17 DEF WInv

-----------------------------------------------------------------------------
(* The theorems.                                                            *)

LEMMA NextWInv == WInv /\ [Next]_vars => WInv'
<1> SUFFICES ASSUME WInv, [Next]_vars PROVE WInv'
  OBVIOUS
<1>1. CASE StacksArrive
  BY <1>1, StacksArriveWInv
<1>2. CASE VisitEarly
  BY <1>2, VisitEarlyWInv
<1>3. CASE VisitRoot
  BY <1>3, VisitRootWInv
<1>4. CASE VisitStack
  BY <1>4, VisitStackWInv
<1>5. CASE VisitTask
  BY <1>5, VisitTaskWInv
<1>6. ASSUME NEW f \in fetches, Arrive(f) \/ Lose(f) PROVE WInv'
  BY <1>6, ArriveWInv, LoseWInv
<1>7. ASSUME NEW t \in Ids, NEW c \in Controls, Click(t, c) \/ \E s \in Stacks : Other(s, t, c) PROVE WInv'
  BY <1>7, ClickWInv, OtherWInv
<1>8. ASSUME NEW p \in posts, Serve(p) \/ Refuse(p) PROVE WInv'
  BY <1>8, ServeWInv, RefuseWInv
<1>9. CASE UNCHANGED vars
  <2> USE <1>9 DEF vars, store, view, net, count, WInv
  <2>1. TypeOK'
    BY DEF TypeOK, FetchesOK, PostsOK, TasksOK, CountOK
  <2>2. (Blank /\ ListShown /\ Where /\ Numbered /\ Newest /\ Awaited /\ Punctual)'
    BY DEF Blank, ListShown, Where, Numbered, Newest, Awaited, Punctual, Live
  <2>3. (Clicked /\ Past)'
    BY DEF Clicked, Past, Live
  <2> QED
    BY <2>1, <2>2, <2>3
<1> QED
  BY <1>1, <1>2, <1>3, <1>4, <1>5, <1>6, <1>7, <1>8, <1>9 DEF Next

\* Whatever is clicked, answered and lost, WInv holds of the web interface
\* (App.jsx, TasksController.jsx, TaskItem.jsx, store.js).
THEOREM WebInductive == Spec => []WInv
<1>1. Init => WInv
  BY InitWInv
<1>2. WInv /\ [Next]_vars => WInv'
  BY NextWInv
<1> QED
  BY <1>1, <1>2, PTL DEF Spec

\* Routes, the store, requests and labels keep their types (store.js, TaskItem.jsx).
THEOREM WebTypeCorrect == Spec => []TypeOK
<1>1. WInv => TypeOK
  BY DEF WInv
<1> QED
  BY <1>1, WebInductive, PTL

\* An active stack without tasks is never rendered (TasksController.render, TasksList).
THEOREM WebListHasTasks == Spec => []ListHasTasks
<1>1. WInv => ListHasTasks
  BY DEF WInv, ListShown, ListHasTasks
<1> QED
  BY <1>1, WebInductive, PTL

\* With the last answer on display, the tasks are those of the stack in the address bar
\* (TasksController.fetchTasks, App.getActiveStack).
THEOREM WebShownAreOfStack == Spec => []ShownAreOfStack
<1>1. WInv => ShownAreOfStack
  BY DEF WInv, Where, Newest, ShownAreOfStack, Listed, Live
<1> QED
  BY <1>1, WebInductive, PTL

\* Without late answers the logs are those of the task in the address bar
\* (TasksController.componentWillReceiveProps).
THEOREM WebLogsFollowPath == Spec => []LogsFollowPath
<1>1. WInv => LogsFollowPath
  BY DEF WInv, ListShown, Punctual, LogsFollowPath, Listed, Live
<1> QED
  BY <1>1, WebInductive, PTL

\* Loading means that an answer is on its way, or lost (TasksController.fetchTasks).
THEOREM WebLoadingIsAwaited == Spec => []LoadingIsAwaited
<1>1. WInv => LoadingIsAwaited
  BY DEF WInv, Awaited, Newest, LoadingIsAwaited, Live
<1> QED
  BY <1>1, WebInductive, PTL

\* A click repairs a wrong label (TaskItem.toggleRun, TaskItem.toggleDevMode).
THEOREM WebClickHeals == Spec => []ClickHeals
<1>1. WInv => ClickHeals
  BY DEF WInv, Clicked, ClickHeals, Listed, Live
<1> QED
  BY <1>1, WebInductive, PTL
=============================================================================
