--------------------------- MODULE FileTransferProofs ---------------------------
(* What FileTransfer.tla says of a file on its way, for files of any size, any   *)
(* window of requests, any number of jobs, orders, other files and failures, and *)
(* what SftpPanel.tla says of the panel it lands in, for any number of uploads,  *)
(* directories and acts.                                                         *)
EXTENDS Transfers, TransferQueueProofs

Fields == {"job", "kind", "name", "action", "state", "attempted", "stage", "resume",
           "next", "flight", "err", "pause", "cancel", "landing"}

(* The tasks are a sequence of records, the files of a side bear names.          *)
CopiesFormed ==
    /\ \E S : copies \in Seq(S)
    /\ \A t \in DOMAIN copies :
          DOMAIN copies[t] = Fields /\ copies[t].kind \in Directions
FilesFormed(files) == files = [d \in Directions |-> files[d]]

(* An upload that replaces a file was told to.                                   *)
OverwriteDecided ==
    \A t \in DOMAIN copies :
        copies[t].kind = "upload" /\ copies[t].stage = "replace" =>
            EffectiveAction(copies[t]) = "overwrite"

FormInv ==
    /\ CopiesFormed /\ FilesFormed(final) /\ FilesFormed(part)
    /\ OverwriteDecided

-------------------------------------------------------------------------------
(* What is asked of a careful user leaves one request at most on its way to a    *)
(* task: in the modal, with its probe, or as a plan.                             *)
NoTaskOf(j) == \A t \in DOMAIN copies : copies[t].job # j

ModalAsks ==
    request # 0 =>
        /\ wants[request] = "asked" /\ NoTaskOf(request) /\ plans = <<>>
        /\ ~aborted /\ probes \subseteq {request}
        /\ result => probes = {}

PlansOne ==
    plans # <<>> => request = 0 /\ probes = {} /\
        \E j \in Jobs, action \in {"skip", "rename"} :
            /\ plans = <<[job |-> j, action |-> action]>>
            /\ wants[j] = "asked" /\ NoTaskOf(j)

RequestInv ==
    /\ request \in Jobs \cup {0} /\ probes \subseteq Jobs
    /\ wants \in [Jobs -> {"no", "asked", "withdrawn"}]
    /\ aborted \in BOOLEAN
    /\ ModalAsks /\ PlansOne
    /\ request = 0 /\ probes # {} => aborted
    /\ OnlyWantedUploads /\ \A t \in DOMAIN copies : copies[t].job \in Jobs

-------------------------------------------------------------------------------
(* A task that is left alone does nothing, and all but the last are.             *)
Dormant(c) == c.stage = "idle" /\ c.state \notin {"queued", "running"}

Runs(c) ==
    /\ c.stage = "idle" => c.state # "running"
    /\ c.stage # "window" => c.flight = {}
    /\ c.err \in {"none", "error", "aborted"}

LastIsAwake ==
    \A t \in DOMAIN copies :
        Runs(copies[t]) /\ (t # Len(copies) => Dormant(copies[t]))

QuietWhileAsked ==
    ~NothingAsked =>
        /\ \A d \in Directions : DOMAIN part[d] = {}
        /\ \A t \in DOMAIN copies : Dormant(copies[t])

(* The only .part file is that of the last task.                                 *)
LastOwns ==
    \A d \in Directions : \A n \in DOMAIN part[d] :
        /\ copies # <<>>
        /\ d = copies[Len(copies)].kind /\ n = copies[Len(copies)].name

(* What the .part file p of task c holds: blocks of its source, and gaps only    *)
(* where a request is under way; and a request under way has nothing before it   *)
(* but what is written or under way.  So the size of the file says how far a     *)
(* copy has come as soon as no request is under way.                             *)
Sound(c, p) ==
    /\ p \in Seq(Nat) /\ Len(p) <= Blocks
    /\ \A i \in 1 .. Len(p) : p[i] = c.job \/ i \in c.flight
    /\ c.stage = "window" =>
          /\ c.next \in 1 .. Blocks + 1 /\ c.flight \subseteq 1 .. c.next - 1
          /\ Cardinality(c.flight) <= Window
          /\ \A b \in c.flight : \A i \in 1 .. b - 1 : i \in c.flight \/ i <= Len(p)
          /\ c.err = "none" => \A i \in 1 .. c.next - 1 : i \in c.flight \/ i <= Len(p)
    /\ c.stage \in {"stat", "replace", "rename"} => Len(p) = Blocks

LastIsSound == copies # <<>> => Sound(copies[Len(copies)], PartOf(copies[Len(copies)]))

CarefulInv ==
    /\ FormInv /\ RequestInv
    /\ LastIsAwake /\ QuietWhileAsked /\ LastOwns /\ LastIsSound /\ LandedWhole

-------------------------------------------------------------------------------
(* Operators.                                                                    *)
LEMMA Bounds == /\ Blocks \in Nat \ {0} /\ Window \in Nat \ {0}
                /\ MaxJobs \in Nat \ {0} /\ Jobs = 1 .. MaxJobs /\ 0 \notin Jobs
BY TransferAssumption DEF TransferAssumption, Jobs

LEMMA LesserOfTwo ==
    ASSUME NEW a \in Int, NEW b \in Int
    PROVE  Min({a, b}) = (IF a <= b THEN a ELSE b)
<1> DEFINE m == IF a <= b THEN a ELSE b
<1>1. m \in {a, b} /\ \A y \in {a, b} : m <= y
  OBVIOUS
<1>2. \A x \in {a, b} : (\A y \in {a, b} : x <= y) => x = m
  OBVIOUS
<1>3. /\ Min({a, b}) \in {a, b}
      /\ \A y \in {a, b} : Min({a, b}) <= y
  BY <1>1 DEF Min
<1> QED  BY <1>2, <1>3

LEMMA GreaterOfTwo ==
    ASSUME NEW a \in Int, NEW b \in Int
    PROVE  Max({a, b}) = (IF a >= b THEN a ELSE b)
<1> DEFINE m == IF a >= b THEN a ELSE b
<1>1. m \in {a, b} /\ \A y \in {a, b} : m >= y
  OBVIOUS
<1>2. \A x \in {a, b} : (\A y \in {a, b} : x >= y) => x = m
  OBVIOUS
<1>3. /\ Max({a, b}) \in {a, b}
      /\ \A y \in {a, b} : Max({a, b}) >= y
  BY <1>1 DEF Max
<1> QED  BY <1>2, <1>3

(* One file more, or another content.                                            *)
LEMMA WithFile ==
    ASSUME NEW files, FilesFormed(files), NEW d \in Directions, NEW n, NEW content
    PROVE  /\ FilesFormed(With(files, d, n, content))
           /\ DOMAIN With(files, d, n, content)[d] = DOMAIN files[d] \cup {n}
           /\ With(files, d, n, content)[d][n] = content
           /\ \A m \in DOMAIN files[d] : m # n =>
                  With(files, d, n, content)[d][m] = files[d][m]
           /\ \A e \in Directions \ {d} : With(files, d, n, content)[e] = files[e]
BY DEF With, FilesFormed

(* One file fewer.                                                               *)
LEMMA WithoutFile ==
    ASSUME NEW files, FilesFormed(files), NEW d \in Directions, NEW n
    PROVE  /\ FilesFormed(Without(files, d, n))
           /\ DOMAIN Without(files, d, n)[d] = DOMAIN files[d] \ {n}
           /\ \A m \in DOMAIN files[d] \ {n} : Without(files, d, n)[d][m] = files[d][m]
           /\ \A e \in Directions \ {d} : Without(files, d, n)[e] = files[e]
BY DEF Without, FilesFormed

(* A task more, at the end.                                                      *)
LEMMA Appended ==
    ASSUME CopiesFormed, NEW c, copies' = Append(copies, c)
    PROVE  /\ \E S : copies' \in Seq(S)
           /\ Len(copies) \in Nat /\ DOMAIN copies = 1 .. Len(copies)
           /\ Len(copies') = Len(copies) + 1 /\ DOMAIN copies' = 1 .. Len(copies) + 1
           /\ copies'[Len(copies) + 1] = c
           /\ \A t \in DOMAIN copies : copies'[t] = copies[t]
<1> PICK S : copies \in Seq(S)
  BY DEF CopiesFormed
<1>1. copies \in Seq(S \cup {c}) /\ c \in S \cup {c}
  OBVIOUS
<1>2. copies' \in Seq(S \cup {c})
  BY <1>1
<1>3. \E T : copies' \in Seq(T)
  BY <1>2
<1> QED  BY <1>1, <1>3

(* Another state of one task.                                                    *)
LEMMA Replacing ==
    ASSUME CopiesFormed, NEW t \in DOMAIN copies, NEW c, copies' = [copies EXCEPT ![t] = c]
    PROVE  /\ \E S : copies' \in Seq(S)
           /\ Len(copies) \in Nat /\ DOMAIN copies = 1 .. Len(copies)
           /\ Len(copies') = Len(copies) /\ DOMAIN copies' = DOMAIN copies
           /\ copies'[t] = c
           /\ \A u \in DOMAIN copies : u # t => copies'[u] = copies[u]
<1> PICK S : copies \in Seq(S)
  BY DEF CopiesFormed
<1>1. copies \in Seq(S \cup {c}) /\ c \in S \cup {c}
  OBVIOUS
<1>2. copies' \in Seq(S \cup {c}) /\ Len(copies') = Len(copies)
  BY <1>1
<1>3. \E T : copies' \in Seq(T)
  BY <1>2
<1> QED  BY <1>1, <1>2, <1>3

(* What every step leaves of a record.                                           *)
LEMMA Forgotten ==
    ASSUME NEW c, DOMAIN c = Fields
    PROVE  /\ DOMAIN Idle(c) = Fields
           /\ Idle(c).job = c.job /\ Idle(c).kind = c.kind /\ Idle(c).name = c.name
           /\ Idle(c).action = c.action /\ Idle(c).state = c.state
           /\ Idle(c).attempted = c.attempted
           /\ Idle(c).stage = "idle" /\ Idle(c).flight = {} /\ Idle(c).err = "none"
BY DEF Idle, Fields

LEMMA NewRecord ==
    ASSUME NEW j, NEW kind, NEW n, NEW action, NEW state
    PROVE  LET c == NewCopy(j, kind, n, action, state)
           IN  /\ DOMAIN c = Fields
               /\ c.job = j /\ c.kind = kind /\ c.name = n /\ c.action = action
               /\ c.state = state /\ c.stage = "idle" /\ c.flight = {} /\ c.err = "none"
BY DEF NewCopy, Fields

(* What a turn of the window does: the next requests, in a row.                  *)
LEMMA TurnIssues ==
    ASSUME NEW c, DOMAIN c = Fields, c.next \in 1 .. Blocks + 1, c.flight \subseteq 1 .. c.next - 1,
           Cardinality(c.flight) <= Window
    PROVE  LET d == Turn(c)
           IN  /\ DOMAIN d = Fields
               /\ d.job = c.job /\ d.kind = c.kind /\ d.name = c.name /\ d.action = c.action
               /\ d.state = c.state /\ d.stage = c.stage
               /\ d.err \in {c.err, "aborted"} /\ d.next \in c.next .. Blocks + 1
               /\ d.flight = c.flight \cup (c.next .. d.next - 1)
               /\ Cardinality(d.flight) <= Window
<1>1. IsFiniteSet(c.flight) /\ Cardinality(c.flight) \in Nat
  <2>1. 1 \in Int /\ c.next - 1 \in Int
    BY Bounds
  <2>2. IsFiniteSet(1 .. c.next - 1)
    BY ONLY <2>1, FS_Interval
  <2> QED  BY <2>2, FS_Subset, FS_CardinalityType
<1>2. CASE c.pause \/ c.cancel
  <2>1. Turn(c) = [c EXCEPT !.err = "aborted"]
    BY <1>2 DEF Turn
  <2>2. c.next .. c.next - 1 = {}
    BY Bounds
  <2> QED  BY <2>1, <2>2, Bounds DEF Fields
<1>3. CASE ~(c.pause \/ c.cancel)
  <2> DEFINE n == Min({Window - Cardinality(c.flight), Blocks + 1 - c.next})
             new == c.next .. c.next + n - 1
  <2>1. n \in Nat /\ n <= Window - Cardinality(c.flight) /\ n <= Blocks + 1 - c.next
    BY <1>1, Bounds, LesserOfTwo
  <2>2. Turn(c) = [c EXCEPT !.flight = c.flight \cup new, !.next = c.next + n]
    BY <1>3 DEF Turn
  <2> HIDE DEF n
  <2>3. c.next \in Int /\ c.next + n - 1 \in Int /\ Window \in Nat
    BY <2>1, Bounds
  <2>4. IsFiniteSet(new) /\ Cardinality(new) = n
    <3>1. IsFiniteSet(new)
      BY <2>3, FS_Interval
    <3>2. Cardinality(new) = IF c.next > c.next + n - 1 THEN 0
                             ELSE (c.next + n - 1) - c.next + 1
      BY <2>3, FS_Interval
    <3> QED  BY <2>1, <2>3, <3>1, <3>2
  <2>5. c.flight \cap new = {}
    BY <2>1, Bounds
  <2>6. Cardinality(c.flight \cup new) = Cardinality(c.flight) + n
    <3>1. Cardinality(c.flight \cup new) =
              Cardinality(c.flight) + Cardinality(new) - Cardinality(c.flight \cap new)
      BY <1>1, <2>4, FS_Union
    <3>2. Cardinality(c.flight \cap new) = 0
      BY <2>5, FS_EmptySet
    <3> QED  BY <1>1, <2>1, <2>4, <3>1, <3>2
  <2>7. Cardinality(c.flight \cup new) <= Window
    BY <1>1, <2>1, <2>3, <2>6
  <2>8. c.next + n \in c.next .. Blocks + 1
    BY <2>1, Bounds
  <2> HIDE DEF new
  <2>9. /\ Turn(c).flight = c.flight \cup new /\ Turn(c).next = c.next + n
        /\ DOMAIN Turn(c) = Fields /\ Turn(c).err = c.err
        /\ Turn(c).job = c.job /\ Turn(c).kind = c.kind /\ Turn(c).name = c.name
        /\ Turn(c).action = c.action /\ Turn(c).state = c.state /\ Turn(c).stage = c.stage
    BY <2>2 DEF Fields
  <2>10. c.next .. Turn(c).next - 1 = new
    <3>1. Turn(c).next = c.next + n
      BY <2>9
    <3> QED  BY <2>1, <2>3, <3>1 DEF new
  <2> QED  BY <2>7, <2>8, <2>9, <2>10
<1> QED  BY <1>2, <1>3

(* What a request that ends does to a task: one fewer under way, and a turn of   *)
(* the window unless it is over.                                                 *)
LEMMA RequestsEnd ==
    ASSUME NEW c, DOMAIN c = Fields, c.next \in 1 .. Blocks + 1, c.flight \subseteq 1 .. c.next - 1,
           Cardinality(c.flight) <= Window, NEW S
    PROVE  LET d == AfterRequests(c, S)
           IN  /\ DOMAIN d = Fields
               /\ d.job = c.job /\ d.kind = c.kind /\ d.name = c.name /\ d.action = c.action
               /\ d.state = c.state /\ d.stage = c.stage
               /\ d.err \in {c.err, "aborted"} /\ d.next \in c.next .. Blocks + 1
               /\ d.flight = (c.flight \ S) \cup (c.next .. d.next - 1)
               /\ Cardinality(d.flight) <= Window
               /\ c.err # "none" => d.err = c.err /\ d.next = c.next
<1> DEFINE e == [c EXCEPT !.flight = @ \ S]
<1>1. /\ DOMAIN e = Fields /\ e.next = c.next /\ e.flight = c.flight \ S /\ e.err = c.err
      /\ e.job = c.job /\ e.kind = c.kind /\ e.name = c.name /\ e.action = c.action
      /\ e.state = c.state /\ e.stage = c.stage
  BY DEF Fields
<1>2. Cardinality(c.flight \ S) <= Window
  <2>1. IsFiniteSet(c.flight)
    <3>1. 1 \in Int /\ c.next - 1 \in Int
      BY Bounds
    <3>2. IsFiniteSet(1 .. c.next - 1)
      BY ONLY <3>1, FS_Interval
    <3> QED  BY <3>2, FS_Subset
  <2>2. Cardinality(c.flight \ S) <= Cardinality(c.flight)
        /\ Cardinality(c.flight) \in Nat /\ Cardinality(c.flight \ S) \in Nat
    BY <2>1, FS_Subset, FS_CardinalityType
  <2> QED  BY <2>2, Bounds
<1>3. AfterRequests(c, S) = IF c.err # "none" \/ Eof(c) THEN e ELSE Turn(e)
  BY DEF AfterRequests
<1> HIDE DEF e
<1>4. c.next .. c.next - 1 = {} /\ c.next \in c.next .. Blocks + 1
  BY Bounds
<1>5. CASE c.err # "none" \/ Eof(c)
  BY <1>1, <1>2, <1>3, <1>4, <1>5
<1>6. CASE ~(c.err # "none" \/ Eof(c))
  <2>1. e.flight \subseteq 1 .. e.next - 1
    BY <1>1
  <2>2. AfterRequests(c, S) = Turn(e)
    BY <1>3, <1>6
  <2> QED  BY <1>1, <1>2, <1>6, <2>1, <2>2, TurnIssues, ZenonT(60)
<1> QED  BY <1>5, <1>6

-------------------------------------------------------------------------------
(* The verdict, whatever the user does.                                          *)

(* The record of a task from one step to the next                                *)
Same(c, d) ==
    /\ DOMAIN d = Fields
    /\ d.job = c.job /\ d.kind = c.kind /\ d.action = c.action

OthersKept ==
    \A n \in DOMAIN final["upload"] :
        \/ n \in DOMAIN final'["upload"] /\ final'["upload"][n] = final["upload"][n]
        \/ \E t \in DOMAIN copies :
              /\ copies[t].kind = "upload" /\ copies[t].name = n
              /\ copies[t].stage # "idle"
              /\ \/ copies[t].action = "overwrite"
                 \/ copies[t].action = "none" /\ policy \notin {"skip", "rename"}

(* A step creates a task, moves one, or leaves them alone.                       *)
Creates ==
    \E j, n, action, state : \E kind \in Directions :
        /\ copies' = Append(copies, NewCopy(j, kind, n, action, state))
        /\ UNCHANGED <<final, part>>

Moves(t) ==
    \E c :
        /\ copies' = [copies EXCEPT ![t] = c]
        /\ Same(copies[t], c)
        /\ c.kind = "upload" /\ c.stage = "replace" =>
              copies[t].stage = "replace" \/ EffectiveAction(copies[t]) = "overwrite"

Keeps ==
    /\ policy' = policy
    /\ FilesFormed(final') /\ FilesFormed(part') /\ OthersKept
    /\ \/ copies' = copies
       \/ Creates
       \/ \E t \in DOMAIN copies : Moves(t)

LEMMA ShapeKeeps == FormInv /\ Keeps => FormInv'
<1> SUFFICES ASSUME FormInv, Keeps PROVE FormInv'
  OBVIOUS
<1>1. CopiesFormed /\ FilesFormed(final)' /\ FilesFormed(part)' /\ policy' = policy
  BY DEF FormInv, Keeps
<1>2. CASE copies' = copies
  BY <1>1, <1>2 DEF FormInv, CopiesFormed, OverwriteDecided, EffectiveAction
<1>3. CASE Creates
  <2>1. PICK j, n, action, state : \E kind \in Directions :
            copies' = Append(copies, NewCopy(j, kind, n, action, state))
    BY <1>3 DEF Creates
  <2>2. PICK kind \in Directions : copies' = Append(copies, NewCopy(j, kind, n, action, state))
    BY <2>1
  <2> DEFINE c == NewCopy(j, kind, n, action, state)
  <2>3. DOMAIN c = Fields /\ c.kind = kind /\ c.stage = "idle"
    BY NewRecord
  <2> HIDE DEF c
  <2>4. copies' = Append(copies, c)
    BY <2>2 DEF c
  <2>5. /\ \E S : copies' \in Seq(S)
        /\ Len(copies) \in Nat /\ DOMAIN copies = 1 .. Len(copies)
        /\ DOMAIN copies' = 1 .. Len(copies) + 1
        /\ copies'[Len(copies) + 1] = c
        /\ \A t \in DOMAIN copies : copies'[t] = copies[t]
    BY <1>1, <2>4, Appended
  <2>6. \A t \in DOMAIN copies' : t \in DOMAIN copies \/ t = Len(copies) + 1
    BY <2>5
  <2>7. CopiesFormed'
    BY <1>1, <2>3, <2>5, <2>6 DEF CopiesFormed
  <2>8. OverwriteDecided'
    BY <1>1, <2>3, <2>5, <2>6 DEF FormInv, OverwriteDecided, EffectiveAction
  <2> QED  BY <1>1, <2>7, <2>8 DEF FormInv
<1>4. ASSUME NEW t \in DOMAIN copies, Moves(t) PROVE FormInv'
  <2>1. PICK c : /\ copies' = [copies EXCEPT ![t] = c]
                 /\ Same(copies[t], c)
                 /\ c.kind = "upload" /\ c.stage = "replace" =>
                        copies[t].stage = "replace" \/ EffectiveAction(copies[t]) = "overwrite"
    BY <1>4 DEF Moves
  <2>2. /\ \E S : copies' \in Seq(S)
        /\ DOMAIN copies' = DOMAIN copies /\ copies'[t] = c
        /\ \A u \in DOMAIN copies : u # t => copies'[u] = copies[u]
    BY <1>1, <2>1, Replacing
  <2>3. CopiesFormed'
    BY <1>1, <2>1, <2>2 DEF CopiesFormed, Same
  <2>4. OverwriteDecided'
    BY <1>1, <2>1, <2>2 DEF FormInv, OverwriteDecided, EffectiveAction, Same
  <2> QED  BY <1>1, <2>3, <2>4 DEF FormInv
<1> QED  BY <1>2, <1>3, <1>4 DEF Keeps

(* Nothing happens to the files of others.                                       *)
LEMMA NoFileMoves ==
    ASSUME FormInv, UNCHANGED <<final, part>>
    PROVE  FilesFormed(final') /\ FilesFormed(part') /\ OthersKept
BY DEF FormInv, OthersKept

LEMMA RequestShape ==
    ASSUME FormInv, UserBegins \/ RequestStep
    PROVE  Keeps
<1>1. CASE ~\E n \in Names : OtherWrites(n)
  <2>1. policy' = policy /\ UNCHANGED <<final, part>>
    BY <1>1 DEF UserBegins, RequestStep, StartUpload, StartDownload, CancelUpload,
                ProbeAnswered, Decide, Planned
  <2>2. copies' = copies \/ Creates
    <3>1. \A j, action : Proceed(j, action) => copies' = copies \/ Creates
      BY <2>1 DEF Proceed, Creates, Directions
    <3>2. ASSUME NEW i \in DOMAIN plans, Planned(i) PROVE Creates
      BY <2>1, <3>2 DEF Planned, Creates, Directions
    <3>3. ASSUME NEW j \in Jobs, StartDownload(j) PROVE Creates
      BY <2>1, <3>3 DEF StartDownload, Creates, Directions
    <3>4. ASSUME NEW j \in Jobs, StartUpload(j) \/ ProbeAnswered(j)
          PROVE copies' = copies \/ Creates
      BY <3>1, <3>4 DEF StartUpload, ProbeAnswered
    <3>5. ASSUME NEW action, Decide(action) PROVE copies' = copies \/ Creates
      BY <3>1, <3>5 DEF Decide
    <3>6. CASE CancelUpload
      BY <3>6 DEF CancelUpload
    <3> QED  BY <1>1, <3>2, <3>3, <3>4, <3>5, <3>6 DEF UserBegins, RequestStep
  <2> QED  BY <2>1, <2>2, NoFileMoves DEF Keeps
<1>2. ASSUME NEW n \in Names, OtherWrites(n) PROVE Keeps
  <2>1. /\ UNCHANGED <<policy, copies, part>> /\ n \notin DOMAIN final["upload"]
        /\ final' = With(final, "upload", n, Foreign)
    BY <1>2 DEF OtherWrites, Exists
  <2>2. /\ FilesFormed(final') /\ DOMAIN final'["upload"] = DOMAIN final["upload"] \cup {n}
        /\ \A m \in DOMAIN final["upload"] : m # n => final'["upload"][m] = final["upload"][m]
    BY <2>1, WithFile DEF FormInv, Directions
  <2> QED  BY <2>1, <2>2 DEF Keeps, OthersKept, FormInv
<1> QED  BY <1>1, <1>2

LEMMA OrderShape ==
    ASSUME FormInv, NEW t \in DOMAIN copies, UserOrders(t)
    PROVE  Keeps
<1>1. policy' = policy /\ UNCHANGED <<final, part>>
  BY DEF UserOrders, Pause, CancelCopy, Again, Ordered
<1>2. DOMAIN copies[t] = Fields
  BY DEF FormInv, CopiesFormed
<1>3. Moves(t)
  <2>1. PICK c : /\ copies' = [copies EXCEPT ![t] = c]
                 /\ \/ c = [copies[t] EXCEPT !.pause = TRUE]
                    \/ c = [copies[t] EXCEPT !.state = "paused"]
                    \/ c = [copies[t] EXCEPT !.state = "canceled",
                                             !.cancel = copies[t].stage # "idle"]
                    \/ c = [copies[t] EXCEPT !.state = "queued"]
    BY DEF UserOrders, Pause, CancelCopy, Again, Ordered
  <2>2. Same(copies[t], c) /\ c.stage = copies[t].stage
    BY <1>2, <2>1 DEF Same, Fields
  <2> QED  BY <2>1, <2>2 DEF Moves
<1> QED  BY <1>1, <1>3, NoFileMoves DEF Keeps

(* A turn and the end of requests leave a task its stage and its verdict.        *)
LEMMA TurnSame ==
    ASSUME NEW c, DOMAIN c = Fields
    PROVE  /\ Same(c, Turn(c)) /\ Turn(c).stage = c.stage
           /\ \A S : Same(c, AfterRequests(c, S)) /\ AfterRequests(c, S).stage = c.stage
<1>1. ASSUME NEW d, DOMAIN d = Fields PROVE Same(d, Turn(d)) /\ Turn(d).stage = d.stage
  BY <1>1 DEF Turn, Same, Fields
<1>2. ASSUME NEW S PROVE Same(c, AfterRequests(c, S)) /\ AfterRequests(c, S).stage = c.stage
  <2> DEFINE d == [c EXCEPT !.flight = @ \ S]
  <2>1. Same(c, d) /\ d.stage = c.stage
    BY DEF Same, Fields
  <2>2. AfterRequests(c, S) = d \/ AfterRequests(c, S) = Turn(d)
    BY DEF AfterRequests
  <2> HIDE DEF d
  <2> QED  BY <1>1, <2>1, <2>2 DEF Same
<1> QED  BY <1>1, <1>2

LEMMA EndSame ==
    ASSUME FormInv, NEW t \in DOMAIN copies, NEW state, Ends(t, state)
    PROVE  Moves(t)
<1> DEFINE c == [copies[t] EXCEPT !.state = state]
<1>1. Same(copies[t], c) /\ DOMAIN c = Fields
  BY DEF FormInv, CopiesFormed, Same, Fields
<1>2. copies' = [copies EXCEPT ![t] = Idle(c)]
  BY DEF Ends, Becoming
<1> HIDE DEF c
<1>3. Same(copies[t], Idle(c)) /\ Idle(c).stage = "idle"
  BY <1>1, Forgotten DEF Same
<1> QED  BY <1>2, <1>3 DEF Moves

LEMMA WindowShape ==
    ASSUME FormInv, NEW t \in DOMAIN copies,
           \/ CopyStarts(t) \/ Opened(t)
           \/ \E b \in 1 .. Blocks : Transferred(t, b)
           \/ \E S \in SUBSET copies[t].flight : RequestsFail(t, S)
    PROVE  Keeps
<1> DEFINE k == copies[t]
<1>1. DOMAIN k = Fields /\ k.kind \in Directions /\ FilesFormed(part) /\ FilesFormed(final)
  BY DEF FormInv, CopiesFormed
<1>2. policy' = policy /\ final' = final
  BY DEF CopyStarts, Opened, Transferred, RequestsFail, UnchangedByWorker
<1>3. \/ part' = part
      \/ \E content : part' = With(part, k.kind, k.name, content)
  BY DEF CopyStarts, Opened, Transferred, RequestsFail
<1>4. FilesFormed(part')
  BY <1>1, <1>3, WithFile
<1>5. \E c : /\ copies' = [copies EXCEPT ![t] = c] /\ Same(k, c)
             /\ c.stage \in {"open", "window", k.stage}
  <2>1. CASE CopyStarts(t)
    <3> DEFINE c == [k EXCEPT !.state = "running", !.attempted = TRUE, !.stage = "open",
                              !.resume = k.attempted /\ PartOf(k) # <<>>]
    <3>1. Same(k, c) /\ c.stage = "open"
      BY <1>1 DEF Same, Fields
    <3>2. copies' = [copies EXCEPT ![t] = c]
      BY <2>1 DEF CopyStarts, Becoming
    <3> QED  BY <3>1, <3>2
  <2>2. CASE Opened(t)
    <3>1. PICK n : copies' = [copies EXCEPT ![t] =
                                  Turn([k EXCEPT !.stage = "window", !.next = n])]
      BY <2>2 DEF Opened, Becoming
    <3> DEFINE d == [k EXCEPT !.stage = "window", !.next = n]
    <3>2. Same(k, d) /\ d.stage = "window"
      BY <1>1 DEF Same, Fields
    <3> HIDE DEF d
    <3>3. Same(k, Turn(d)) /\ Turn(d).stage = "window"
      BY <3>2, TurnSame DEF Same
    <3> QED  BY <3>1, <3>3 DEF d
  <2>3. ASSUME NEW b \in 1 .. Blocks, Transferred(t, b)
        PROVE  \E c : /\ copies' = [copies EXCEPT ![t] = c] /\ Same(k, c) /\ c.stage = k.stage
    BY <1>1, <2>3, TurnSame DEF Transferred, Becoming
  <2>4. ASSUME NEW S, RequestsFail(t, S)
        PROVE  \E c : /\ copies' = [copies EXCEPT ![t] = c] /\ Same(k, c) /\ c.stage = k.stage
    <3> DEFINE d == [k EXCEPT !.err = IF @ = "none" THEN "error" ELSE @]
    <3>1. Same(k, d) /\ d.stage = k.stage /\ DOMAIN d = Fields
      BY <1>1 DEF Same, Fields
    <3>2. copies' = [copies EXCEPT ![t] = AfterRequests(d, S)]
      BY <2>4 DEF RequestsFail, Becoming
    <3> HIDE DEF d
    <3>3. Same(d, AfterRequests(d, S)) /\ AfterRequests(d, S).stage = d.stage
      BY <3>1, TurnSame
    <3>4. Same(k, AfterRequests(d, S))
      BY <3>1, <3>3 DEF Same
    <3> QED  BY <3>1, <3>2, <3>3, <3>4
  <2> QED  BY <2>1, <2>2, <2>3, <2>4
<1>6. Moves(t)
  BY <1>5 DEF Moves, Same
<1>7. OthersKept
  BY <1>2 DEF OthersKept
<1> QED  BY <1>1, <1>2, <1>4, <1>6, <1>7 DEF Keeps

(* The verdict is looked at once more before a name is freed.                    *)
LEMMA EndShape ==
    ASSUME FormInv, NEW t \in DOMAIN copies,
           WindowEnds(t) \/ LandingChecked(t) \/ CopyFails(t)
    PROVE  Keeps
<1> DEFINE k == copies[t]
<1>1. DOMAIN k = Fields /\ k.kind \in Directions /\ FilesFormed(part) /\ FilesFormed(final)
  BY DEF FormInv, CopiesFormed
<1>2. policy' = policy /\ final' = final
  BY DEF WindowEnds, LandingChecked, CopyFails, UnchangedByWorker
<1>3. part' = part \/ part' = Without(part, k.kind, k.name)
  BY DEF WindowEnds, LandingChecked, CopyFails
<1>4. FilesFormed(part')
  BY <1>1, <1>3, WithoutFile
<1>5. \/ \E state : Ends(t, state)
      \/ \E stage, landing :
            /\ copies' = [copies EXCEPT ![t] =
                              [k EXCEPT !.stage = stage, !.landing = landing]]
            /\ stage = "replace" => k.kind # "upload"
      \/ \E stage :
            /\ copies' = [copies EXCEPT ![t] = [k EXCEPT !.stage = stage]]
            /\ stage = "replace" => EffectiveAction(k) = "overwrite"
  <2>1. CASE WindowEnds(t)
    <3>1. CASE Ends(t, "error") \/ Ends(t, "canceled") \/ Ends(t, "paused")
      BY <3>1
    <3>2. CASE ~(Ends(t, "error") \/ Ends(t, "canceled") \/ Ends(t, "paused"))
      <4> DEFINE to == IF k.kind = "upload" THEN "stat" ELSE "replace"
      <4>1. copies' = [copies EXCEPT ![t] = [k EXCEPT !.stage = to, !.landing = k.name]]
        BY <2>1, <3>2 DEF WindowEnds, Becoming
      <4>2. to = "replace" => k.kind # "upload"
        OBVIOUS
      <4> QED  BY <4>1, <4>2
    <3> QED  BY <3>1, <3>2
  <2>2. CASE CopyFails(t)
    BY <2>2 DEF CopyFails
  <2>3. CASE LandingChecked(t)
    <3>1. \/ Ends(t, "skipped")
          \/ copies' = [copies EXCEPT ![t] = [k EXCEPT !.stage = "rename"]]
          \/ copies' = [copies EXCEPT ![t] = [k EXCEPT !.stage = "rename",
                                                      !.landing = FreeName(k.name)]]
          \/ /\ copies' = [copies EXCEPT ![t] = [k EXCEPT !.stage = "replace"]]
             /\ EffectiveAction(k) = "overwrite"
      BY <2>3 DEF LandingChecked, Becoming
    <3>2. CASE Ends(t, "skipped")
      BY <3>2
    <3>3. CASE copies' = [copies EXCEPT ![t] = [k EXCEPT !.stage = "rename"]]
      <4>1. \E stage : /\ copies' = [copies EXCEPT ![t] = [k EXCEPT !.stage = stage]]
                       /\ stage # "replace"
        <5> WITNESS "rename"
        <5> QED  BY <3>3
      <4> QED  BY <4>1
    <3>4. CASE copies' = [copies EXCEPT ![t] = [k EXCEPT !.stage = "rename",
                                                      !.landing = FreeName(k.name)]]
      <4>1. \E stage, landing :
                /\ copies' = [copies EXCEPT ![t] =
                                  [k EXCEPT !.stage = stage, !.landing = landing]]
                /\ stage # "replace"
        <5> WITNESS "rename", FreeName(k.name)
        <5> QED  BY <3>4
      <4> QED  BY <4>1
    <3>5. CASE /\ copies' = [copies EXCEPT ![t] = [k EXCEPT !.stage = "replace"]]
               /\ EffectiveAction(k) = "overwrite"
      <4>1. \E stage : /\ copies' = [copies EXCEPT ![t] = [k EXCEPT !.stage = stage]]
                       /\ EffectiveAction(k) = "overwrite"
        <5> WITNESS "replace"
        <5> QED  BY <3>5
      <4> QED  BY <4>1
    <3> QED  BY <3>1, <3>2, <3>3, <3>4, <3>5
  <2> QED  BY <2>1, <2>2, <2>3
<1>6. Moves(t)
  <2>1. ASSUME NEW state, Ends(t, state) PROVE Moves(t)
    BY <2>1, EndSame
  <2>2. ASSUME NEW stage, NEW landing,
               copies' = [copies EXCEPT ![t] = [k EXCEPT !.stage = stage, !.landing = landing]],
               stage = "replace" => k.kind # "upload"
        PROVE  Moves(t)
    <3> DEFINE c == [k EXCEPT !.stage = stage, !.landing = landing]
    <3>1. Same(k, c) /\ c.stage = stage
      BY <1>1 DEF Same, Fields
    <3> HIDE DEF c
    <3> QED  BY <2>2, <3>1 DEF Moves, Same, c
  <2>3. ASSUME NEW stage,
               copies' = [copies EXCEPT ![t] = [k EXCEPT !.stage = stage]],
               stage = "replace" => EffectiveAction(k) = "overwrite"
        PROVE  Moves(t)
    <3> DEFINE c == [k EXCEPT !.stage = stage]
    <3>1. Same(k, c) /\ c.stage = stage
      BY <1>1 DEF Same, Fields
    <3> HIDE DEF c
    <3> QED  BY <2>3, <3>1 DEF Moves, Same, c
  <2> QED  BY <1>5, <2>1, <2>2, <2>3
<1>7. OthersKept
  BY <1>2 DEF OthersKept
<1> QED  BY <1>1, <1>2, <1>4, <1>6, <1>7 DEF Keeps

(* Only here does a file of others go, for an upload that overwrites.            *)
LEMMA ReplaceShape ==
    ASSUME FormInv, NEW t \in DOMAIN copies, Replaced(t)
    PROVE  Keeps
<1> DEFINE k == copies[t]
           c == [k EXCEPT !.stage = "rename"]
<1>1. DOMAIN k = Fields /\ k.kind \in Directions /\ FilesFormed(part) /\ FilesFormed(final)
  BY DEF FormInv, CopiesFormed
<1>2. /\ policy' = policy /\ part' = part /\ k.stage = "replace"
      /\ final' = Without(final, k.kind, k.name)
      /\ copies' = [copies EXCEPT ![t] = c]
  BY DEF Replaced, UnchangedByWorker, Becoming
<1>3. Same(k, c) /\ c.stage = "rename"
  BY <1>1 DEF Same, Fields
<1> HIDE DEF c
<1>4. Moves(t)
  BY <1>2, <1>3 DEF Moves
<1>5. FilesFormed(final')
  BY <1>1, <1>2, WithoutFile
<1>6. OthersKept
  <2>1. CASE k.kind # "upload"
    <3>1. final'["upload"] = final["upload"]
      BY <1>1, <1>2, <2>1, WithoutFile DEF Directions
    <3> QED  BY <3>1 DEF OthersKept
  <2>2. CASE k.kind = "upload"
    <3>1. /\ DOMAIN final'["upload"] = DOMAIN final["upload"] \ {k.name}
          /\ \A m \in DOMAIN final["upload"] \ {k.name} :
                 final'["upload"][m] = final["upload"][m]
      BY <1>1, <1>2, <2>2, WithoutFile DEF Directions
    <3>2. k.action = "overwrite" \/ (k.action = "none" /\ policy \notin {"skip", "rename"})
      BY <1>2, <2>2 DEF FormInv, OverwriteDecided, EffectiveAction
    <3> QED  BY <1>2, <2>2, <3>1, <3>2 DEF OthersKept
  <2> QED  BY <2>1, <2>2
<1> QED  BY <1>1, <1>2, <1>4, <1>5, <1>6 DEF Keeps

(* An upload lands under a name that is free.                                    *)
LEMMA LandShape ==
    ASSUME FormInv, NEW t \in DOMAIN copies, Landed(t)
    PROVE  Keeps
<1> DEFINE k == copies[t]
<1>1. DOMAIN k = Fields /\ k.kind \in Directions /\ FilesFormed(part) /\ FilesFormed(final)
  BY DEF FormInv, CopiesFormed
<1>2. policy' = policy
  BY DEF Landed, UnchangedByWorker
<1>3. CASE Ends(t, "error") /\ UNCHANGED <<final, part>>
  BY <1>2, <1>3, EndSame, NoFileMoves DEF Keeps
<1>4. CASE ~(Ends(t, "error") /\ UNCHANGED <<final, part>>)
  <2> DEFINE c == [k EXCEPT !.name = k.landing,
                            !.state = IF @ = "canceled" THEN @ ELSE "done"]
  <2>1. /\ k.kind = "upload" => k.landing \notin DOMAIN final["upload"]
        /\ final' = With(final, k.kind, k.landing, PartOf(k))
        /\ part' = Without(part, k.kind, k.name)
        /\ copies' = [copies EXCEPT ![t] = Idle(c)]
    BY <1>4 DEF Landed, Exists, Becoming
  <2>2. Same(k, c) /\ DOMAIN c = Fields
    BY <1>1 DEF Same, Fields
  <2> HIDE DEF c
  <2>3. Same(k, Idle(c)) /\ Idle(c).stage = "idle"
    BY <2>2, Forgotten DEF Same
  <2>4. Moves(t)
    BY <2>1, <2>3 DEF Moves
  <2>5. FilesFormed(final') /\ FilesFormed(part')
    BY <1>1, <2>1, WithFile, WithoutFile
  <2>6. OthersKept
    <3>1. CASE k.kind # "upload"
      <4>1. final'["upload"] = final["upload"]
        BY <1>1, <2>1, <3>1, WithFile DEF Directions
      <4> QED  BY <4>1 DEF OthersKept
    <3>2. CASE k.kind = "upload"
      <4>1. /\ DOMAIN final'["upload"] = DOMAIN final["upload"] \cup {k.landing}
            /\ \A m \in DOMAIN final["upload"] : m # k.landing =>
                   final'["upload"][m] = final["upload"][m]
        BY <1>1, <2>1, <3>2, WithFile DEF Directions
      <4> QED  BY <2>1, <3>2, <4>1 DEF OthersKept
    <3> QED  BY <3>1, <3>2
  <2> QED  BY <1>2, <2>4, <2>5, <2>6 DEF Keeps
<1> QED  BY <1>3, <1>4

LEMMA StepShape == FormInv /\ [CopyNext]_copyVars => Keeps
<1> SUFFICES ASSUME FormInv, [CopyNext]_copyVars PROVE Keeps
  OBVIOUS
<1>1. CASE UNCHANGED copyVars
  BY <1>1, NoFileMoves DEF copyVars, Keeps
<1>2. ASSUME NEW t \in DOMAIN copies,
             UserOrders(t) \/ CopyStep(t) \/ \E S \in SUBSET copies[t].flight : RequestsFail(t, S)
      PROVE  Keeps
  <2>1. CASE UserOrders(t)
    BY <2>1, OrderShape
  <2>2. CASE CopyStep(t)
    BY <2>2, WindowShape, EndShape, ReplaceShape, LandShape DEF CopyStep
  <2>3. CASE \E S \in SUBSET copies[t].flight : RequestsFail(t, S)
    BY <2>3, WindowShape
  <2> QED  BY <1>2, <2>1, <2>2, <2>3
<1> QED  BY <1>1, <1>2, RequestShape DEF CopyNext

LEMMA FormInit == CopyInit => FormInv
<1> SUFFICES ASSUME CopyInit PROVE FormInv
  OBVIOUS
<1>1. copies = <<>> /\ FilesFormed(part)
  BY DEF CopyInit, FilesFormed
<1>2. FilesFormed(final)
  <2>1. PICK taken \in {{}, {1}} :
            final = [d \in Directions |-> [n \in IF d = "upload" THEN taken ELSE {} |-> Foreign]]
    BY DEF CopyInit
  <2> QED  BY <2>1 DEF FilesFormed
<1>3. copies \in Seq({}) /\ DOMAIN copies = {}
  BY <1>1
<1>4. CopiesFormed
  BY <1>3 DEF CopiesFormed
<1> QED  BY <1>1, <1>2, <1>3, <1>4 DEF FormInv, OverwriteDecided

(* The strengthened invariant of the verdict: what replaces was told to.         *)
THEOREM FormInvariance == CopySpec => []FormInv
<1>1. FormInv /\ [CopyNext]_copyVars => FormInv'
  BY StepShape, ShapeKeeps
<1> QED  BY <1>1, FormInit, PTL DEF CopySpec

(* Whatever the user asks, orders or takes back, for any number of jobs: a file  *)
(* of the remote directory goes, or changes, only for an upload whose verdict is *)
(* to overwrite.  Between the look at the name (fileExists) and the removal the  *)
(* verdict does not change, and the rename itself replaces nothing.              *)
THEOREM KeptUnlessOverwrittenHolds == CopySpec => KeptUnlessOverwritten
<1>1. FormInv /\ [CopyNext]_copyVars => [OthersKept]_copyVars
  BY StepShape DEF Keeps
<1>2. [OthersKept]_copyVars =>
          [\A n \in DOMAIN final["upload"] :
              \/ n \in DOMAIN final'["upload"] /\ final'["upload"][n] = final["upload"][n]
              \/ \E t \in DOMAIN copies :
                    /\ copies[t].kind = "upload" /\ copies[t].name = n
                    /\ copies[t].stage # "idle"
                    /\ \/ copies[t].action = "overwrite"
                       \/ copies[t].action = "none" /\ policy \notin {"skip", "rename"}]_copyVars
  BY DEF OthersKept
<1> QED  BY <1>1, <1>2, FormInvariance, PTL DEF CopySpec, KeptUnlessOverwritten

-------------------------------------------------------------------------------
(* The request, for a careful user.                                              *)
LEMMA CarefulIsCopy == CarefulCopyNext => CopyNext
<1> SUFFICES ASSUME CarefulCopyNext PROVE CopyNext
  OBVIOUS
<1>1. CASE (Quiet /\ UserBegins) \/ RequestStep
  BY <1>1 DEF CopyNext
<1>2. ASSUME NEW t \in DOMAIN copies, NEW m \in 1 .. Blocks, FailInOrder(t, m) PROVE CopyNext
  <2> DEFINE S == {b \in copies[t].flight : b >= m}
  <2>1. S \in SUBSET copies[t].flight /\ RequestsFail(t, S)
    BY <1>2 DEF FailInOrder
  <2> HIDE DEF S
  <2> QED  BY <2>1 DEF CopyNext
<1>3. ASSUME NEW t \in DOMAIN copies, Again(t) \/ Pause(t) \/ CancelCopy(t) \/ CopyStep(t)
      PROVE  CopyNext
  BY <1>3 DEF CopyNext, UserOrders
<1> QED  BY <1>1, <1>2, <1>3 DEF CarefulCopyNext

(* What is done with a task that exists.                                         *)
GoesOn(t) ==
    \/ Pause(t) \/ CancelCopy(t)
    \/ CopyStep(t)
    \/ \E m \in 1 .. Blocks : FailInOrder(t, m)

TaskStep(t) == Again(t) \/ GoesOn(t)

LEMMA TaskStepFrame ==
    ASSUME NEW t \in DOMAIN copies, TaskStep(t)
    PROVE  /\ UNCHANGED <<policy, modalVars, plans, wants>>
           /\ \E c : copies' = [copies EXCEPT ![t] = c]
<1>1. CASE Again(t) \/ Pause(t) \/ CancelCopy(t)
  BY <1>1 DEF Again, Pause, CancelCopy, Ordered
<1>2. CASE CopyStarts(t) \/ Opened(t) \/ Replaced(t) \/ CopyFails(t)
  BY <1>2 DEF CopyStarts, Opened, Replaced, CopyFails, Ends, Becoming, UnchangedByWorker
<1>3. CASE WindowEnds(t) \/ LandingChecked(t)
  BY <1>3 DEF WindowEnds, LandingChecked, Ends, Becoming, UnchangedByWorker
<1>4. CASE Landed(t)
  BY <1>4 DEF Landed, Ends, Becoming, UnchangedByWorker
<1>5. CASE \E b \in 1 .. Blocks : Transferred(t, b)
  BY <1>5 DEF Transferred, Becoming, UnchangedByWorker
<1>6. ASSUME NEW m \in 1 .. Blocks, FailInOrder(t, m)
      PROVE  /\ UNCHANGED <<policy, modalVars, plans, wants>>
             /\ \E c : copies' = [copies EXCEPT ![t] = c]
  <2>1. PICK S : RequestsFail(t, S)
    BY <1>6 DEF FailInOrder
  <2> QED  BY <2>1 DEF RequestsFail, Becoming, UnchangedByWorker
<1> QED  BY <1>1, <1>2, <1>3, <1>4, <1>5, <1>6 DEF TaskStep, GoesOn, CopyStep

LEMMA TaskStepIsCopy == ASSUME NEW t \in DOMAIN copies, TaskStep(t) PROVE CopyNext
<1>1. CASE \E m \in 1 .. Blocks : FailInOrder(t, m)
  <2>1. PICK m \in 1 .. Blocks : FailInOrder(t, m)
    BY <1>1
  <2> QED  BY <2>1, CarefulIsCopy DEF CarefulCopyNext
<1>2. CASE Again(t) \/ Pause(t) \/ CancelCopy(t) \/ CopyStep(t)
  BY <1>2 DEF CopyNext, UserOrders
<1> QED  BY <1>1, <1>2 DEF TaskStep, GoesOn

(* Every task keeps its job and its direction.                                   *)
LEMMA TaskStepKeeps ==
    ASSUME FormInv, NEW t \in DOMAIN copies, TaskStep(t)
    PROVE  /\ DOMAIN copies' = DOMAIN copies
           /\ \A u \in DOMAIN copies : copies'[u].job = copies[u].job
<1>1. PICK c : copies' = [copies EXCEPT ![t] = c]
  BY TaskStepFrame
<1>2. /\ Len(copies) \in Nat /\ DOMAIN copies = 1 .. Len(copies)
      /\ DOMAIN copies' = DOMAIN copies
      /\ \A u \in DOMAIN copies : u # t => copies'[u] = copies[u]
  BY <1>1, Replacing DEF FormInv
<1>3. Keeps
  BY TaskStepIsCopy, StepShape
<1>4. ASSUME Creates PROVE FALSE
  <2>1. PICK d : copies' = Append(copies, d)
    BY <1>4 DEF Creates
  <2>2. DOMAIN copies' = 1 .. Len(copies) + 1
    BY <2>1, Appended DEF FormInv
  <2>3. Len(copies) + 1 \in DOMAIN copies' /\ Len(copies) + 1 \notin DOMAIN copies
    BY <1>2, <2>2
  <2> QED  BY <1>2, <2>3
<1>5. ASSUME NEW u \in DOMAIN copies, Moves(u)
      PROVE  \A v \in DOMAIN copies : copies'[v].job = copies[v].job
  <2>1. PICK d : copies' = [copies EXCEPT ![u] = d] /\ d.job = copies[u].job
    BY <1>5 DEF Moves, Same
  <2> QED  BY <2>1
<1> QED  BY <1>2, <1>3, <1>4, <1>5 DEF Keeps

(* A task of a job that has none is one more that is wanted.                     *)
LEMMA OneMore ==
    ASSUME CopiesFormed, OnlyWantedUploads, \A t \in DOMAIN copies : copies[t].job \in Jobs,
           NEW j \in Jobs, NoTaskOf(j), wants'[j] = "asked",
           \A i \in Jobs : i # j => wants'[i] = wants[i],
           NEW c, c.job = j, copies' = Append(copies, c)
    PROVE  OnlyWantedUploads' /\ \A t \in DOMAIN copies' : copies'[t].job \in Jobs
<1>1. /\ Len(copies) \in Nat /\ DOMAIN copies = 1 .. Len(copies)
      /\ DOMAIN copies' = 1 .. Len(copies) + 1
      /\ copies'[Len(copies) + 1] = c
      /\ \A t \in DOMAIN copies : copies'[t] = copies[t]
  BY Appended
<1>2. \A t \in DOMAIN copies' : t \in DOMAIN copies \/ t = Len(copies) + 1
  BY <1>1
<1>3. \A t \in DOMAIN copies :
          copies'[t].job \in Jobs /\ copies'[t].job # j /\ wants'[copies'[t].job] = "asked"
  BY <1>1 DEF OnlyWantedUploads, NoTaskOf
<1>4. copies'[Len(copies) + 1].job = j
  BY <1>1
<1>5. ASSUME NEW t \in DOMAIN copies', NEW u \in DOMAIN copies', copies'[u].job = copies'[t].job
      PROVE  u = t
  <2>1. CASE t \in DOMAIN copies /\ u \in DOMAIN copies
    BY <1>1, <1>5, <2>1 DEF OnlyWantedUploads
  <2>2. CASE t \notin DOMAIN copies \/ u \notin DOMAIN copies
    BY <1>2, <1>3, <1>4, <1>5, <2>2
  <2> QED  BY <2>1, <2>2
<1> QED  BY <1>2, <1>3, <1>4, <1>5 DEF OnlyWantedUploads

LEMMA SameTasks ==
    ASSUME DOMAIN copies' = DOMAIN copies,
           \A u \in DOMAIN copies : copies'[u].job = copies[u].job
    PROVE  /\ \A j : NoTaskOf(j) => NoTaskOf(j)'
           /\ (\A t \in DOMAIN copies : copies[t].job \in Jobs) =>
                  \A t \in DOMAIN copies' : copies'[t].job \in Jobs
           /\ OnlyWantedUploads
                  /\ (\A t \in DOMAIN copies : wants'[copies[t].job] = wants[copies[t].job]) =>
                  OnlyWantedUploads'
BY DEF NoTaskOf, OnlyWantedUploads

(* A request that goes on becomes a plan, or a task.                             *)
LEMMA ProceedAsks ==
    ASSUME FormInv, RequestInv, plans = <<>>, NEW j \in Jobs, NoTaskOf(j), wants'[j] = "asked",
           \A i \in Jobs : i # j => wants'[i] = wants[i],
           NEW action, Proceed(j, action),
           request' = 0, probes' = {}
    PROVE  /\ PlansOne' /\ OnlyWantedUploads'
           /\ \A t \in DOMAIN copies' : copies'[t].job \in Jobs
<1>1. CASE action \in {"skip", "rename"}
  <2>1. plans' = <<[job |-> j, action |-> action]>> /\ copies' = copies
    BY <1>1 DEF Proceed
  <2>2. NoTaskOf(j)'
    BY <2>1 DEF NoTaskOf
  <2>3. PlansOne'
    BY <1>1, <2>1, <2>2 DEF PlansOne
  <2>4. \A t \in DOMAIN copies : wants'[copies[t].job] = wants[copies[t].job]
    BY DEF RequestInv, NoTaskOf
  <2> QED  BY <2>1, <2>3, <2>4, SameTasks DEF RequestInv
<1>2. CASE action \notin {"skip", "rename"}
  <2> DEFINE c == NewCopy(j, "upload", 1, action, "queued")
  <2>1. plans' = plans /\ copies' = Append(copies, c)
    BY <1>2 DEF Proceed
  <2>2. c.job = j
    BY NewRecord
  <2> HIDE DEF c
  <2>3. OnlyWantedUploads' /\ \A t \in DOMAIN copies' : copies'[t].job \in Jobs
    BY <2>1, <2>2, OneMore DEF FormInv, RequestInv
  <2>4. PlansOne'
    BY <2>1 DEF PlansOne
  <2> QED  BY <2>3, <2>4
<1> QED  BY <1>1, <1>2

LEMMA BeginsRequest == FormInv /\ RequestInv /\ Quiet /\ UserBegins => RequestInv'
<1> SUFFICES ASSUME FormInv, RequestInv, Quiet, NEW j \in Jobs, StartUpload(j) \/ StartDownload(j)
             PROVE  RequestInv'
  BY DEF UserBegins
<1>1. request = 0 /\ probes = {} /\ plans = <<>>
  BY DEF Quiet, NothingAsked
<1>2. wants[j] = "no" /\ wants' = [wants EXCEPT ![j] = "asked"]
  BY DEF StartUpload, StartDownload, Asks
<1>3. /\ wants' \in [Jobs -> {"no", "asked", "withdrawn"}] /\ wants'[j] = "asked"
      /\ \A i \in Jobs : i # j => wants'[i] = wants[i]
  BY <1>2 DEF RequestInv
<1>4. NoTaskOf(j)
  BY <1>2 DEF RequestInv, OnlyWantedUploads, NoTaskOf
<1>5. CASE StartDownload(j)
  <2> DEFINE c == NewCopy(j, "download", 1, "none", "queued")
  <2>1. copies' = Append(copies, c) /\ UNCHANGED <<request, aborted, probes, plans>>
    BY <1>5 DEF StartDownload, modalVars
  <2>2. c.job = j
    BY NewRecord
  <2> HIDE DEF c
  <2>3. OnlyWantedUploads' /\ \A t \in DOMAIN copies' : copies'[t].job \in Jobs
    BY <1>3, <1>4, <2>1, <2>2, OneMore DEF FormInv, RequestInv
  <2> QED  BY <1>1, <1>3, <2>1, <2>3 DEF RequestInv, ModalAsks, PlansOne
<1>6. CASE StartUpload(j) /\ policy # "ask"
  <2>1. Proceed(j, policy) /\ UNCHANGED <<request, aborted, probes>>
    BY <1>6 DEF StartUpload, modalVars
  <2>2. /\ PlansOne' /\ OnlyWantedUploads'
        /\ \A t \in DOMAIN copies' : copies'[t].job \in Jobs
    BY <1>1, <1>3, <1>4, <2>1, ProceedAsks
  <2> QED  BY <1>1, <1>3, <2>1, <2>2 DEF RequestInv, ModalAsks
<1>7. CASE StartUpload(j) /\ policy = "ask"
  <2>1. /\ request' = j /\ aborted' = FALSE /\ result' = FALSE /\ probes' = probes \cup {j}
        /\ plans' = plans /\ copies' = copies
    BY <1>7 DEF StartUpload
  <2>2. \A t \in DOMAIN copies : wants'[copies[t].job] = wants[copies[t].job]
    BY <1>3, <1>4 DEF RequestInv, NoTaskOf
  <2>3. OnlyWantedUploads' /\ \A t \in DOMAIN copies' : copies'[t].job \in Jobs
    BY <2>1, <2>2, SameTasks DEF RequestInv
  <2>4. NoTaskOf(j)'
    BY <1>4, <2>1 DEF NoTaskOf
  <2>5. ModalAsks'
    BY <1>1, <1>3, <2>1, <2>4 DEF ModalAsks
  <2>6. PlansOne'
    BY <1>1, <2>1 DEF PlansOne
  <2> QED  BY <1>1, <1>3, <2>1, <2>3, <2>5, <2>6, Bounds DEF RequestInv
<1> QED  BY <1>5, <1>6, <1>7

LEMMA CancelsRequest == FormInv /\ RequestInv /\ CancelUpload => RequestInv'
<1> SUFFICES ASSUME FormInv, RequestInv, CancelUpload PROVE RequestInv'
  OBVIOUS
<1>1. /\ request \in Jobs /\ NoTaskOf(request) /\ plans = <<>>
      /\ aborted' = TRUE /\ request' = 0
      /\ wants' = [wants EXCEPT ![request] = "withdrawn"]
      /\ UNCHANGED <<probes, plans, copies>>
  BY DEF CancelUpload, RequestInv, ModalAsks
<1>2. /\ wants' \in [Jobs -> {"no", "asked", "withdrawn"}]
      /\ \A i \in Jobs : i # request => wants'[i] = wants[i]
  BY <1>1 DEF RequestInv
<1>3. \A t \in DOMAIN copies : wants'[copies[t].job] = wants[copies[t].job]
  BY <1>1, <1>2 DEF RequestInv, NoTaskOf
<1>4. OnlyWantedUploads' /\ \A t \in DOMAIN copies' : copies'[t].job \in Jobs
  BY <1>1, <1>3, SameTasks DEF RequestInv
<1> QED  BY <1>1, <1>2, <1>4 DEF RequestInv, ModalAsks, PlansOne

(* A probe that is not aborted is the one of the request that is shown.          *)
LEMMA AnswersRequest ==
    ASSUME FormInv, RequestInv, NEW j \in Jobs, ProbeAnswered(j)
    PROVE  RequestInv'
<1>1. j \in probes /\ probes' = probes \ {j} /\ aborted' = aborted /\ wants' = wants
  BY DEF ProbeAnswered
<1>2. CASE aborted
  <2>1. request = 0
    BY <1>2 DEF RequestInv, ModalAsks
  <2>2. UNCHANGED <<request, plans, copies>>
    BY <1>2 DEF ProbeAnswered
  <2>3. OnlyWantedUploads' /\ \A t \in DOMAIN copies' : copies'[t].job \in Jobs
    BY <1>1, <2>2, SameTasks DEF RequestInv
  <2>4. PlansOne'
    BY <1>1, <2>1, <2>2 DEF PlansOne, RequestInv, NoTaskOf
  <2> QED  BY <1>1, <1>2, <2>1, <2>2, <2>3, <2>4 DEF RequestInv, ModalAsks
<1>3. CASE ~aborted
  <2>1. /\ request = j /\ probes' = {} /\ plans = <<>> /\ wants[j] = "asked" /\ NoTaskOf(j)
    BY <1>1, <1>3 DEF RequestInv, ModalAsks
  <2>2. CASE request' = 0 /\ Proceed(j, "none")
    <3>1. /\ PlansOne' /\ OnlyWantedUploads'
          /\ \A t \in DOMAIN copies' : copies'[t].job \in Jobs
      BY <1>1, <2>1, <2>2, ProceedAsks
    <3>2. request' \in Jobs \cup {0} /\ probes' \subseteq Jobs /\ ModalAsks'
      BY <2>1, <2>2 DEF ModalAsks
    <3> QED  BY <1>1, <2>1, <3>1, <3>2 DEF RequestInv
  <2>3. CASE UNCHANGED <<request, plans, copies>>
    <3>1. OnlyWantedUploads' /\ \A t \in DOMAIN copies' : copies'[t].job \in Jobs
      BY <1>1, <2>3, SameTasks DEF RequestInv
    <3>2. ModalAsks' /\ PlansOne'
      BY <1>1, <1>3, <2>1, <2>3 DEF ModalAsks, PlansOne, NoTaskOf
    <3> QED  BY <1>1, <2>1, <2>3, <3>1, <3>2 DEF RequestInv
  <2> QED  BY <1>3, <2>2, <2>3 DEF ProbeAnswered
<1> QED  BY <1>2, <1>3

LEMMA DecidesRequest ==
    ASSUME FormInv, RequestInv, NEW action, Decide(action)
    PROVE  RequestInv'
<1>1. /\ request \in Jobs /\ probes = {} /\ plans = <<>> /\ wants[request] = "asked"
      /\ NoTaskOf(request)
  BY DEF Decide, RequestInv, ModalAsks
<1>2. /\ request' = 0 /\ Proceed(request, action)
      /\ UNCHANGED <<aborted, probes, wants>>
  BY DEF Decide
<1>3. /\ PlansOne' /\ OnlyWantedUploads'
      /\ \A t \in DOMAIN copies' : copies'[t].job \in Jobs
  BY <1>1, <1>2, ProceedAsks
<1>4. request' \in Jobs \cup {0} /\ probes' = {} /\ ModalAsks'
  BY <1>1, <1>2 DEF ModalAsks
<1> QED  BY <1>2, <1>3, <1>4 DEF RequestInv

(* The one plan becomes a task.                                                  *)
LEMMA PlansRequest ==
    ASSUME FormInv, RequestInv, NEW i \in DOMAIN plans, Planned(i)
    PROVE  RequestInv' /\ plans' = <<>> /\ request' = 0 /\ probes' = {}
<1>1. plans # <<>>
  OBVIOUS
<1>2. PICK j \in Jobs, how \in {"skip", "rename"} :
          plans = <<[job |-> j, action |-> how]>> /\ wants[j] = "asked" /\ NoTaskOf(j)
  BY <1>1 DEF RequestInv, PlansOne
<1>3. request = 0 /\ probes = {}
  BY <1>1 DEF RequestInv, PlansOne
<1>4. i = 1 /\ Len(plans) = 1 /\ plans[i].job = j
  BY <1>2
<1>5. plans' = <<>>
  <2>1. plans' = [k \in 1 .. Len(plans) - 1 |-> IF k < i THEN plans[k] ELSE plans[k + 1]]
    BY DEF Planned
  <2>2. Len(plans) - 1 = 0
    BY <1>4
  <2>3. plans' \in Seq({}) /\ Len(plans') = 0
    <3> DEFINE f == [k \in 1 .. 0 |-> IF k < i THEN plans[k] ELSE plans[k + 1]]
    <3>1. f \in Seq({}) /\ Len(f) = 0
      OBVIOUS
    <3>2. plans' = f
      BY <2>1, <2>2
    <3> QED  BY <3>1, <3>2
  <2> QED  BY <2>3
<1>6. UNCHANGED <<request, aborted, probes, wants>>
  BY DEF Planned, modalVars
<1>7. \E n, action, state : copies' = Append(copies, NewCopy(j, "upload", n, action, state))
  BY <1>4 DEF Planned
<1>8. PICK n, action, state : copies' = Append(copies, NewCopy(j, "upload", n, action, state))
  BY <1>7
<1> DEFINE c == NewCopy(j, "upload", n, action, state)
<1>9. c.job = j
  BY NewRecord
<1> HIDE DEF c
<1>10. copies' = Append(copies, c)
  BY <1>8 DEF c
<1>11. OnlyWantedUploads' /\ \A t \in DOMAIN copies' : copies'[t].job \in Jobs
  BY <1>2, <1>6, <1>9, <1>10, OneMore DEF FormInv, RequestInv
<1>12. ModalAsks' /\ PlansOne'
  BY <1>3, <1>5, <1>6 DEF ModalAsks, PlansOne
<1> QED  BY <1>3, <1>5, <1>6, <1>11, <1>12 DEF RequestInv

LEMMA RequestOfTasks ==
    ASSUME RequestInv, UNCHANGED <<request, aborted, result, probes, plans, wants>>,
           DOMAIN copies' = DOMAIN copies,
           \A u \in DOMAIN copies : copies'[u].job = copies[u].job
    PROVE  RequestInv'
<1>1. OnlyWantedUploads' /\ \A t \in DOMAIN copies' : copies'[t].job \in Jobs
  BY SameTasks DEF RequestInv
<1>2. \A j : NoTaskOf(j) => NoTaskOf(j)'
  BY SameTasks
<1>3. ModalAsks'
  BY <1>2 DEF RequestInv, ModalAsks
<1>4. PlansOne'
  BY <1>2 DEF RequestInv, PlansOne
<1> QED  BY <1>1, <1>3, <1>4 DEF RequestInv

LEMMA RequestStepKeeps == FormInv /\ RequestInv /\ [CarefulCopyNext]_copyVars => RequestInv'
<1> SUFFICES ASSUME FormInv, RequestInv, [CarefulCopyNext]_copyVars PROVE RequestInv'
  OBVIOUS
<1>1. CASE Quiet /\ UserBegins
  BY <1>1, BeginsRequest
<1>2. CASE RequestStep
  <2>1. CASE \E n \in Names : OtherWrites(n)
    <3>1. UNCHANGED <<request, aborted, result, probes, plans, wants, copies>>
      BY <2>1 DEF OtherWrites, modalVars
    <3> QED  BY <3>1, RequestOfTasks
  <2> QED  BY <1>2, <2>1, CancelsRequest, AnswersRequest, DecidesRequest, PlansRequest
           DEF RequestStep
<1>3. ASSUME NEW t \in DOMAIN copies, TaskStep(t) PROVE RequestInv'
  <2>1. UNCHANGED <<request, aborted, result, probes, plans, wants>>
    BY <1>3, TaskStepFrame DEF modalVars
  <2> QED  BY <1>3, <2>1, TaskStepKeeps, RequestOfTasks
<1>4. CASE UNCHANGED copyVars
  <2>1. UNCHANGED <<request, aborted, result, probes, plans, wants, copies>>
    BY <1>4 DEF copyVars, modalVars
  <2> QED  BY <2>1, RequestOfTasks
<1> QED  BY <1>1, <1>2, <1>3, <1>4 DEF CarefulCopyNext, TaskStep, GoesOn

LEMMA RequestInit == CopyInit => RequestInv
<1> SUFFICES ASSUME CopyInit PROVE RequestInv
  OBVIOUS
<1>1. /\ request = 0 /\ aborted = FALSE /\ probes = {} /\ plans = <<>> /\ copies = <<>>
      /\ wants = [j \in Jobs |-> "no"]
  BY DEF CopyInit
<1>2. DOMAIN copies = {}
  BY <1>1
<1> QED  BY <1>1, <1>2 DEF RequestInv, ModalAsks, PlansOne, OnlyWantedUploads

(* The strengthened invariant of the request: one on its way, and no task of it. *)
THEOREM RequestInvariance == CarefulCopySpec => [](FormInv /\ RequestInv)
<1>1. FormInv /\ RequestInv /\ [CarefulCopyNext]_copyVars => (FormInv /\ RequestInv)'
  <2>1. [CarefulCopyNext]_copyVars => [CopyNext]_copyVars
    BY CarefulIsCopy
  <2> QED  BY <2>1, RequestStepKeeps, StepShape, ShapeKeeps
<1> QED  BY <1>1, FormInit, RequestInit, PTL DEF CarefulCopySpec

(* For any number of jobs, and whenever an upload is taken back while its names  *)
(* are looked up: it has no task, and no upload has two.  The user is one who    *)
(* asks again only when nothing is under way: an answer that comes late meets    *)
(* the abortedRef of the modal it belongs to.                                    *)
THEOREM OnlyWantedUploadsHolds == CarefulCopySpec => []OnlyWantedUploads
BY RequestInvariance, PTL DEF RequestInv

-------------------------------------------------------------------------------
(* What the .part file holds.                                                    *)

(* The file c works on, among those of part.                                     *)
PartIn(files, c) == IF Exists(files, c.kind, c.name) THEN files[c.kind][c.name] ELSE <<>>
OwnsIn(files, c) == \A d \in Directions : \A n \in DOMAIN files[d] : d = c.kind /\ n = c.name

(* The last task, and what is known of it.                                       *)
Here(t) ==
    /\ t \in DOMAIN copies /\ t = Len(copies)
    /\ DOMAIN copies[t] = Fields /\ copies[t].kind \in Directions /\ copies[t].job \in Jobs
    /\ Runs(copies[t])
    /\ FilesFormed(part) /\ FilesFormed(final)
    /\ OwnsIn(part, copies[t]) /\ Sound(copies[t], PartIn(part, copies[t]))

Advance(t) ==
    \E c : /\ copies' = [copies EXCEPT ![t] = c]
           /\ Runs(c) /\ OwnsIn(part', c) /\ Sound(c, PartIn(part', c))

LEMMA TheFile ==
    ASSUME NEW files, FilesFormed(files), NEW c, c.kind \in Directions, OwnsIn(files, c), NEW p
    PROVE  /\ OwnsIn(With(files, c.kind, c.name, p), c)
           /\ PartIn(With(files, c.kind, c.name, p), c) = p
           /\ \A d \in Directions : DOMAIN Without(files, c.kind, c.name)[d] = {}
<1>1. /\ DOMAIN With(files, c.kind, c.name, p)[c.kind] = DOMAIN files[c.kind] \cup {c.name}
      /\ With(files, c.kind, c.name, p)[c.kind][c.name] = p
      /\ \A e \in Directions \ {c.kind} : With(files, c.kind, c.name, p)[e] = files[e]
  BY WithFile
<1>2. /\ DOMAIN Without(files, c.kind, c.name)[c.kind] = DOMAIN files[c.kind] \ {c.name}
      /\ \A e \in Directions \ {c.kind} : Without(files, c.kind, c.name)[e] = files[e]
  BY WithoutFile
<1> QED  BY <1>1, <1>2 DEF OwnsIn, PartIn, Exists

LEMMA NoFile ==
    ASSUME NEW files, \A d \in Directions : DOMAIN files[d] = {}, NEW c, c.kind \in Directions
    PROVE  OwnsIn(files, c) /\ PartIn(files, c) = <<>>
BY DEF OwnsIn, PartIn, Exists

LEMMA SoundEmpty ==
    ASSUME NEW c, c.stage \in {"idle", "open"}
    PROVE  Sound(c, <<>>)
<1>1. <<>> \in Seq(Nat) /\ Len(<<>>) = 0
  OBVIOUS
<1> QED  BY <1>1, Bounds DEF Sound

LEMMA SoundSame ==
    ASSUME NEW c, NEW p, Sound(c, p), NEW d, d.job = c.job, d.stage = c.stage,
           d.flight = c.flight, d.next = c.next, d.err = c.err
    PROVE  Sound(d, p)
BY DEF Sound

(* A task that leaves its window has no request under way.                       *)
LEMMA SoundLeft ==
    ASSUME NEW c, NEW p, Sound(c, p), c.flight = {}, NEW d, d.job = c.job,
           d.stage # "window",
           d.stage \in {"stat", "replace", "rename"} => Len(p) = Blocks
    PROVE  Sound(d, p)
BY DEF Sound

(* Requests F are under way, those up to n have been issued; then some more are. *)
Issuing(n, F, q, d) ==
    /\ n \in 1 .. Blocks + 1 /\ F \subseteq 1 .. n - 1
    /\ q \in Seq(Nat) /\ Len(q) <= Blocks
    /\ \A i \in 1 .. Len(q) : q[i] = d.job \/ i \in F
    /\ \A b \in F : \A i \in 1 .. b - 1 : i \in F \/ i <= Len(q)
    /\ d.stage = "window" /\ d.next \in n .. Blocks + 1
    /\ d.flight = F \cup (n .. d.next - 1) /\ Cardinality(d.flight) <= Window
    /\ \/ \A i \in 1 .. n - 1 : i \in F \/ i <= Len(q)
       \/ d.next = n /\ d.err # "none"

LEMMA Issued ==
    ASSUME NEW n, NEW F, NEW q, NEW d, Issuing(n, F, q, d)
    PROVE  Sound(d, q)
<1> USE DEF Issuing
<1>1. n \in Int /\ d.next \in Int /\ Blocks \in Int /\ Len(q) \in Nat
  BY Bounds
<1>2. d.next \in 1 .. Blocks + 1 /\ d.flight \subseteq 1 .. d.next - 1
  <2>1. d.next \in 1 .. Blocks + 1
    BY <1>1
  <2>2. ASSUME NEW b \in d.flight PROVE b \in 1 .. d.next - 1
    <3>1. b \in F \/ b \in n .. d.next - 1
      OBVIOUS
    <3>2. b \in 1 .. n - 1 \/ b \in n .. d.next - 1
      BY <3>1
    <3> QED  BY <1>1, <2>1, <3>2
  <2> QED  BY <2>1, <2>2
<1>3. \A i \in 1 .. Len(q) : q[i] = d.job \/ i \in d.flight
  OBVIOUS
<1>4. ASSUME NEW b \in d.flight, NEW i \in 1 .. b - 1 PROVE i \in d.flight \/ i <= Len(q)
  <2>1. CASE b \in F
    BY <2>1
  <2>2. CASE b \notin F
    <3>1. b \in n .. d.next - 1 /\ d.next # n
      BY <1>1, <2>2
    <3>2. \A m \in 1 .. n - 1 : m \in F \/ m <= Len(q)
      BY <3>1
    <3>3. i \in 1 .. n - 1 \/ i \in n .. d.next - 1
      BY <1>1, <3>1
    <3> QED  BY <3>2, <3>3
  <2> QED  BY <2>1, <2>2
<1>5. ASSUME d.err = "none", NEW i \in 1 .. d.next - 1 PROVE i \in d.flight \/ i <= Len(q)
  <2>1. \A m \in 1 .. n - 1 : m \in F \/ m <= Len(q)
    BY <1>5
  <2>2. i \in 1 .. n - 1 \/ i \in n .. d.next - 1
    BY <1>1
  <2> QED  BY <2>1, <2>2
<1> QED  BY <1>2, <1>3, <1>4, <1>5 DEF Sound

(* A block is written, with a hole before it where the file was shorter.         *)
LEMMA WrittenBlock ==
    ASSUME NEW p \in Seq(Nat), Len(p) <= Blocks, NEW b \in 1 .. Blocks, NEW j \in Nat
    PROVE  LET q == Written(p, b, j)
           IN  /\ q \in Seq(Nat) /\ Len(q) <= Blocks
               /\ Len(q) >= Len(p) /\ Len(q) >= b
               /\ \A i \in 1 .. Len(q) :
                      \/ (i = b /\ q[i] = j) \/ (i # b /\ i <= Len(p) /\ q[i] = p[i])
                      \/ (i > Len(p) /\ i < b)
<1> DEFINE n == Max({Len(p), b})
<1>1. /\ n \in Nat /\ n <= Blocks /\ n >= Len(p) /\ n >= b /\ (n = Len(p) \/ n = b)
  BY Bounds, GreaterOfTwo
<1>2. Written(p, b, j) =
          [i \in 1 .. n |-> IF i = b THEN j ELSE IF i <= Len(p) THEN p[i] ELSE 0]
  BY DEF Written
<1> HIDE DEF n
<1>3. Written(p, b, j) \in Seq(Nat) /\ Len(Written(p, b, j)) = n
  <2> DEFINE f == [i \in 1 .. n |-> IF i = b THEN j ELSE IF i <= Len(p) THEN p[i] ELSE 0]
  <2>1. \A i \in 1 .. n : (IF i = b THEN j ELSE IF i <= Len(p) THEN p[i] ELSE 0) \in Nat
    BY <1>1
  <2>2. f \in [1 .. n -> Nat]
    BY <2>1
  <2>3. f \in Seq(Nat) /\ Len(f) = n
    BY <1>1, <2>2
  <2> QED  BY <1>2, <2>3
<1>4. ASSUME NEW i \in 1 .. n
      PROVE  \/ (i = b /\ Written(p, b, j)[i] = j)
             \/ (i # b /\ i <= Len(p) /\ Written(p, b, j)[i] = p[i])
             \/ (i > Len(p) /\ i < b)
  <2>1. Written(p, b, j)[i] = IF i = b THEN j ELSE IF i <= Len(p) THEN p[i] ELSE 0
    BY <1>2
  <2> QED  BY <1>1, <2>1
<1> QED  BY <1>1, <1>3, <1>4

(* Orders, and the start.                                                        *)
LEMMA OrderAdvances ==
    ASSUME NEW t, Here(t),
           Pause(t) \/ CancelCopy(t) \/ (copies[t].stage = "idle" /\ Again(t)) \/ CopyStarts(t)
    PROVE  Advance(t) /\ final' = final
<1> DEFINE k == copies[t]
<1>1. /\ DOMAIN k = Fields /\ Runs(k) /\ OwnsIn(part, k) /\ Sound(k, PartIn(part, k))
  BY DEF Here
<1>2. part' = part /\ final' = final
  BY DEF Pause, CancelCopy, Again, Ordered, CopyStarts
<1>3. ASSUME NEW c, copies' = [copies EXCEPT ![t] = c], c.stage = k.stage,
             c.job = k.job, c.kind = k.kind, c.name = k.name, c.flight = k.flight,
             c.next = k.next, c.err = k.err, c.stage = "idle" => c.state # "running"
      PROVE  Advance(t)
  <2>1. Runs(c) /\ OwnsIn(part', c)
    BY <1>1, <1>2, <1>3 DEF Runs, OwnsIn
  <2>2. PartIn(part', c) = PartIn(part, k)
    BY <1>2, <1>3 DEF PartIn, Exists
  <2>3. Sound(c, PartIn(part', c))
    BY <1>1, <1>3, <2>2, SoundSame
  <2> QED  BY <1>3, <2>1, <2>3 DEF Advance
<1>4. CASE Pause(t)
  <2>1. CASE k.state = "running" /\ Ordered(t, [k EXCEPT !.pause = TRUE])
    <3> DEFINE c == [k EXCEPT !.pause = TRUE]
    <3>1. /\ c.stage = k.stage /\ c.job = k.job /\ c.kind = k.kind /\ c.name = k.name
          /\ c.flight = k.flight /\ c.next = k.next /\ c.err = k.err /\ c.state = k.state
      BY <1>1 DEF Fields
    <3>2. copies' = [copies EXCEPT ![t] = c] /\ (k.stage = "idle" => k.state # "running")
      BY <1>1, <2>1 DEF Ordered, Runs
    <3> HIDE DEF c
    <3> QED  BY <1>2, <1>3, <3>1, <3>2
  <2>2. CASE Ordered(t, [k EXCEPT !.state = "paused"])
    <3> DEFINE c == [k EXCEPT !.state = "paused"]
    <3>1. /\ c.stage = k.stage /\ c.job = k.job /\ c.kind = k.kind /\ c.name = k.name
          /\ c.flight = k.flight /\ c.next = k.next /\ c.err = k.err /\ c.state = "paused"
      BY <1>1 DEF Fields
    <3>2. copies' = [copies EXCEPT ![t] = c]
      BY <2>2 DEF Ordered
    <3> HIDE DEF c
    <3> QED  BY <1>2, <1>3, <3>1, <3>2
  <2> QED  BY <1>4, <2>1, <2>2 DEF Pause
<1>5. CASE CancelCopy(t)
  <2> DEFINE c == [k EXCEPT !.state = "canceled", !.cancel = k.stage # "idle"]
  <2>1. /\ c.stage = k.stage /\ c.job = k.job /\ c.kind = k.kind /\ c.name = k.name
        /\ c.flight = k.flight /\ c.next = k.next /\ c.err = k.err /\ c.state = "canceled"
    BY <1>1 DEF Fields
  <2>2. copies' = [copies EXCEPT ![t] = c]
    BY <1>5 DEF CancelCopy, Ordered
  <2> HIDE DEF c
  <2> QED  BY <1>2, <1>3, <2>1, <2>2
<1>6. CASE Again(t)
  <2> DEFINE c == [k EXCEPT !.state = "queued"]
  <2>1. /\ c.stage = k.stage /\ c.job = k.job /\ c.kind = k.kind /\ c.name = k.name
        /\ c.flight = k.flight /\ c.next = k.next /\ c.err = k.err /\ c.state = "queued"
    BY <1>1 DEF Fields
  <2>2. copies' = [copies EXCEPT ![t] = c]
    BY <1>6 DEF Again, Ordered
  <2> HIDE DEF c
  <2> QED  BY <1>2, <1>3, <2>1, <2>2
<1>7. CASE CopyStarts(t)
  <2> DEFINE resume == k.attempted /\ PartOf(k) # <<>>
             c == [k EXCEPT !.state = "running", !.attempted = TRUE, !.stage = "open",
                            !.resume = resume]
  <2> HIDE DEF resume
  <2>1. /\ c.stage = "open" /\ c.job = k.job /\ c.kind = k.kind /\ c.name = k.name
        /\ c.flight = k.flight /\ c.err = k.err
    BY <1>1 DEF Fields
  <2>2. copies' = [copies EXCEPT ![t] = c] /\ k.stage = "idle"
    BY <1>7 DEF CopyStarts, Becoming, resume
  <2> HIDE DEF c
  <2>3. k.flight = {} /\ Runs(c) /\ OwnsIn(part', c)
    BY <1>1, <1>2, <2>1, <2>2 DEF Runs, OwnsIn
  <2>4. PartIn(part', c) = PartIn(part, k)
    BY <1>2, <2>1 DEF PartIn, Exists
  <2>5. Sound(c, PartIn(part', c))
    BY <1>1, <2>1, <2>3, <2>4, SoundLeft
  <2> QED  BY <1>2, <2>2, <2>3, <2>5 DEF Advance
<1> QED  BY <1>2, <1>4, <1>5, <1>6, <1>7

(* The window: it is opened at the size of the file.                             *)
LEMMA OpenAdvances ==
    ASSUME NEW t, Here(t), Opened(t)
    PROVE  Advance(t) /\ final' = final
<1> DEFINE k == copies[t]
           p == PartIn(part, k)
           offset == IF k.resume /\ Len(p) <= Blocks THEN Len(p) ELSE 0
           q == IF offset = 0 THEN <<>> ELSE p
           e == [k EXCEPT !.stage = "window", !.next = offset + 1]
           c == Turn(e)
<1>1. /\ DOMAIN k = Fields /\ Runs(k) /\ OwnsIn(part, k) /\ Sound(k, p)
      /\ FilesFormed(part) /\ k.kind \in Directions
  BY DEF Here
<1>2. PartOf(k) = p
  BY DEF PartOf, PartIn
<1>3. /\ k.stage = "open" /\ part' = With(part, k.kind, k.name, q)
      /\ copies' = [copies EXCEPT ![t] = c] /\ final' = final
  BY <1>2 DEF Opened, Becoming
<1>4. k.flight = {} /\ k.err \in {"none", "error", "aborted"}
  BY <1>1, <1>3 DEF Runs
<1>5. p \in Seq(Nat) /\ Len(p) <= Blocks /\ \A i \in 1 .. Len(p) : p[i] = k.job
  BY <1>1, <1>4 DEF Sound
<1> HIDE DEF p
<1>6. /\ q \in Seq(Nat) /\ Len(q) = offset /\ Len(q) <= Blocks
      /\ \A i \in 1 .. Len(q) : q[i] = k.job
  BY <1>5, Bounds
<1> HIDE DEF offset, q
<1>7. offset \in Nat /\ offset + 1 \in 1 .. Blocks + 1
  BY <1>6, Bounds
<1>8. /\ DOMAIN e = Fields /\ e.stage = "window" /\ e.next = offset + 1 /\ e.flight = {}
      /\ e.job = k.job /\ e.kind = k.kind /\ e.name = k.name /\ e.err = k.err
  BY <1>1, <1>4 DEF Fields
<1> HIDE DEF e
<1>9. Cardinality(e.flight) <= Window /\ e.flight \subseteq 1 .. e.next - 1
  BY <1>8, FS_EmptySet, Bounds
<1>10. /\ c.job = k.job /\ c.kind = k.kind /\ c.name = k.name /\ c.stage = "window"
       /\ c.err \in {k.err, "aborted"} /\ c.next \in offset + 1 .. Blocks + 1
       /\ c.flight = {} \cup (offset + 1 .. c.next - 1) /\ Cardinality(c.flight) <= Window
  BY <1>7, <1>8, <1>9, TurnIssues
<1> HIDE DEF c
<1>11. Sound(c, q)
  <2>1. \A i \in 1 .. (offset + 1) - 1 : i <= Len(q)
    BY <1>6, <1>7
  <2>2. Issuing(offset + 1, {}, q, c)
    BY <1>6, <1>7, <1>10, <2>1 DEF Issuing
  <2> QED  BY <2>2, Issued
<1>12. OwnsIn(part', k) /\ PartIn(part', k) = q
  BY <1>1, <1>3, TheFile
<1>13. OwnsIn(part', c) /\ PartIn(part', c) = q
  BY <1>10, <1>12 DEF OwnsIn, PartIn, Exists
<1>14. Runs(c)
  BY <1>4, <1>10 DEF Runs
<1> QED  BY <1>3, <1>11, <1>13, <1>14 DEF Advance

(* A request that is served fills its block; what it may leave before it is the  *)
(* block of another that is under way.                                           *)
LEMMA BlockAdvances ==
    ASSUME NEW t, Here(t), NEW b \in 1 .. Blocks, Transferred(t, b)
    PROVE  Advance(t) /\ final' = final
<1> DEFINE k == copies[t]
           p == PartIn(part, k)
           q == Written(p, b, k.job)
           c == AfterRequests(k, {b})
           F == k.flight \ {b}
<1>1. /\ DOMAIN k = Fields /\ Runs(k) /\ OwnsIn(part, k) /\ Sound(k, p)
      /\ FilesFormed(part) /\ k.kind \in Directions /\ k.job \in Jobs
  BY DEF Here
<1>2. PartOf(k) = p
  BY DEF PartOf, PartIn
<1>3. /\ b \in k.flight /\ part' = With(part, k.kind, k.name, q)
      /\ copies' = [copies EXCEPT ![t] = c] /\ final' = final
  BY <1>2 DEF Transferred, Becoming
<1>4. k.stage = "window" /\ k.err \in {"none", "error", "aborted"} /\ k.job \in Nat
  BY <1>1, <1>3, Bounds DEF Runs
<1>5. /\ p \in Seq(Nat) /\ Len(p) <= Blocks
      /\ \A i \in 1 .. Len(p) : p[i] = k.job \/ i \in k.flight
      /\ k.next \in 1 .. Blocks + 1 /\ k.flight \subseteq 1 .. k.next - 1
      /\ Cardinality(k.flight) <= Window
      /\ \A a \in k.flight : \A i \in 1 .. a - 1 : i \in k.flight \/ i <= Len(p)
      /\ k.err = "none" => \A i \in 1 .. k.next - 1 : i \in k.flight \/ i <= Len(p)
  BY <1>1, <1>4 DEF Sound
<1> HIDE DEF p
<1>6. /\ q \in Seq(Nat) /\ Len(q) <= Blocks /\ Len(q) >= Len(p) /\ Len(q) >= b
      /\ \A i \in 1 .. Len(q) :
             \/ (i = b /\ q[i] = k.job) \/ (i # b /\ i <= Len(p) /\ q[i] = p[i])
             \/ (i > Len(p) /\ i < b)
  BY <1>4, <1>5, WrittenBlock
<1> HIDE DEF q
<1>7. /\ c.job = k.job /\ c.kind = k.kind /\ c.name = k.name /\ c.stage = "window"
      /\ c.err \in {k.err, "aborted"} /\ c.next \in k.next .. Blocks + 1
      /\ c.flight = F \cup (k.next .. c.next - 1) /\ Cardinality(c.flight) <= Window
      /\ k.err # "none" => c.err = k.err /\ c.next = k.next
  BY <1>1, <1>4, <1>5, RequestsEnd
<1> HIDE DEF c
<1>8. \A i \in k.flight : i \in F \/ i = b
  OBVIOUS
<1>9. ASSUME NEW i \in 1 .. Len(q) PROVE q[i] = c.job \/ i \in F
  <2>1. CASE i > Len(p) /\ i < b
    <3>1. i \in 1 .. b - 1 /\ i # b
      BY <1>6, <2>1
    <3>2. i \in k.flight \/ i <= Len(p)
      BY <1>3, <1>5, <3>1
    <3>3. Len(p) \in Nat
      BY <1>5
    <3> QED  BY <1>8, <2>1, <3>1, <3>2, <3>3
  <2>2. CASE i # b /\ i <= Len(p) /\ q[i] = p[i]
    <3>1. i \in 1 .. Len(p)
      BY <1>5, <1>6, <2>2
    <3> QED  BY <1>5, <1>7, <1>8, <2>2, <3>1
  <2> QED  BY <1>6, <1>7, <2>1, <2>2
<1>10. ASSUME NEW i \in Nat, i \in k.flight \/ i <= Len(p) PROVE i \in F \/ i <= Len(q)
  <2>1. Len(p) \in Nat /\ Len(q) \in Nat
    BY <1>5, <1>6
  <2> QED  BY <1>6, <1>8, <1>10, <2>1
<1>11. ASSUME NEW a \in F, NEW i \in 1 .. a - 1 PROVE i \in F \/ i <= Len(q)
  BY <1>5, <1>10
<1>12. \/ \A i \in 1 .. k.next - 1 : i \in F \/ i <= Len(q)
       \/ c.next = k.next /\ c.err # "none"
  <2>1. CASE k.err = "none"
    BY <1>5, <1>10, <2>1
  <2>2. CASE k.err # "none"
    BY <1>7, <2>2
  <2> QED  BY <2>1, <2>2
<1>13. Sound(c, q)
  <2>1. F \subseteq 1 .. k.next - 1
    BY <1>5
  <2> HIDE DEF F
  <2>2. Issuing(k.next, F, q, c)
    BY <1>5, <1>6, <1>7, <1>9, <1>11, <1>12, <2>1 DEF Issuing
  <2> QED  BY <2>2, Issued
<1>14. OwnsIn(part', k) /\ PartIn(part', k) = q
  BY <1>1, <1>3, TheFile
<1>15. OwnsIn(part', c) /\ PartIn(part', c) = q
  BY <1>7, <1>14 DEF OwnsIn, PartIn, Exists
<1>16. Runs(c)
  BY <1>4, <1>7 DEF Runs
<1> QED  BY <1>3, <1>13, <1>15, <1>16 DEF Advance

(* Requests that fail are the last ones: what is before them is there, or comes. *)
LEMMA FailureAdvances ==
    ASSUME NEW t, Here(t), NEW m \in 1 .. Blocks, FailInOrder(t, m)
    PROVE  Advance(t) /\ final' = final
<1> DEFINE k == copies[t]
           p == PartIn(part, k)
<1>1. /\ DOMAIN k = Fields /\ Runs(k) /\ OwnsIn(part, k) /\ Sound(k, p)
      /\ FilesFormed(part) /\ k.kind \in Directions /\ k.job \in Jobs
  BY DEF Here
<1>2. PartOf(k) = p
  BY DEF PartOf, PartIn
<1>3. PICK S : /\ S \subseteq k.flight /\ \A b \in k.flight : b \in S <=> b >= m
               /\ Len(p) < m /\ RequestsFail(t, S)
  <2> DEFINE T == {b \in k.flight : b >= m}
  <2>1. /\ T \subseteq k.flight /\ \A b \in k.flight : b \in T <=> b >= m
        /\ Len(p) < m /\ RequestsFail(t, T)
    BY <1>2 DEF FailInOrder
  <2> HIDE DEF T
  <2> QED  BY <2>1
<1> DEFINE e == [k EXCEPT !.err = IF @ = "none" THEN "error" ELSE @]
           c == AfterRequests(e, S)
           F == k.flight \ S
<1>4. /\ S # {} /\ part' = part /\ copies' = [copies EXCEPT ![t] = c] /\ final' = final
  BY <1>3 DEF RequestsFail, Becoming
<1>5. k.stage = "window" /\ k.err \in {"none", "error", "aborted"}
  BY <1>1, <1>3, <1>4 DEF Runs
<1>6. /\ p \in Seq(Nat) /\ Len(p) <= Blocks
      /\ \A i \in 1 .. Len(p) : p[i] = k.job \/ i \in k.flight
      /\ k.next \in 1 .. Blocks + 1 /\ k.flight \subseteq 1 .. k.next - 1
      /\ Cardinality(k.flight) <= Window
      /\ \A a \in k.flight : \A i \in 1 .. a - 1 : i \in k.flight \/ i <= Len(p)
  BY <1>1, <1>5 DEF Sound
<1> HIDE DEF p
<1>7. /\ DOMAIN e = Fields /\ e.job = k.job /\ e.kind = k.kind /\ e.name = k.name
      /\ e.stage = "window" /\ e.next = k.next /\ e.flight = k.flight
      /\ e.err \in {"error", "aborted"}
  BY <1>1, <1>5 DEF Fields
<1> HIDE DEF e
<1>8. /\ c.job = k.job /\ c.kind = k.kind /\ c.name = k.name /\ c.stage = "window"
      /\ c.err \in {"error", "aborted"} /\ c.next = k.next
      /\ c.flight = F \cup (k.next .. c.next - 1) /\ Cardinality(c.flight) <= Window
  <2>1. e.err # "none"
    BY <1>7
  <2> QED  BY <1>6, <1>7, <2>1, RequestsEnd
<1> HIDE DEF c
<1>9. Len(p) \in Nat /\ \A i \in k.flight : i \in Nat /\ (i \in F \/ i >= m)
  BY <1>3, <1>6
<1>10. ASSUME NEW i \in 1 .. Len(p) PROVE p[i] = c.job \/ i \in F
  <2>1. p[i] = k.job \/ i \in k.flight
    BY <1>6
  <2>2. ~(i >= m)
    BY <1>3, <1>9
  <2> QED  BY <1>8, <1>9, <2>1, <2>2
<1>11. ASSUME NEW a \in F, NEW i \in 1 .. a - 1 PROVE i \in F \/ i <= Len(p)
  <2>1. a \in Nat /\ ~(a >= m)
    BY <1>3, <1>9
  <2>2. i \in k.flight \/ i <= Len(p)
    BY <1>6
  <2>3. ~(i >= m)
    BY <2>1
  <2> QED  BY <1>9, <2>2, <2>3
<1>12. F \subseteq 1 .. k.next - 1 /\ c.next \in k.next .. Blocks + 1 /\ c.err # "none"
  BY <1>6, <1>8
<1>13. Sound(c, p)
  <2> HIDE DEF F
  <2>1. Issuing(k.next, F, p, c)
    BY <1>6, <1>8, <1>10, <1>11, <1>12 DEF Issuing
  <2> QED  BY <2>1, Issued
<1>14. OwnsIn(part', c) /\ PartIn(part', c) = p
  BY <1>1, <1>4, <1>8 DEF OwnsIn, PartIn, Exists, p
<1>15. Runs(c)
  BY <1>8 DEF Runs
<1> QED  BY <1>4, <1>13, <1>14, <1>15 DEF Advance

(* The end of the window: without an error every request was issued and served,  *)
(* so the file has every block.  Whatever goes on from there keeps it.           *)
LeavesWindow(t) ==
    \E c : /\ copies' = [copies EXCEPT ![t] = c]
           /\ c.job = copies[t].job /\ c.kind = copies[t].kind /\ c.name = copies[t].name
           /\ c.stage # "window" /\ c.flight = {} /\ c.err \in {"none", "error", "aborted"}
           /\ c.stage = "idle" => c.state # "running"
           /\ c.stage \in {"stat", "replace", "rename"} =>
                  /\ part' = part
                  /\ Len(PartIn(part, copies[t])) = Blocks

LEMMA LeavingAdvances ==
    ASSUME NEW t, Here(t), copies[t].flight = {}, LeavesWindow(t),
           part' = part \/ part' = Without(part, copies[t].kind, copies[t].name)
    PROVE  Advance(t)
<1> DEFINE k == copies[t]
<1>1. /\ OwnsIn(part, k) /\ Sound(k, PartIn(part, k)) /\ FilesFormed(part)
      /\ k.kind \in Directions
  BY DEF Here
<1>2. PICK c : /\ copies' = [copies EXCEPT ![t] = c]
               /\ c.job = k.job /\ c.kind = k.kind /\ c.name = k.name
               /\ c.stage # "window" /\ c.flight = {} /\ c.err \in {"none", "error", "aborted"}
               /\ c.stage = "idle" => c.state # "running"
               /\ c.stage \in {"stat", "replace", "rename"} =>
                      part' = part /\ Len(PartIn(part, k)) = Blocks
  BY DEF LeavesWindow
<1>3. Runs(c)
  BY <1>2 DEF Runs
<1>4. CASE part' = part
  <2>1. OwnsIn(part', c) /\ PartIn(part', c) = PartIn(part, k)
    BY <1>1, <1>2, <1>4 DEF OwnsIn, PartIn, Exists
  <2>2. Sound(c, PartIn(part, k))
    BY <1>1, <1>2, SoundLeft
  <2> QED  BY <1>2, <1>3, <2>1, <2>2 DEF Advance
<1>5. CASE part' # part
  <2>1. part' = Without(part, k.kind, k.name) /\ c.stage \notin {"stat", "replace", "rename"}
    BY <1>2, <1>5
  <2>2. \A d \in Directions : DOMAIN part'[d] = {}
    BY <1>1, <2>1, TheFile
  <2>3. OwnsIn(part', c) /\ PartIn(part', c) = <<>>
    BY <1>1, <1>2, <2>2, NoFile
  <2>4. Sound(c, <<>>)
    <3>1. <<>> \in Seq(Nat) /\ Len(<<>>) = 0
      OBVIOUS
    <3> QED  BY <1>2, <2>1, <3>1, Bounds DEF Sound
  <2> QED  BY <1>2, <1>3, <2>3, <2>4 DEF Advance
<1> QED  BY <1>4, <1>5

LEMMA EndLeaves ==
    ASSUME NEW t, Here(t), NEW state, state # "running", Ends(t, state)
    PROVE  LeavesWindow(t)
<1> DEFINE k == copies[t]
           c == [k EXCEPT !.state = state]
<1>1. DOMAIN k = Fields
  BY DEF Here
<1>2. DOMAIN c = Fields /\ c.job = k.job /\ c.kind = k.kind /\ c.name = k.name /\ c.state = state
  BY <1>1 DEF Fields
<1>3. copies' = [copies EXCEPT ![t] = Idle(c)]
  BY DEF Ends, Becoming
<1> HIDE DEF c
<1>4. /\ Idle(c).job = k.job /\ Idle(c).kind = k.kind /\ Idle(c).name = k.name
      /\ Idle(c).state = state /\ Idle(c).stage = "idle" /\ Idle(c).flight = {}
      /\ Idle(c).err = "none"
  BY <1>2, Forgotten
<1> QED  BY <1>3, <1>4 DEF LeavesWindow

(* A record with another stage leaves the window as well.                        *)
LEMMA StageLeaves ==
    ASSUME NEW t, Here(t), copies[t].flight = {}, part' = part,
           Len(PartIn(part, copies[t])) = Blocks,
           NEW c, copies' = [copies EXCEPT ![t] = c], c.stage \in {"stat", "replace", "rename"},
           c.job = copies[t].job, c.kind = copies[t].kind, c.name = copies[t].name,
           c.flight = copies[t].flight, c.err = copies[t].err
    PROVE  LeavesWindow(t)
<1>1. copies[t].err \in {"none", "error", "aborted"}
  BY DEF Here, Runs
<1> QED  BY <1>1 DEF LeavesWindow

LEMMA WindowEndAdvances ==
    ASSUME NEW t, Here(t), WindowEnds(t)
    PROVE  Advance(t) /\ final' = final
<1> DEFINE k == copies[t]
           p == PartIn(part, k)
<1>1. /\ k.stage = "window" /\ k.flight = {} /\ k.err \in {"none", "error", "aborted"}
      /\ Sound(k, p) /\ final' = final
  BY DEF Here, Runs, WindowEnds, WindowIsOver
<1>2. part' = part \/ part' = Without(part, k.kind, k.name)
  BY DEF WindowEnds
<1>3. CASE Ends(t, "error") \/ Ends(t, "canceled") \/ Ends(t, "paused")
  BY <1>1, <1>2, <1>3, EndLeaves, LeavingAdvances
<1>4. CASE ~(Ends(t, "error") \/ Ends(t, "canceled") \/ Ends(t, "paused"))
  <2> DEFINE to == IF k.kind = "upload" THEN "stat" ELSE "replace"
  <2>1. /\ k.err = "none" /\ k.next > Blocks /\ part' = part
        /\ copies' = [copies EXCEPT ![t] = [k EXCEPT !.stage = to, !.landing = k.name]]
    BY <1>1, <1>4 DEF WindowEnds, WindowIsOver, Becoming
  <2>2. Len(p) = Blocks
    <3>1. /\ Len(p) \in Nat /\ Len(p) <= Blocks /\ k.next \in 1 .. Blocks + 1
          /\ \A i \in 1 .. k.next - 1 : i <= Len(p)
      BY <1>1, <2>1 DEF Sound
    <3>2. Blocks \in 1 .. k.next - 1
      BY <2>1, <3>1, Bounds
    <3> QED  BY <3>1, <3>2, Bounds
  <2>3. to \in {"stat", "replace", "rename"}
    OBVIOUS
  <2> HIDE DEF to
  <2>4. LeavesWindow(t)
    <3> DEFINE c == [k EXCEPT !.stage = to, !.landing = k.name]
    <3>1. DOMAIN k = Fields
      BY DEF Here
    <3>2. /\ c.stage = to /\ c.job = k.job /\ c.kind = k.kind /\ c.name = k.name
          /\ c.flight = k.flight /\ c.err = k.err
      BY <3>1 DEF Fields
    <3>3. copies' = [copies EXCEPT ![t] = c]
      BY <2>1
    <3> HIDE DEF c
    <3> QED  BY <1>1, <2>1, <2>2, <2>3, <3>2, <3>3, StageLeaves
  <2> QED  BY <1>1, <1>2, <2>4, LeavingAdvances
<1> QED  BY <1>3, <1>4

LEMMA WholeOf ==
    ASSUME NEW t, Here(t), copies[t].stage \in {"stat", "replace", "rename"}
    PROVE  /\ copies[t].flight = {} /\ Len(PartIn(part, copies[t])) = Blocks
           /\ PartIn(part, copies[t]) = [b \in 1 .. Blocks |-> copies[t].job]
<1> DEFINE k == copies[t]
           p == PartIn(part, k)
<1>1. k.flight = {}
  BY DEF Here, Runs
<1>2. p \in Seq(Nat) /\ Len(p) = Blocks /\ \A i \in 1 .. Len(p) : p[i] = k.job
  BY <1>1 DEF Here, Sound
<1> HIDE DEF p
<1>3. p = [b \in 1 .. Blocks |-> k.job]
  BY <1>2
<1> QED  BY <1>1, <1>2, <1>3 DEF p

LEMMA CheckAdvances ==
    ASSUME NEW t, Here(t), LandingChecked(t)
    PROVE  Advance(t) /\ final' = final
<1> DEFINE k == copies[t]
<1>1. k.stage = "stat" /\ final' = final
  BY DEF LandingChecked
<1>2. k.flight = {} /\ Len(PartIn(part, k)) = Blocks
  BY <1>1, WholeOf
<1>3. part' = part \/ part' = Without(part, k.kind, k.name)
  BY DEF LandingChecked
<1>4. CASE Ends(t, "skipped")
  BY <1>1, <1>2, <1>3, <1>4, EndLeaves, LeavingAdvances
<1>5. CASE ~Ends(t, "skipped")
  <2>1. /\ part' = part
        /\ \/ copies' = [copies EXCEPT ![t] = [k EXCEPT !.stage = "rename"]]
           \/ copies' = [copies EXCEPT ![t] =
                            [k EXCEPT !.stage = "rename", !.landing = FreeName(k.name)]]
           \/ copies' = [copies EXCEPT ![t] = [k EXCEPT !.stage = "replace"]]
    BY <1>5 DEF LandingChecked, Becoming
  <2>2. DOMAIN k = Fields
    BY DEF Here
  <2>3. PICK c : /\ copies' = [copies EXCEPT ![t] = c] /\ c.stage \in {"replace", "rename"}
                 /\ c.job = k.job /\ c.kind = k.kind /\ c.name = k.name
                 /\ c.flight = k.flight /\ c.err = k.err
    BY <2>1, <2>2 DEF Fields
  <2>4. LeavesWindow(t)
    BY <1>2, <2>1, <2>3, StageLeaves
  <2> QED  BY <1>1, <1>2, <1>3, <2>4, LeavingAdvances
<1> QED  BY <1>4, <1>5

LEMMA FailureEndAdvances ==
    ASSUME NEW t, Here(t), CopyFails(t)
    PROVE  Advance(t) /\ final' = final
<1>1. copies[t].stage # "window" /\ Ends(t, "error") /\ final' = final
      /\ (part' = part \/ part' = Without(part, copies[t].kind, copies[t].name))
  BY DEF CopyFails
<1>2. copies[t].flight = {}
  BY <1>1 DEF Here, Runs
<1> QED  BY <1>1, <1>2, EndLeaves, LeavingAdvances

(* What is under the final names.                                                *)
LEMMA WholeStays ==
    ASSUME LandedWhole,
           \A d \in Directions : \A n \in DOMAIN final'[d] :
               \/ n \in DOMAIN final[d] /\ final'[d][n] = final[d][n]
               \/ \E j \in 1 .. MaxJobs + 1 : final'[d][n] = [b \in 1 .. Blocks |-> j]
    PROVE  LandedWhole'
BY SMTT(30) DEF LandedWhole

LEMMA SameWhole == LandedWhole /\ final' = final => LandedWhole'
BY WholeStays

LEMMA ReplaceAdvances ==
    ASSUME NEW t, Here(t), LandedWhole, Replaced(t)
    PROVE  Advance(t) /\ LandedWhole'
<1> DEFINE k == copies[t]
<1>1. /\ k.stage = "replace" /\ final' = Without(final, k.kind, k.name) /\ part' = part
      /\ copies' = [copies EXCEPT ![t] = [k EXCEPT !.stage = "rename"]]
  BY DEF Replaced, Becoming
<1>2. k.flight = {} /\ Len(PartIn(part, k)) = Blocks
  BY <1>1, WholeOf
<1>3. LeavesWindow(t)
  <2> DEFINE c == [k EXCEPT !.stage = "rename"]
  <2>1. DOMAIN k = Fields
    BY DEF Here
  <2>2. /\ c.stage = "rename" /\ c.job = k.job /\ c.kind = k.kind /\ c.name = k.name
        /\ c.flight = k.flight /\ c.err = k.err
    BY <2>1 DEF Fields
  <2>3. copies' = [copies EXCEPT ![t] = c]
    BY <1>1
  <2> HIDE DEF c
  <2> QED  BY <1>1, <1>2, <2>2, <2>3, StageLeaves
<1>4. \A d \in Directions : \A n \in DOMAIN final'[d] :
          n \in DOMAIN final[d] /\ final'[d][n] = final[d][n]
  <2>1. FilesFormed(final) /\ k.kind \in Directions
    BY DEF Here
  <2> QED  BY <1>1, <2>1, WithoutFile
<1>5. LandedWhole'
  BY <1>4, WholeStays
<1> QED  BY <1>1, <1>2, <1>3, <1>5, LeavingAdvances

LEMMA LandAdvances ==
    ASSUME NEW t, Here(t), LandedWhole, Landed(t)
    PROVE  Advance(t) /\ LandedWhole'
<1> DEFINE k == copies[t]
           p == PartIn(part, k)
<1>1. /\ k.stage = "rename" /\ DOMAIN k = Fields /\ k.kind \in Directions /\ k.job \in Jobs
      /\ FilesFormed(part) /\ FilesFormed(final) /\ OwnsIn(part, k)
  BY DEF Here, Landed
<1>2. k.flight = {} /\ Len(p) = Blocks /\ p = [b \in 1 .. Blocks |-> k.job]
  BY <1>1, WholeOf
<1>3. PartOf(k) = p
  BY DEF PartOf, PartIn
<1> HIDE DEF p
<1>4. CASE Ends(t, "error") /\ UNCHANGED <<final, part>>
  <2>1. LandedWhole'
    BY <1>4 DEF LandedWhole
  <2> QED  BY <1>2, <1>4, <2>1, EndLeaves, LeavingAdvances
<1>5. CASE ~(Ends(t, "error") /\ UNCHANGED <<final, part>>)
  <2> DEFINE c == [k EXCEPT !.name = k.landing,
                            !.state = IF @ = "canceled" THEN @ ELSE "done"]
  <2>1. /\ final' = With(final, k.kind, k.landing, p)
        /\ part' = Without(part, k.kind, k.name)
        /\ copies' = [copies EXCEPT ![t] = Idle(c)]
    BY <1>3, <1>5 DEF Landed, Becoming
  <2>2. /\ DOMAIN c = Fields /\ c.kind = k.kind /\ c.state # "running"
    BY <1>1 DEF Fields
  <2> HIDE DEF c
  <2>3. /\ Idle(c).kind = k.kind /\ Idle(c).state # "running" /\ Idle(c).stage = "idle"
        /\ Idle(c).flight = {} /\ Idle(c).err = "none"
    BY <2>2, Forgotten
  <2>4. \A d \in Directions : DOMAIN part'[d] = {}
    BY <1>1, <2>1, TheFile
  <2>5. OwnsIn(part', Idle(c)) /\ PartIn(part', Idle(c)) = <<>>
    BY <1>1, <2>3, <2>4, NoFile
  <2>6. Sound(Idle(c), <<>>)
    BY <2>3, SoundEmpty
  <2>7. Runs(Idle(c))
    BY <2>3 DEF Runs
  <2>8. Advance(t)
    BY <2>1, <2>5, <2>6, <2>7 DEF Advance
  <2>9. ASSUME NEW d \in Directions, NEW n \in DOMAIN final'[d]
        PROVE  \/ n \in DOMAIN final[d] /\ final'[d][n] = final[d][n]
               \/ \E j \in 1 .. MaxJobs + 1 : final'[d][n] = [b \in 1 .. Blocks |-> j]
    <3>1. k.job \in 1 .. MaxJobs + 1
      BY <1>1, Bounds
    <3>2. /\ DOMAIN final'[k.kind] = DOMAIN final[k.kind] \cup {k.landing}
          /\ final'[k.kind][k.landing] = p
          /\ \A m \in DOMAIN final[k.kind] : m # k.landing =>
                 final'[k.kind][m] = final[k.kind][m]
          /\ \A e \in Directions \ {k.kind} : final'[e] = final[e]
      BY <1>1, <2>1, WithFile
    <3>3. CASE d = k.kind /\ n = k.landing
      BY <1>2, <3>1, <3>2, <3>3
    <3>4. CASE ~(d = k.kind /\ n = k.landing)
      BY <3>2, <3>4
    <3> QED  BY <3>3, <3>4
  <2>10. LandedWhole'
    BY <2>9, WholeStays
  <2> QED  BY <2>8, <2>10
<1> QED  BY <1>4, <1>5

-------------------------------------------------------------------------------
(* The careful user, and the whole.                                              *)
LEMMA LastOfNone ==
    ASSUME CopiesFormed
    PROVE  /\ Len(copies) \in Nat /\ DOMAIN copies = 1 .. Len(copies)
           /\ copies # <<>> <=> Len(copies) \in DOMAIN copies
<1> PICK S : copies \in Seq(S)
  BY DEF CopiesFormed
<1> QED  OBVIOUS

(* A request has no file, and wakes nobody but the task that it becomes.         *)
BecomesTask ==
    /\ NothingAsked'
    /\ \E j, n, action, state : \E kind \in Directions :
          /\ state \in {"queued", "skipped"}
          /\ copies' = Append(copies, NewCopy(j, kind, n, action, state))

LEMMA AskingKeeps ==
    ASSUME FormInv, FormInv', LastIsAwake, LastOwns, LastIsSound,
           \A d \in Directions : DOMAIN part[d] = {},
           \A t \in DOMAIN copies : Dormant(copies[t]),
           part' = part, copies' = copies \/ BecomesTask
    PROVE  LastIsAwake' /\ QuietWhileAsked' /\ LastOwns' /\ LastIsSound'
<1>1. \A d \in Directions : DOMAIN part'[d] = {}
  OBVIOUS
<1>2. LastOwns'
  BY <1>1 DEF LastOwns
<1>3. CASE copies' = copies
  <2>1. LastIsAwake' /\ QuietWhileAsked'
    BY <1>1, <1>3 DEF LastIsAwake, QuietWhileAsked, Dormant, Runs
  <2>2. LastIsSound'
    BY <1>3 DEF LastIsSound, PartOf, Exists
  <2> QED  BY <1>2, <2>1, <2>2
<1>4. CASE BecomesTask
  <2>1. PICK j, n, action, state : \E kind \in Directions :
            /\ state \in {"queued", "skipped"}
            /\ copies' = Append(copies, NewCopy(j, kind, n, action, state))
    BY <1>4 DEF BecomesTask
  <2>2. PICK kind \in Directions :
            /\ state \in {"queued", "skipped"}
            /\ copies' = Append(copies, NewCopy(j, kind, n, action, state))
    BY <2>1
  <2> DEFINE c == NewCopy(j, kind, n, action, state)
  <2>3. /\ c.kind = kind /\ c.state = state /\ c.stage = "idle" /\ c.flight = {}
        /\ c.err = "none"
    BY NewRecord
  <2> HIDE DEF c
  <2>4. copies' = Append(copies, c)
    BY <2>2 DEF c
  <2>5. /\ Len(copies) \in Nat /\ DOMAIN copies = 1 .. Len(copies)
        /\ Len(copies') = Len(copies) + 1 /\ DOMAIN copies' = 1 .. Len(copies) + 1
        /\ copies'[Len(copies')] = c
        /\ \A t \in DOMAIN copies : copies'[t] = copies[t]
    BY <2>4, Appended DEF FormInv
  <2>6. Runs(c)
    BY <2>2, <2>3 DEF Runs
  <2>7. ASSUME NEW t \in DOMAIN copies'
        PROVE  Runs(copies'[t]) /\ (t # Len(copies') => Dormant(copies'[t]))
    <3>1. CASE t \in DOMAIN copies
      BY <2>5, <3>1 DEF LastIsAwake
    <3>2. CASE t \notin DOMAIN copies
      <4>1. t = Len(copies')
        BY <2>5, <3>2
      <4> QED  BY <2>5, <2>6, <4>1
    <3> QED  BY <3>1, <3>2
  <2>8. LastIsAwake'
    BY <2>7 DEF LastIsAwake
  <2>9. QuietWhileAsked'
    BY <1>4 DEF BecomesTask, QuietWhileAsked
  <2>10. PartIn(part', copies'[Len(copies')]) = <<>>
         /\ Sound(copies'[Len(copies')], <<>>)
    <3>1. FilesFormed(part') /\ OwnsIn(part', c) /\ PartIn(part', c) = <<>>
      BY <1>1, <2>3, NoFile DEF FormInv
    <3>2. Sound(c, <<>>)
      BY <2>3, SoundEmpty
    <3> QED  BY <2>5, <3>1, <3>2
  <2>11. LastIsSound'
    BY <2>10 DEF LastIsSound, PartOf, PartIn
  <2> QED  BY <1>2, <2>8, <2>9, <2>11
<1> QED  BY <1>3, <1>4

(* The steps of a request are such steps.                                        *)
LEMMA ProceedBecomes ==
    ASSUME NEW j, NEW action, Proceed(j, action), plans = <<>>, request' = 0, probes' = {}
    PROVE  copies' = copies \/ BecomesTask
<1>1. CASE action \in {"skip", "rename"}
  BY <1>1 DEF Proceed
<1>2. CASE action \notin {"skip", "rename"}
  <2>1. copies' = Append(copies, NewCopy(j, "upload", 1, action, "queued")) /\ plans' = plans
    BY <1>2 DEF Proceed
  <2> QED  BY <2>1 DEF BecomesTask, NothingAsked, Directions
<1> QED  BY <1>1, <1>2

LEMMA AskingSteps ==
    ASSUME RequestInv,
           \/ Quiet /\ UserBegins
           \/ CancelUpload
           \/ \E j \in Jobs : ProbeAnswered(j)
           \/ \E action : Decide(action)
           \/ \E i \in DOMAIN plans : FormInv /\ Planned(i)
    PROVE  /\ Quiet \/ ~NothingAsked
           /\ part' = part /\ final' = final
           /\ copies' = copies \/ BecomesTask
<1>1. ASSUME Quiet, NEW j \in Jobs, StartUpload(j)
      PROVE  part' = part /\ final' = final /\ (copies' = copies \/ BecomesTask)
  <2>1. part' = part /\ final' = final
    BY <1>1 DEF StartUpload
  <2>2. CASE policy = "ask"
    BY <1>1, <2>1, <2>2 DEF StartUpload
  <2>3. CASE policy # "ask"
    <3>1. Proceed(j, policy) /\ plans = <<>> /\ request' = 0 /\ probes' = {}
      BY <1>1, <2>3 DEF StartUpload, Quiet, NothingAsked, modalVars
    <3> QED  BY <2>1, <3>1, ProceedBecomes
  <2> QED  BY <2>2, <2>3
<1>2. ASSUME Quiet, NEW j \in Jobs, StartDownload(j)
      PROVE  part' = part /\ final' = final /\ (copies' = copies \/ BecomesTask)
  <2>1. /\ part' = part /\ final' = final /\ UNCHANGED <<request, probes, plans>>
        /\ copies' = Append(copies, NewCopy(j, "download", 1, "none", "queued"))
    BY <1>2 DEF StartDownload, modalVars
  <2> QED  BY <1>2, <2>1 DEF BecomesTask, Quiet, NothingAsked, Directions
<1>3. CASE CancelUpload
  BY <1>3 DEF CancelUpload, NothingAsked
<1>4. ASSUME NEW j \in Jobs, ProbeAnswered(j)
      PROVE  /\ ~NothingAsked /\ part' = part /\ final' = final
             /\ copies' = copies \/ BecomesTask
  <2>1. ~NothingAsked /\ part' = part /\ final' = final
    BY <1>4 DEF ProbeAnswered, NothingAsked
  <2>2. CASE copies' = copies
    BY <2>1, <2>2
  <2>3. CASE copies' # copies
    <3>1. /\ ~aborted /\ request' = 0 /\ Proceed(j, "none") /\ j \in probes
          /\ probes' = probes \ {j}
      BY <1>4, <2>3 DEF ProbeAnswered
    <3>2. probes' = {} /\ plans = <<>>
      BY <3>1 DEF RequestInv, ModalAsks
    <3> QED  BY <2>1, <3>1, <3>2, ProceedBecomes
  <2> QED  BY <2>2, <2>3
<1>5. ASSUME NEW action, Decide(action)
      PROVE  /\ ~NothingAsked /\ part' = part /\ final' = final
             /\ copies' = copies \/ BecomesTask
  <2>1. /\ ~NothingAsked /\ part' = part /\ final' = final
        /\ Proceed(request, action) /\ request' = 0 /\ probes' = {} /\ plans = <<>>
    BY <1>5 DEF Decide, NothingAsked, RequestInv, ModalAsks
  <2> QED  BY <2>1, ProceedBecomes
<1>6. ASSUME NEW i \in DOMAIN plans, FormInv, Planned(i)
      PROVE  /\ ~NothingAsked /\ part' = part /\ final' = final /\ BecomesTask
  <2>1. ~NothingAsked /\ part' = part /\ final' = final
    BY <1>6 DEF Planned, NothingAsked
  <2>2. NothingAsked'
    BY <1>6, PlansRequest DEF NothingAsked
  <2>3. \E j, n, action, state :
            /\ state \in {"queued", "skipped"}
            /\ copies' = Append(copies, NewCopy(j, "upload", n, action, state))
    BY <1>6 DEF Planned
  <2> QED  BY <2>1, <2>2, <2>3 DEF BecomesTask, Directions
<1> QED  BY <1>1, <1>2, <1>3, <1>4, <1>5, <1>6 DEF UserBegins

(* The last task moves.                                                          *)
LEMMA LastTaskAdvances ==
    ASSUME NEW t, Here(t), LandedWhole, GoesOn(t) \/ (copies[t].stage = "idle" /\ Again(t))
    PROVE  Advance(t) /\ LandedWhole'
<1>1. final' = final => LandedWhole'
  BY SameWhole
<1>2. CASE Pause(t) \/ CancelCopy(t) \/ (copies[t].stage = "idle" /\ Again(t)) \/ CopyStarts(t)
  BY <1>1, <1>2, OrderAdvances
<1>3. CASE Opened(t)
  BY <1>1, <1>3, OpenAdvances
<1>4. CASE \E b \in 1 .. Blocks : Transferred(t, b)
  BY <1>1, <1>4, BlockAdvances
<1>5. CASE \E m \in 1 .. Blocks : FailInOrder(t, m)
  BY <1>1, <1>5, FailureAdvances
<1>6. CASE WindowEnds(t) \/ LandingChecked(t) \/ CopyFails(t)
  BY <1>1, <1>6, WindowEndAdvances, CheckAdvances, FailureEndAdvances
<1>7. CASE Replaced(t) \/ Landed(t)
  BY <1>7, ReplaceAdvances, LandAdvances
<1> QED  BY <1>2, <1>3, <1>4, <1>5, <1>6, <1>7 DEF GoesOn, CopyStep

(* A task that is left alone can only be canceled, which leaves it alone.        *)
LEMMA DormantSteps ==
    ASSUME NEW t \in DOMAIN copies, Dormant(copies[t]), Runs(copies[t]),
           DOMAIN copies[t] = Fields, GoesOn(t)
    PROVE  /\ UNCHANGED <<part, final>>
           /\ \E c : /\ copies' = [copies EXCEPT ![t] = c]
                     /\ Dormant(c) /\ Runs(c)
<1> DEFINE k == copies[t]
           c == [k EXCEPT !.state = "canceled", !.cancel = k.stage # "idle"]
<1>1. k.stage = "idle" /\ k.state \notin {"queued", "running"} /\ k.flight = {}
  BY DEF Dormant, Runs
<1>2. CancelCopy(t)
  <2>1. ~Pause(t) /\ ~CopyStarts(t) /\ ~Opened(t) /\ ~WindowEnds(t) /\ ~LandingChecked(t)
        /\ ~Replaced(t) /\ ~Landed(t) /\ ~CopyFails(t)
    BY <1>1 DEF Pause, CopyStarts, Opened, WindowEnds, LandingChecked, Replaced, Landed,
                CopyFails
  <2>2. \A b \in 1 .. Blocks : ~Transferred(t, b)
    BY <1>1 DEF Transferred
  <2>3. \A S : ~RequestsFail(t, S)
    BY <1>1 DEF RequestsFail
  <2>4. \A m \in 1 .. Blocks : ~FailInOrder(t, m)
    BY <2>3 DEF FailInOrder
  <2> QED  BY <2>1, <2>2, <2>4 DEF GoesOn, CopyStep
<1>3. copies' = [copies EXCEPT ![t] = c] /\ UNCHANGED <<part, final>>
  BY <1>2 DEF CancelCopy, Ordered
<1>4. c.stage = k.stage /\ c.state = "canceled" /\ c.flight = k.flight /\ c.err = k.err
  BY DEF Fields
<1> HIDE DEF c
<1>5. Dormant(c) /\ Runs(c)
  BY <1>1, <1>4 DEF Dormant, Runs
<1> QED  BY <1>3, <1>5

LEMMA TaskStepCareful ==
    ASSUME CarefulInv, NEW t \in DOMAIN copies,
           \/ GoesOn(t)
           \/ NothingAsked /\ t = Len(copies) /\ copies[t].stage = "idle" /\ Again(t)
    PROVE  LastIsAwake' /\ QuietWhileAsked' /\ LastOwns' /\ LastIsSound' /\ LandedWhole'
<1>1. /\ FormInv /\ RequestInv /\ LastIsAwake /\ QuietWhileAsked /\ LastOwns /\ LastIsSound
      /\ LandedWhole
  BY DEF CarefulInv
<1>2. /\ DOMAIN copies[t] = Fields /\ copies[t].kind \in Directions /\ copies[t].job \in Jobs
      /\ Runs(copies[t])
  BY <1>1 DEF FormInv, CopiesFormed, RequestInv, LastIsAwake
<1>3. NothingAsked' <=> NothingAsked
  BY TaskStepFrame DEF TaskStep, NothingAsked, modalVars
<1>4. QuietWhileAsked'
  <2>1. CASE NothingAsked
    BY <1>3, <2>1 DEF QuietWhileAsked
  <2>2. CASE ~NothingAsked
    <3>1. /\ \A d \in Directions : DOMAIN part[d] = {}
          /\ \A u \in DOMAIN copies : Dormant(copies[u])
      BY <1>1, <2>2 DEF QuietWhileAsked
    <3>2. part' = part /\ \E c : copies' = [copies EXCEPT ![t] = c] /\ Dormant(c)
      BY <1>2, <2>2, <3>1, DormantSteps
    <3>3. PICK c : copies' = [copies EXCEPT ![t] = c] /\ Dormant(c)
      BY <3>2
    <3>4. /\ DOMAIN copies' = DOMAIN copies /\ copies'[t] = c
          /\ \A u \in DOMAIN copies : u # t => copies'[u] = copies[u]
      BY <1>1, <3>3, Replacing DEF FormInv
    <3>5. \A u \in DOMAIN copies' : Dormant(copies'[u])
      BY <3>1, <3>3, <3>4
    <3> QED  BY <3>1, <3>2, <3>5 DEF QuietWhileAsked
  <2> QED  BY <2>1, <2>2
<1>5. CASE t # Len(copies)
  <2>1. Dormant(copies[t]) /\ GoesOn(t)
    BY <1>1, <1>5 DEF LastIsAwake
  <2>2. part' = part /\ final' = final
    BY <1>2, <2>1, DormantSteps
  <2>3. PICK c : copies' = [copies EXCEPT ![t] = c] /\ Dormant(c) /\ Runs(c)
    BY <1>2, <2>1, DormantSteps
  <2>4. /\ Len(copies) \in Nat /\ DOMAIN copies = 1 .. Len(copies)
        /\ Len(copies') = Len(copies) /\ DOMAIN copies' = DOMAIN copies /\ copies'[t] = c
        /\ \A u \in DOMAIN copies : u # t => copies'[u] = copies[u]
    BY <1>1, <2>3, Replacing DEF FormInv
  <2>5. Len(copies) \in DOMAIN copies /\ copies'[Len(copies')] = copies[Len(copies)]
    BY <1>5, <2>4
  <2>6. ASSUME NEW u \in DOMAIN copies'
        PROVE  Runs(copies'[u]) /\ (u # Len(copies') => Dormant(copies'[u]))
    BY <1>1, <2>3, <2>4 DEF LastIsAwake
  <2>7. LastIsAwake'
    BY <2>6 DEF LastIsAwake
  <2>8. copies # <<>> /\ copies' # <<>>
    BY <1>1, <2>4, <2>5, LastOfNone DEF FormInv
  <2>9. LastOwns'
    BY <1>1, <2>2, <2>5, <2>8 DEF LastOwns
  <2>10. LastIsSound'
    BY <1>1, <2>2, <2>5, <2>8 DEF LastIsSound, PartOf, Exists
  <2>11. LandedWhole'
    BY <1>1, <2>2 DEF LandedWhole
  <2> QED  BY <1>4, <2>7, <2>9, <2>10, <2>11
<1>6. CASE t = Len(copies)
  <2>1. copies # <<>>
    OBVIOUS
  <2>2. OwnsIn(part, copies[t]) /\ Sound(copies[t], PartIn(part, copies[t]))
    <3>1. PartOf(copies[t]) = PartIn(part, copies[t])
      BY DEF PartOf, PartIn
    <3>2. OwnsIn(part, copies[t])
      BY <1>1, <1>6 DEF LastOwns, OwnsIn
    <3>3. Sound(copies[t], PartOf(copies[t]))
      BY <1>1, <1>6, <2>1 DEF LastIsSound
    <3> QED  BY <3>1, <3>2, <3>3
  <2>3. Here(t)
    BY <1>1, <1>2, <1>6, <2>2 DEF Here, FormInv
  <2>4. Advance(t) /\ LandedWhole'
    BY <1>1, <2>3, LastTaskAdvances
  <2>5. PICK c : /\ copies' = [copies EXCEPT ![t] = c]
                 /\ Runs(c) /\ OwnsIn(part', c) /\ Sound(c, PartIn(part', c))
    BY <2>4 DEF Advance
  <2>6. /\ Len(copies) \in Nat /\ DOMAIN copies = 1 .. Len(copies)
        /\ Len(copies') = Len(copies) /\ DOMAIN copies' = DOMAIN copies /\ copies'[t] = c
        /\ \A u \in DOMAIN copies : u # t => copies'[u] = copies[u]
    BY <1>1, <2>5, Replacing DEF FormInv
  <2>7. copies'[Len(copies')] = c /\ copies' # <<>>
    BY <1>6, <2>6
  <2>8. LastIsAwake'
    BY <1>1, <1>6, <2>5, <2>6 DEF LastIsAwake
  <2>9. LastOwns'
    BY <2>5, <2>7 DEF LastOwns, OwnsIn
  <2>10. LastIsSound'
    <3>1. Sound(copies'[Len(copies')], PartIn(part', copies'[Len(copies')]))
      BY <2>5, <2>7
    <3> QED  BY <3>1 DEF LastIsSound, PartOf, PartIn
  <2> QED  BY <1>4, <2>4, <2>8, <2>9, <2>10
<1> QED  BY <1>5, <1>6

LEMMA CarefulStep == CarefulInv /\ [CarefulCopyNext]_copyVars => CarefulInv'
<1> SUFFICES ASSUME CarefulInv, [CarefulCopyNext]_copyVars PROVE CarefulInv'
  OBVIOUS
<1>1. /\ FormInv /\ RequestInv /\ LastIsAwake /\ QuietWhileAsked /\ LastOwns /\ LastIsSound
      /\ LandedWhole
  BY DEF CarefulInv
<1>2. FormInv' /\ RequestInv'
  BY <1>1, CarefulIsCopy, StepShape, ShapeKeeps, RequestStepKeeps
<1> SUFFICES LastIsAwake' /\ QuietWhileAsked' /\ LastOwns' /\ LastIsSound' /\ LandedWhole'
  BY <1>2 DEF CarefulInv
<1>3. ASSUME \/ Quiet /\ UserBegins
             \/ CancelUpload
             \/ \E j \in Jobs : ProbeAnswered(j)
             \/ \E action : Decide(action)
             \/ \E i \in DOMAIN plans : FormInv /\ Planned(i)
      PROVE  LastIsAwake' /\ QuietWhileAsked' /\ LastOwns' /\ LastIsSound' /\ LandedWhole'
  <2>1. /\ Quiet \/ ~NothingAsked
        /\ part' = part /\ final' = final
        /\ copies' = copies \/ BecomesTask
    BY <1>1, <1>3, AskingSteps
  <2>2. /\ \A d \in Directions : DOMAIN part[d] = {}
        /\ \A t \in DOMAIN copies : Dormant(copies[t])
    BY <1>1, <2>1 DEF QuietWhileAsked, Quiet, LastIsAwake, Runs, Dormant
  <2>3. LandedWhole'
    BY <1>1, <2>1 DEF LandedWhole
  <2> QED  BY <1>1, <1>2, <2>1, <2>2, <2>3, AskingKeeps
<1>4. ASSUME NEW n \in Names, OtherWrites(n)
      PROVE  LastIsAwake' /\ QuietWhileAsked' /\ LastOwns' /\ LastIsSound' /\ LandedWhole'
  <2>1. /\ UNCHANGED <<request, probes, plans, copies, part>>
        /\ final' = With(final, "upload", n, Foreign)
    BY <1>4 DEF OtherWrites, modalVars
  <2>2. LastIsAwake' /\ QuietWhileAsked' /\ LastOwns'
    BY <1>1, <2>1 DEF LastIsAwake, QuietWhileAsked, NothingAsked, LastOwns, Dormant, Runs
  <2>3. LastIsSound'
    BY <1>1, <2>1 DEF LastIsSound, PartOf, Exists
  <2>4. ASSUME NEW d \in Directions, NEW m \in DOMAIN final'[d]
        PROVE  \/ m \in DOMAIN final[d] /\ final'[d][m] = final[d][m]
               \/ \E j \in 1 .. MaxJobs + 1 : final'[d][m] = [b \in 1 .. Blocks |-> j]
    <3>1. FilesFormed(final) /\ "upload" \in Directions
      BY <1>1 DEF FormInv, Directions
    <3>2. /\ DOMAIN final'["upload"] = DOMAIN final["upload"] \cup {n}
          /\ final'["upload"][n] = Foreign
          /\ \A i \in DOMAIN final["upload"] : i # n =>
                 final'["upload"][i] = final["upload"][i]
          /\ \A e \in Directions \ {"upload"} : final'[e] = final[e]
      BY <2>1, <3>1, WithFile
    <3>3. MaxJobs + 1 \in 1 .. MaxJobs + 1
      BY Bounds
    <3>4. Foreign = [b \in 1 .. Blocks |-> MaxJobs + 1]
      BY DEF Foreign
    <3>5. CASE d = "upload" /\ m = n
      BY <3>2, <3>3, <3>4, <3>5
    <3>6. CASE ~(d = "upload" /\ m = n)
      BY <3>2, <3>6
    <3> QED  BY <3>5, <3>6
  <2>5. LandedWhole'
    BY <1>1, <2>4, WholeStays
  <2> QED  BY <2>2, <2>3, <2>5
<1>5. ASSUME NEW t \in DOMAIN copies,
             \/ GoesOn(t)
             \/ NothingAsked /\ t = Len(copies) /\ copies[t].stage = "idle" /\ Again(t)
      PROVE  LastIsAwake' /\ QuietWhileAsked' /\ LastOwns' /\ LastIsSound' /\ LandedWhole'
  BY <1>5, TaskStepCareful
<1>6. CASE UNCHANGED copyVars
  <2>1. UNCHANGED <<request, probes, plans, copies, part, final>>
    BY <1>6 DEF copyVars, modalVars
  <2>2. LastIsAwake' /\ QuietWhileAsked' /\ LastOwns' /\ LandedWhole'
    BY <1>1, <2>1 DEF LastIsAwake, QuietWhileAsked, NothingAsked, LastOwns, LandedWhole,
                      Dormant, Runs
  <2>3. LastIsSound'
    BY <1>1, <2>1 DEF LastIsSound, PartOf, Exists
  <2> QED  BY <2>2, <2>3
<1> QED  BY <1>1, <1>3, <1>4, <1>5, <1>6 DEF CarefulCopyNext, RequestStep, GoesOn

LEMMA CarefulInit == CopyInit => CarefulInv
<1> SUFFICES ASSUME CopyInit PROVE CarefulInv
  OBVIOUS
<1>1. /\ request = 0 /\ probes = {} /\ plans = <<>> /\ copies = <<>>
      /\ part = [d \in Directions |-> [n \in {} |-> <<>>]]
  BY DEF CopyInit
<1>2. DOMAIN copies = {} /\ \A d \in Directions : DOMAIN part[d] = {}
  BY <1>1
<1>3. LastIsAwake /\ QuietWhileAsked /\ LastOwns /\ LastIsSound
  BY <1>1, <1>2 DEF LastIsAwake, QuietWhileAsked, LastOwns, LastIsSound
<1>4. LandedWhole
  <2>1. PICK taken \in {{}, {1}} :
            final = [d \in Directions |-> [n \in IF d = "upload" THEN taken ELSE {} |-> Foreign]]
    BY DEF CopyInit
  <2>2. MaxJobs + 1 \in 1 .. MaxJobs + 1
    BY Bounds
  <2>3. \A d \in Directions : \A n \in DOMAIN final[d] : final[d][n] = Foreign
    BY <2>1
  <2> QED  BY <2>2, <2>3 DEF LandedWhole, Foreign
<1> QED  BY <1>3, <1>4, FormInit, RequestInit DEF CarefulInv

(* The strengthened invariant of the contents: gaps only where a request is      *)
(* under way.                                                                    *)
THEOREM CarefulInvariance == CarefulCopySpec => []CarefulInv
<1> QED  BY CarefulInit, CarefulStep, PTL DEF CarefulCopySpec

(* For files of any size, any window of requests, any number of jobs, orders and *)
(* failures: what bears a final name is a whole copy of one source, however it   *)
(* was paused, canceled, lost, resumed or retried.  The user is one who does not *)
(* ask for a name anew while work for it is left, and requests fail from the     *)
(* last one on: without either the size of a .part file does not say how far it  *)
(* has come (resolveResume, TransferWorker.ts).                                  *)
THEOREM LandedWholeHolds == CarefulCopySpec => []LandedWhole
BY CarefulInvariance, PTL DEF CarefulInv

-------------------------------------------------------------------------------
(* A request has a number of its own, and the one that counts is for the directory *)
(* the panel shows or the user asked for; during a change, for the one it began in.*)
WishInv ==
    /\ loads \in Nat
    /\ \A r \in requests : DOMAIN r = {"n", "dir", "silent", "waited", "list"} /\ r.n \in 1..loads
    /\ \A r, q \in requests : r.n = q.n => r = q
    /\ \A r \in requests : IsLatest(r) => r.dir \in {cwd, wish}
    /\ change # NoDir =>
          change = cwd /\ \A r \in requests : IsLatest(r) => r.dir = cwd

(* A directory is asked for.                                                       *)
LEMMA LoadKeeps ==
    ASSUME WishInv, NEW dir, NEW silent, Load(dir, silent), cwd' = cwd,
           dir \in {cwd, wish'}, change' # NoDir => change' = cwd /\ dir = cwd
    PROVE  WishInv'
<1> DEFINE new == [n |-> loads + 1, dir |-> dir, silent |-> silent, waited |-> Loading,
                   list |-> Unread]
<1>1. loads' = loads + 1 /\ requests' = requests \cup {new}
  BY DEF Load
<1>2. /\ DOMAIN new = {"n", "dir", "silent", "waited", "list"}
      /\ new.n = loads + 1 /\ new.dir = dir
  OBVIOUS
<1> HIDE DEF new
<1>3. loads' \in Nat /\ \A r \in requests' :
          /\ DOMAIN r = {"n", "dir", "silent", "waited", "list"}
          /\ r.n \in 1..loads' /\ (r.n = loads' => r = new)
  BY <1>1, <1>2 DEF WishInv
<1>4. \A r, q \in requests' : r.n = q.n => r = q
  <2> SUFFICES ASSUME NEW r \in requests', NEW q \in requests', r.n = q.n PROVE r = q
    OBVIOUS
  <2>1. CASE r.n = loads'
    BY <1>3, <2>1
  <2>2. CASE r.n # loads'
    <3>1. r \in requests /\ q \in requests
      BY <1>1, <1>2, <2>2
    <3> QED  BY <3>1 DEF WishInv
  <2> QED  BY <2>1, <2>2
<1>5. \A r \in requests' : IsLatest(r)' => r.dir = dir
  BY <1>2, <1>3 DEF IsLatest
<1> QED  BY <1>3, <1>4, <1>5 DEF WishInv

(* One is answered, or all are given up.                                           *)
LEMMA FewerLoadsKeep ==
    ASSUME WishInv, requests' \subseteq requests, UNCHANGED <<loads, wish, change>>,
           \/ cwd' = cwd
           \/ /\ \A r \in requests' : ~IsLatest(r)
              /\ change # NoDir => cwd' = cwd
    PROVE  WishInv'
BY DEF WishInv, IsLatest

LEMMA CheckedKeeps ==
    ASSUME WishInv, NEW new, NEW w, Checked(new, w), UNCHANGED <<cwd, change, wish>>
    PROVE  WishInv'
<1>1. CASE Load(cwd, FALSE)
  BY <1>1, LoadKeeps DEF WishInv
<1>2. CASE UNCHANGED <<loads, requests>>
  BY <1>2 DEF WishInv, IsLatest
<1> QED  BY <1>1, <1>2 DEF Checked

LEMMA WishStep == WishInv /\ [PanelNext]_panelVars => WishInv' /\ cwd' \in {cwd, wish, NoDir}
<1> SUFFICES ASSUME WishInv, [PanelNext]_panelVars
             PROVE  WishInv' /\ cwd' \in {cwd, wish, NoDir}
  OBVIOUS
<1>1. ASSUME UNCHANGED <<loads, requests, cwd, wish, change>>
      PROVE  WishInv' /\ cwd' \in {cwd, wish, NoDir}
  BY <1>1 DEF WishInv, IsLatest
<1>2. ASSUME NEW t \in Uploads, TaskEnds(t) PROVE WishInv' /\ cwd' \in {cwd, wish, NoDir}
  BY <1>1, <1>2 DEF TaskEnds
<1>3. CASE FlushStates
  BY <1>1, <1>3 DEF FlushStates
<1>4. CASE MessageArrives
  <2>1. UNCHANGED <<cwd, change, wish>> /\ \E new, w : Checked(new, w)
    BY <1>4 DEF MessageArrives
  <2> QED  BY <2>1, CheckedKeeps
<1>5. CASE SettleTimesOut
  <2>1. UNCHANGED <<cwd, change, wish>> /\ Load(cwd, FALSE)
    BY <1>5 DEF SettleTimesOut
  <2> QED  BY <2>1, LoadKeeps DEF WishInv
<1>6. CASE PageStarts
  BY <1>1, <1>6 DEF PageStarts
<1>7. CASE ChangeEnds
  <2>1. /\ change # NoDir /\ change' = NoDir /\ UNCHANGED <<cwd, wish>>
        /\ Load(change, FALSE) \/ UNCHANGED <<loads, requests>>
    BY <1>7 DEF ChangeEnds
  <2>2. CASE Load(change, FALSE)
    BY <2>1, <2>2, LoadKeeps DEF WishInv
  <2>3. CASE UNCHANGED <<loads, requests>>
    BY <2>1, <2>3 DEF WishInv, IsLatest
  <2> QED  BY <2>1, <2>2, <2>3
<1>8. ASSUME NEW r \in requests, DirectoryRead(r) PROVE WishInv' /\ cwd' \in {cwd, wish, NoDir}
  <2> DEFINE q == [r EXCEPT !.list = {t \in landed : target[t] = r.dir}]
  <2>1. requests' = (requests \ {r}) \cup {q} /\ UNCHANGED <<loads, cwd, wish, change>>
    BY <1>8 DEF DirectoryRead
  <2>2. DOMAIN r = {"n", "dir", "silent", "waited", "list"}
    BY DEF WishInv
  <2>3. DOMAIN q = {"n", "dir", "silent", "waited", "list"} /\ q.n = r.n /\ q.dir = r.dir
    BY <2>2
  <2> HIDE DEF q
  <2>4. \A p \in requests' : p.n = r.n => p = q
    BY <2>1, <2>3 DEF WishInv
  <2>5. \A p \in requests' : p = q \/ p \in requests
    BY <2>1
  <2>6. \A p1, p2 \in requests' : p1.n = p2.n => p1 = p2
    BY <2>3, <2>4, <2>5 DEF WishInv
  <2>7. /\ \A p \in requests' : p.n \in 1..loads /\ DOMAIN p = {"n", "dir", "silent", "waited", "list"}
        /\ \A p \in requests' : IsLatest(p) => p.dir \in {cwd, wish}
        /\ change # NoDir => \A p \in requests' : IsLatest(p) => p.dir = cwd
    BY <2>3, <2>5 DEF WishInv, IsLatest
  <2> QED  BY <2>1, <2>6, <2>7 DEF WishInv, IsLatest
<1>9. ASSUME NEW r \in requests, LoadSucceeds(r) PROVE WishInv' /\ cwd' \in {cwd, wish, NoDir}
  <2>1. /\ requests' = requests \ {r} /\ UNCHANGED <<loads, wish, change>>
        /\ IF IsLatest(r) THEN cwd' = r.dir ELSE cwd' = cwd
    BY <1>9 DEF LoadSucceeds
  <2>2. CASE IsLatest(r)
    <3>1. r.dir \in {cwd, wish} /\ (change # NoDir => r.dir = cwd)
      BY <2>2 DEF WishInv
    <3>2. \A p \in requests' : ~IsLatest(p)
      BY <2>1, <2>2 DEF WishInv, IsLatest
    <3> QED  BY <2>1, <2>2, <3>1, <3>2, FewerLoadsKeep
  <2>3. CASE ~IsLatest(r)
    BY <2>1, <2>3, FewerLoadsKeep
  <2> QED  BY <2>2, <2>3
<1>10. ASSUME NEW r \in requests, LoadFails(r) PROVE WishInv' /\ cwd' \in {cwd, wish, NoDir}
  BY <1>10, FewerLoadsKeep DEF LoadFails
<1>11. ASSUME NEW t \in Uploads, NEW dir \in Dirs, Upload(t, dir)
       PROVE  WishInv' /\ cwd' \in {cwd, wish, NoDir}
  BY <1>1, <1>11 DEF Upload
<1>12. ASSUME NEW t \in Uploads, RetryUpload(t) PROVE WishInv' /\ cwd' \in {cwd, wish, NoDir}
  BY <1>1, <1>12 DEF RetryUpload
<1>13. ASSUME NEW dir \in Dirs, NEW silent \in BOOLEAN, Navigate(dir, silent)
       PROVE  WishInv' /\ cwd' \in {cwd, wish, NoDir}
  <2>1. change = NoDir /\ wish' = dir /\ Load(dir, silent) /\ UNCHANGED <<cwd, change>>
    BY <1>13 DEF Navigate
  <2> QED  BY <2>1, LoadKeeps
<1>14. CASE ChangeBegins
  <2>1. ~Loading /\ change' = cwd /\ UNCHANGED <<loads, requests, cwd, wish>>
    BY <1>14 DEF ChangeBegins
  <2> QED  BY <2>1 DEF WishInv, IsLatest, Loading
<1>15. CASE Clear
  BY <1>1, <1>15 DEF Clear
<1>16. CASE PageCrashes
  <2>1. requests' = {} /\ change' = NoDir /\ cwd' = NoDir /\ UNCHANGED <<loads, wish>>
    BY <1>16 DEF PageCrashes
  <2> QED  BY <2>1 DEF WishInv
<1>17. CASE UNCHANGED panelVars
  BY <1>1, <1>17 DEF panelVars
<1> QED  BY <1>2, <1>3, <1>4, <1>5, <1>6, <1>7, <1>8, <1>9, <1>10, <1>11, <1>12, <1>13,
            <1>14, <1>15, <1>16, <1>17 DEF PanelNext, PanelProgress

(* A reply that comes late, or after the user went elsewhere, does not take the    *)
(* panel with it, for any number of uploads, directories and acts: the request     *)
(* that counts (loadSeqRef, SftpPane.tsx) is for the directory shown or wished for.*)
THEOREM GoesWhereAskedHolds == PanelSpec => GoesWhereAsked
<1>1. PanelInit => WishInv
  BY DEF PanelInit, WishInv
<1>2. WishInv /\ [PanelNext]_panelVars => [cwd' \in {cwd, wish, NoDir}]_panelVars
  BY WishStep
<1> QED  BY <1>1, <1>2, WishStep, PTL DEF PanelSpec, GoesWhereAsked

-------------------------------------------------------------------------------
RowStates == {"none", "active"} \cup Over

(* What is on its way carries rows, and what a listing read are uploads.           *)
MailFormed ==
    /\ \E S : mail \in Seq(S)
    /\ \A i \in DOMAIN mail : \A t \in DOMAIN mail[i].rows : mail[i].rows[t] \in RowStates

RequestsFormed ==
    \A r \in requests :
        /\ DOMAIN r = {"n", "dir", "silent", "waited", "list"}
        /\ r.n \in 1 .. loads /\ r.dir \in Dirs \cup {NoDir}
        /\ r.list = Unread \/ r.list \subseteq Uploads

WindowInv == PanelTypeOK /\ MailFormed /\ RequestsFormed /\ loads \in Nat

LEMMA SnapshotRows ==
    ASSUME PanelTypeOK, NEW S \in SUBSET Uploads
    PROVE  \A t \in DOMAIN Snapshot(S) : Snapshot(S)[t] \in RowStates
BY DEF Snapshot, PanelTypeOK, RowStates

LEMMA SendForms ==
    ASSUME MailFormed, NEW m, Send(m), \A t \in DOMAIN m.rows : m.rows[t] \in RowStates
    PROVE  MailFormed'
<1>1. CASE mail' = mail
  BY <1>1 DEF MailFormed
<1>2. CASE mail' = Append(mail, m)
  <2>1. PICK S : mail \in Seq(S)
    BY DEF MailFormed
  <2>2. mail \in Seq(S \cup {m})
    <3>1. mail \in [1 .. Len(mail) -> S] /\ Len(mail) \in Nat
      BY <2>1
    <3>2. mail \in [1 .. Len(mail) -> S \cup {m}]
      BY <3>1
    <3> QED  BY <3>1, <3>2
  <2>3. mail' \in Seq(S \cup {m}) /\ DOMAIN mail' = 1 .. Len(mail) + 1
    BY <1>2, <2>2
  <2>4. \A i \in DOMAIN mail' : mail'[i] = m \/ (i \in DOMAIN mail /\ mail'[i] = mail[i])
    BY <1>2, <2>2, <2>3
  <2> QED  BY <2>3, <2>4 DEF MailFormed
<1> QED  BY <1>1, <1>2 DEF Send

LEMMA LoadForms ==
    ASSUME RequestsFormed, loads \in Nat, error \in BOOLEAN,
           NEW dir \in Dirs \cup {NoDir}, NEW silent \in BOOLEAN, Load(dir, silent)
    PROVE  RequestsFormed' /\ loads' \in Nat /\ error' \in BOOLEAN
<1> DEFINE new == [n |-> loads + 1, dir |-> dir, silent |-> silent, waited |-> Loading,
                   list |-> Unread]
<1>1. loads' = loads + 1 /\ requests' = requests \cup {new} /\ error' = (error /\ silent)
  BY DEF Load
<1>2. /\ DOMAIN new = {"n", "dir", "silent", "waited", "list"}
      /\ new.n = loads + 1 /\ new.dir = dir /\ new.list = Unread
  OBVIOUS
<1> HIDE DEF new
<1>3. \A r \in requests' : r = new \/ r \in requests
  BY <1>1
<1>4. RequestsFormed'
  BY <1>1, <1>2, <1>3 DEF RequestsFormed
<1> QED  BY <1>1, <1>4

LEMMA CheckedForms ==
    ASSUME WindowInv, NEW new, NEW w, w \in [Uploads -> {"no", "subscribed", "asked", "seen"}],
           Checked(new, w)
    PROVE  /\ RequestsFormed' /\ loads' \in Nat /\ error' \in BOOLEAN
           /\ watch' \in [Uploads -> {"no", "subscribed", "asked", "seen"}]
<1>1. watch' \in [Uploads -> {"no", "subscribed", "asked", "seen"}]
  BY DEF Checked
<1>2. CASE Load(cwd, FALSE)
  BY <1>1, <1>2, LoadForms DEF WindowInv, PanelTypeOK
<1>3. CASE UNCHANGED <<loads, requests, error>>
  BY <1>1, <1>3 DEF WindowInv, PanelTypeOK, RequestsFormed
<1> QED  BY <1>2, <1>3 DEF Checked

LEMMA FewerForm ==
    ASSUME RequestsFormed, requests' \subseteq requests, loads' = loads
    PROVE  RequestsFormed'
BY DEF RequestsFormed

LEMMA WindowInvInit == PanelInit => WindowInv
<1> SUFFICES ASSUME PanelInit PROVE WindowInv
  OBVIOUS
<1>1. PanelTypeOK
  <2>1. /\ entry \in [Uploads -> {"none", "active"} \cup Over]
        /\ target \in [Uploads -> Dirs \cup {NoDir}]
        /\ rows \in [Uploads -> {"none", "active"} \cup Over]
        /\ watch \in [Uploads -> {"no", "subscribed", "asked", "seen"}]
    BY DEF PanelInit
  <2>2. acts \in 0 .. MaxActs /\ error \in BOOLEAN
    <3>1. acts = 0 /\ MaxActs \in Nat
      BY PanelAssumption DEF PanelInit
    <3>2. error \in BOOLEAN
      BY DEF PanelInit
    <3> QED  BY <3>1, <3>2
  <2> QED  BY <2>1, <2>2, PanelAssumption DEF PanelInit, PanelTypeOK
<1>2. MailFormed
  <2>1. mail = <<>> /\ <<>> \in Seq({}) /\ DOMAIN <<>> = {}
    BY DEF PanelInit
  <2> QED  BY <2>1 DEF MailFormed
<1> QED  BY <1>1, <1>2 DEF WindowInv, PanelInit, RequestsFormed

LEMMA MessageForms == WindowInv /\ MessageArrives => WindowInv'
<1> SUFFICES ASSUME WindowInv, MessageArrives PROVE WindowInv'
  OBVIOUS
<1> DEFINE m == Head(mail)
<1>1. /\ mail # <<>> /\ mail' = Tail(mail)
      /\ UNCHANGED <<entry, target, landed, buffer, page, cwd, listing, change, acts, wish, again>>
  BY DEF MessageArrives
<1>2. PICK S : mail \in Seq(S)
  BY DEF WindowInv, MailFormed
<1>3. /\ 1 \in DOMAIN mail /\ m = mail[1] /\ mail' \in Seq(S)
      /\ \A i \in DOMAIN mail' : i + 1 \in DOMAIN mail /\ mail'[i] = mail[i + 1]
  BY <1>1, <1>2
<1>4. MailFormed' /\ \A t \in DOMAIN m.rows : m.rows[t] \in RowStates
  BY <1>3 DEF WindowInv, MailFormed
<1> HIDE DEF m
<1>5. rows \in [Uploads -> RowStates] /\ watch \in [Uploads -> {"no", "subscribed", "asked", "seen"}]
  BY DEF WindowInv, PanelTypeOK, RowStates
<1>6. /\ Upserted(m) \in [Uploads -> RowStates]
      /\ Inserted(m) \in [Uploads -> RowStates]
      /\ Uncleared \in [Uploads -> RowStates]
  BY <1>4, <1>5 DEF Upserted, Inserted, Uncleared, RowStates
<1>7. rows' \in [Uploads -> RowStates] /\ \E new, w :
          w \in [Uploads -> {"no", "subscribed", "asked", "seen"}] /\ Checked(new, w)
  <2>1. \A t \in DOMAIN m.rows : Asked(t) \in [Uploads -> {"no", "subscribed", "asked", "seen"}]
    BY <1>5 DEF Asked
  <2>2. \/ rows' = Upserted(m) /\ Checked(rows', watch)
        \/ rows' = Inserted(m) /\ Checked(rows', watch)
        \/ rows' = Uncleared /\ Checked(rows', watch)
        \/ rows' = rows /\ \E t \in DOMAIN m.rows : Checked(rows, Asked(t))
    BY DEF MessageArrives, m
  <2> QED  BY <1>5, <1>6, <2>1, <2>2
<1>8. /\ RequestsFormed' /\ loads' \in Nat /\ error' \in BOOLEAN
      /\ watch' \in [Uploads -> {"no", "subscribed", "asked", "seen"}]
  BY <1>7, CheckedForms
<1>9. PanelTypeOK'
  BY <1>1, <1>7, <1>8 DEF WindowInv, PanelTypeOK, RequestsFormed, RowStates
<1> QED  BY <1>4, <1>8, <1>9 DEF WindowInv

LEMMA WindowInvStep == WindowInv /\ [PanelNext]_panelVars => WindowInv'
<1> SUFFICES ASSUME WindowInv, [PanelNext]_panelVars PROVE WindowInv'
  OBVIOUS
<1> USE PanelAssumption
<1>1. ASSUME NEW t \in Uploads, TaskEnds(t) PROVE WindowInv'
  BY <1>1 DEF TaskEnds, BecomesState, WindowInv, PanelTypeOK, MailFormed, RequestsFormed, Over
<1>2. CASE FlushStates
  <2>1. MailFormed'
    <3>1. CASE UNCHANGED mail
      BY <3>1 DEF WindowInv, MailFormed
    <3>2. CASE Send([kind |-> "states", rows |-> Snapshot(buffer)])
      <4>1. buffer \subseteq Uploads
        BY DEF WindowInv, PanelTypeOK
      <4> QED  BY <3>2, <4>1, SnapshotRows, SendForms DEF WindowInv
    <3> QED  BY <1>2, <3>1, <3>2 DEF FlushStates
  <2> QED  BY <1>2, <2>1 DEF FlushStates, WindowInv, PanelTypeOK, RequestsFormed
<1>3. CASE MessageArrives
  BY <1>3, MessageForms
<1>4. CASE SettleTimesOut
  <2>1. Load(cwd, FALSE)
    BY <1>4 DEF SettleTimesOut
  <2>2. RequestsFormed' /\ loads' \in Nat /\ error' \in BOOLEAN
    BY <2>1, LoadForms DEF WindowInv, PanelTypeOK
  <2> QED  BY <1>4, <2>2 DEF SettleTimesOut, WindowInv, PanelTypeOK, MailFormed, RequestsFormed
<1>5. CASE PageStarts
  <2> DEFINE m == [kind |-> "list", rows |-> Snapshot(Uploads)]
  <2>1. mail' = <<m>> /\ <<m>> \in Seq({m}) /\ DOMAIN <<m>> = {1} /\ <<m>>[1] = m
    BY <1>5 DEF PageStarts
  <2>2. \A t \in DOMAIN m.rows : m.rows[t] \in RowStates
    BY SnapshotRows DEF WindowInv
  <2> HIDE DEF m
  <2>3. MailFormed'
    BY <2>1, <2>2 DEF MailFormed
  <2> QED  BY <1>5, <2>3 DEF PageStarts, WindowInv, PanelTypeOK, RequestsFormed
<1>6. CASE ChangeEnds
  <2>1. RequestsFormed' /\ loads' \in Nat /\ error' \in BOOLEAN
    <3>1. CASE Load(change, FALSE)
      BY <3>1, LoadForms DEF WindowInv, PanelTypeOK
    <3>2. CASE UNCHANGED <<loads, requests, error>>
      BY <3>2 DEF WindowInv, PanelTypeOK, RequestsFormed
    <3> QED  BY <1>6, <3>1, <3>2 DEF ChangeEnds
  <2> QED  BY <1>6, <2>1 DEF ChangeEnds, WindowInv, PanelTypeOK, MailFormed, RequestsFormed
<1>7. ASSUME NEW r \in requests, DirectoryRead(r) PROVE WindowInv'
  <2> DEFINE q == [r EXCEPT !.list = {t \in landed : target[t] = r.dir}]
  <2>1. requests' = (requests \ {r}) \cup {q} /\ loads' = loads
    BY <1>7 DEF DirectoryRead
  <2>2. DOMAIN r = {"n", "dir", "silent", "waited", "list"} /\ landed \subseteq Uploads
    BY DEF WindowInv, RequestsFormed, PanelTypeOK
  <2>3. /\ DOMAIN q = {"n", "dir", "silent", "waited", "list"} /\ q.n = r.n /\ q.dir = r.dir
        /\ q.list \subseteq Uploads
    BY <2>2
  <2> HIDE DEF q
  <2>4. \A p \in requests' : p = q \/ p \in requests
    BY <2>1
  <2>5. RequestsFormed'
    BY <2>1, <2>3, <2>4 DEF WindowInv, RequestsFormed
  <2> QED  BY <1>7, <2>5 DEF DirectoryRead, WindowInv, PanelTypeOK, MailFormed, RequestsFormed
<1>8. ASSUME NEW r \in requests, LoadSucceeds(r) PROVE WindowInv'
  <2>1. RequestsFormed'
    BY <1>8, FewerForm DEF LoadSucceeds, WindowInv
  <2>2. cwd' \in Dirs \cup {NoDir} /\ listing' \subseteq Uploads /\ error' \in BOOLEAN
    BY <1>8, ZenonT(60) DEF LoadSucceeds, WindowInv, PanelTypeOK, RequestsFormed
  <2> QED  BY <1>8, <2>1, <2>2 DEF LoadSucceeds, WindowInv, PanelTypeOK, MailFormed, RequestsFormed
<1>9. ASSUME NEW r \in requests, LoadFails(r) PROVE WindowInv'
  <2>1. RequestsFormed'
    BY <1>9, FewerForm DEF LoadFails, WindowInv
  <2>2. error' \in BOOLEAN
    BY <1>9 DEF LoadFails, WindowInv, PanelTypeOK
  <2> QED  BY <1>9, <2>1, <2>2 DEF LoadFails, WindowInv, PanelTypeOK, MailFormed, RequestsFormed
<1>10. ASSUME NEW t \in Uploads, NEW dir \in Dirs, Upload(t, dir) PROVE WindowInv'
  <2>1. MailFormed'
    <3> DEFINE m == [kind |-> "enqueued", rows |-> [u \in {t} |-> "active"]]
    <3>1. \A u \in DOMAIN m.rows : m.rows[u] \in RowStates
      BY DEF RowStates
    <3>2. Send(m)
      BY <1>10 DEF Upload
    <3> QED  BY <3>1, <3>2, SendForms DEF WindowInv
  <2> QED  BY <1>10, <2>1 DEF Upload, Acts, BecomesState, WindowInv, PanelTypeOK, RequestsFormed
<1>11. ASSUME NEW t \in Uploads, RetryUpload(t) PROVE WindowInv'
  BY <1>11 DEF RetryUpload, Acts, BecomesState, WindowInv, PanelTypeOK, MailFormed, RequestsFormed
<1>12. ASSUME NEW dir \in Dirs, NEW silent \in BOOLEAN, Navigate(dir, silent) PROVE WindowInv'
  <2>1. RequestsFormed' /\ loads' \in Nat /\ error' \in BOOLEAN
    BY <1>12, LoadForms DEF WindowInv, PanelTypeOK, Navigate
  <2> QED  BY <1>12, <2>1 DEF Navigate, Acts, WindowInv, PanelTypeOK, MailFormed, RequestsFormed
<1>13. CASE ChangeBegins
  BY <1>13 DEF ChangeBegins, Acts, WindowInv, PanelTypeOK, MailFormed, RequestsFormed
<1>14. CASE Clear
  <2>1. MailFormed'
    <3> DEFINE m == [kind |-> "cleared", rows |-> <<>>]
    <3>1. \A u \in DOMAIN m.rows : m.rows[u] \in RowStates
      OBVIOUS
    <3>2. Send(m)
      BY <1>14 DEF Clear
    <3> QED  BY <3>1, <3>2, SendForms DEF WindowInv
  <2>2. entry' \in [Uploads -> {"none", "active"} \cup Over]
    BY <1>14 DEF Clear, WindowInv, PanelTypeOK
  <2> QED  BY <1>14, <2>1, <2>2 DEF Clear, Acts, WindowInv, PanelTypeOK, RequestsFormed
<1>15. CASE PageCrashes
  <2>1. mail' = <<>> /\ <<>> \in Seq({}) /\ DOMAIN <<>> = {} /\ requests' = {}
    BY <1>15 DEF PageCrashes
  <2>2. MailFormed' /\ RequestsFormed'
    BY <2>1 DEF MailFormed, RequestsFormed
  <2>3. /\ rows' \in [Uploads -> {"none", "active"} \cup Over]
        /\ watch' \in [Uploads -> {"no", "subscribed", "asked", "seen"}]
    BY <1>15 DEF PageCrashes
  <2>4. acts' \in 0 .. MaxActs
    BY <1>15 DEF PageCrashes, Acts, WindowInv, PanelTypeOK
  <2> QED  BY <1>15, <2>1, <2>2, <2>3, <2>4 DEF PageCrashes, WindowInv, PanelTypeOK, RequestsFormed
<1>16. CASE UNCHANGED panelVars
  BY <1>16 DEF panelVars, WindowInv, PanelTypeOK, MailFormed, RequestsFormed
<1> QED  BY <1>1, <1>2, <1>3, <1>4, <1>5, <1>6, <1>7, <1>8, <1>9, <1>10, <1>11, <1>12, <1>13,
            <1>14, <1>15, <1>16 DEF PanelNext, PanelProgress

(* The list of the window holds states of tasks and the panel a directory or none, *)
(* whatever batches, snapshots and replies arrive, in any order of the user's acts *)
(* and crashes of the page (useTransferStore.ts, SftpPane.tsx).                    *)
THEOREM PanelTypeCorrect == PanelSpec => []PanelTypeOK
<1>1. PanelInit => WindowInv
  BY WindowInvInit
<1>2. WindowInv => PanelTypeOK
  BY DEF WindowInv
<1> QED  BY <1>1, <1>2, WindowInvStep, PTL DEF PanelSpec

-------------------------------------------------------------------------------
(* The transfers as a whole.                                                     *)

(* A behaviour of the transfers is one of each part.                             *)
LEMMA TransfersAreTheirParts ==
    TransfersSpec => Spec /\ CarefulCopySpec /\ PanelSpec
<1>1. TransfersInit => Init /\ CopyInit /\ PanelInit
  BY DEF TransfersInit
<1>2. [TransfersNext]_transfersVars =>
          [Next]_vars /\ [CarefulCopyNext]_copyVars /\ [PanelNext]_panelVars
  BY DEF TransfersNext, transfersVars, FollowQueue, FollowFile, FollowPanel
<1> QED  BY <1>1, <1>2, PTL DEF TransfersSpec, Spec, CarefulCopySpec, PanelSpec

(* A careful user is a user.                                                     *)
LEMMA CarefulCopies == CarefulCopySpec => CopySpec
BY CarefulIsCopy, PTL DEF CarefulCopySpec, CopySpec

(* What each part promises holds of the whole: no task waits while there is room *)
(* for it, a directory is done after what is in it, a final name is borne by a   *)
(* whole file that replaced only what it was told to, an upload taken back stays *)
(* away, and the panel goes where the user asked.                                *)
THEOREM TransfersKeepTheirPromises ==
    TransfersSpec => /\ []TypeOK /\ []NeverStranded /\ DoneAfterChildren
                     /\ []LandedWhole /\ []OnlyWantedUploads /\ KeptUnlessOverwritten
                     /\ []PanelTypeOK /\ GoesWhereAsked
<1>1. Spec => []TypeOK /\ []NeverStranded /\ DoneAfterChildren
  BY QueueTypeCorrect, NeverStrandedHolds, DoneAfterChildrenHolds
<1>2. CarefulCopySpec => []LandedWhole /\ []OnlyWantedUploads /\ KeptUnlessOverwritten
  BY LandedWholeHolds, OnlyWantedUploadsHolds, CarefulCopies, KeptUnlessOverwrittenHolds
<1>3. PanelSpec => []PanelTypeOK /\ GoesWhereAsked
  BY PanelTypeCorrect, GoesWhereAskedHolds
<1> QED  BY <1>1, <1>2, <1>3, TransfersAreTheirParts
=================================================================================
