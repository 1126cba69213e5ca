----------------------------- MODULE EditorProofs ------------------------------
(* What EditorWindow.tla says of the text that is typed, for a patient user and  *)
(* any number of files, changes, requests and crashes.                           *)
EXTENDS EditorWindow, TLAPS

(* The editor is on the active tab, with the text of the store beneath it.       *)
Formed(e) ==
    /\ DOMAIN e = {"on", "doc", "stash", "base"}
    /\ {e.stash, e.base} \subseteq [Files -> Texts \cup {NoText}]

EditorShows ==
    editor.on # NoFile =>
        /\ editor.on \in Files /\ editor.on = active /\ editor.doc \in Texts
        /\ text[active] # NoText /\ editor.base[active] = text[active]

Reads == [Files -> 0..MaxReads]

TabsFormed ==
    /\ status \in [Files -> {"closed", "loading", "ready", "error"}]
    /\ dirty \in [Files -> BOOLEAN]
    /\ {text, sent, wanted} \subseteq [Files -> Texts \cup {NoText}]
    /\ remote \in [Files -> Texts]
    /\ DOMAIN confirmed = Files /\ reading \in Reads
    /\ active \in Files \cup {NoFile} /\ edits \in Nat

(* A text of the store is the one on the remote machine, a closed tab has none,  *)
(* and one read at a time is under way, of a tab that waits for it.              *)
TabsTrue ==
    /\ active # NoFile => status[active] # "closed"
    /\ \A f \in Files :
          /\ text[f] \in {NoText, remote[f]}
          /\ status[f] = "closed" => text[f] = NoText /\ editor.stash[f] = NoText
          /\ status[f] = "ready" => text[f] # NoText
          /\ reading[f] # 0 => reading[f] = 1 /\ status[f] = "loading"
          /\ active = NoFile => status[f] = "closed"

(* A page that is not there has no tabs.                                         *)
NoPage ==
    ~ready =>
        /\ \A f \in Files : status[f] = "closed" /\ sent[f] = NoText
        /\ editor = NoEditor /\ dialogs = <<>> /\ toEditor = <<>> /\ ~closeNow

(* What the editor would show of a file once its text is there.                  *)
Held(f) ==
    IF editor.on = f THEN editor.doc
    ELSE IF editor.stash[f] # NoText /\ editor.base[f] = remote[f] THEN editor.stash[f]
    ELSE remote[f]

(* What is wanted is held, and its tab is dirty exactly when it is not saved.    *)
WantedHeld ==
    \A f \in Files : wanted[f] # NoText =>
        /\ wanted[f] = Held(f)
        /\ dirty[f] <=> Held(f) # remote[f]
        /\ text[f] = NoText => ~dirty[f]

AtRisk(f) == wanted[f] # NoText /\ dirty[f]

(* With changes at risk no other file is on its way, the window is not about to  *)
(* close, and a reload that is asked about is of the file with the changes.      *)
RiskIsShown ==
    \A f \in Files : AtRisk(f) =>
        /\ AllShown /\ ~closeNow
        /\ \A i \in DOMAIN dialogs : dialogs[i].kind = "reload" => dialogs[i].file = f

(* A save is of the tab that is shown, and nothing else is asked meanwhile; while *)
(* a reload is asked about some tab is shown and no tab is about to be closed.   *)
SavesShown ==
    /\ \A f \in Files : sent[f] # NoText =>
           /\ editor.on = f /\ AllShown
           /\ wanted[f] # NoText => sent[f] = wanted[f]
           /\ \A i \in DOMAIN dialogs : dialogs[i].kind \notin {"close", "reload"}
    /\ \A i \in DOMAIN dialogs : dialogs[i].kind = "gate" =>
           /\ editor.on = dialogs[i].file /\ AllShown
           /\ \A j \in DOMAIN dialogs : dialogs[j].kind \notin {"close", "reload"}
    /\ \A i \in DOMAIN dialogs : dialogs[i].kind = "reload" =>
           active # NoFile /\ \A j \in DOMAIN dialogs : dialogs[j].kind # "close"

Dialogs == [kind : {"gate", "close", "reload", "closeWindow"}, file : Files \cup {NoFile}]

QueuesFormed ==
    /\ pending \in Seq(Files) /\ toEditor \in Seq(Files \cup {"closeRequest"})
    /\ dialogs \in Seq(Dialogs)
    /\ \A i \in DOMAIN dialogs : dialogs[i].kind # "closeWindow" => dialogs[i].file \in Files

TabsInv == Formed(editor) /\ EditorShows /\ TabsFormed /\ TabsTrue /\ WantedHeld

DraftInv == TabsInv /\ NoPage /\ RiskIsShown /\ SavesShown /\ QueuesFormed

-------------------------------------------------------------------------------
(* What a change of tab does to the editor.                                      *)
LEMMA Apart == /\ NoFile \notin Files /\ "closeRequest" \notin Files
               /\ NoText \notin Texts /\ MaxTyped \in Nat /\ MaxReads \in Nat
               /\ NoTexts \in [Files -> Texts \cup {NoText}]
               /\ \A f \in Files : NoTexts[f] = NoText
BY EditorAssumption DEF EditorAssumption, Texts, NoTexts

LEMMA SwapTab ==
    ASSUME NEW e, Formed(e), e.on = NoFile \/ (e.on \in Files /\ e.doc \in Texts),
           NEW f \in Files, NEW t \in Texts,
           NEW d, d = DraftSwap(e, f, t)
    PROVE  /\ Formed(d) /\ d.on = f /\ d.doc \in Texts
           /\ e.on = f /\ t = e.base[f] => d = e
           /\ e.on = f /\ t # e.base[f] => d.doc = t
           /\ e.on = f => d.stash = e.stash
           /\ e.on # f =>
                  d.doc = IF e.stash[f] # NoText /\ e.base[f] = t THEN e.stash[f] ELSE t
           /\ e.on # f =>
                  \A g \in Files : d.stash[g] = IF g = e.on THEN e.doc ELSE e.stash[g]
           /\ d.base[f] = t
           /\ \A g \in Files \ {f} : d.base[g] = e.base[g]
<1> DEFINE left == IF e.on = NoFile THEN e.stash ELSE [e.stash EXCEPT ![e.on] = e.doc]
<1>1. DOMAIN e = {"on", "doc", "stash", "base"}
      /\ e.stash \in [Files -> Texts \cup {NoText}] /\ e.base \in [Files -> Texts \cup {NoText}]
  BY DEF Formed
<1>2. CASE e.on = f /\ t = e.base[f]
  <2>1. d = e /\ e.doc \in Texts
    BY <1>2, Apart DEF DraftSwap
  <2> QED  BY <1>2, <2>1
<1>3. CASE e.on = f /\ t # e.base[f]
  <2>1. d = [e EXCEPT !.doc = t, !.base[f] = t]
    BY <1>3 DEF DraftSwap
  <2>2. /\ DOMAIN d = {"on", "doc", "stash", "base"} /\ d.on = e.on /\ d.doc = t
        /\ d.stash = e.stash /\ d.base = [e.base EXCEPT ![f] = t]
    BY <1>1, <2>1
  <2> QED  BY <1>1, <1>3, <2>2 DEF Formed
<1>4. CASE e.on # f
  <2>1. /\ left \in [Files -> Texts \cup {NoText}] /\ left[f] = e.stash[f]
        /\ \A g \in Files : left[g] = IF g = e.on THEN e.doc ELSE e.stash[g]
    BY <1>1, <1>4, Apart
  <2>2. d = IF left[f] # NoText /\ e.base[f] = t
            THEN [e EXCEPT !.on = f, !.doc = left[f], !.stash = left]
            ELSE [e EXCEPT !.on = f, !.doc = t, !.stash = left, !.base[f] = t]
    BY <1>4 DEF DraftSwap
  <2> HIDE DEF left
  <2>3. CASE left[f] # NoText /\ e.base[f] = t
    <3>1. /\ DOMAIN d = {"on", "doc", "stash", "base"} /\ d.on = f /\ d.doc = left[f]
          /\ d.stash = left /\ d.base = e.base
      BY <1>1, <2>2, <2>3
    <3> QED  BY <1>1, <1>4, <2>1, <2>3, <3>1 DEF Formed
  <2>4. CASE ~(left[f] # NoText /\ e.base[f] = t)
    <3>1. /\ DOMAIN d = {"on", "doc", "stash", "base"} /\ d.on = f /\ d.doc = t
          /\ d.stash = left /\ d.base = [e.base EXCEPT ![f] = t]
      BY <1>1, <2>2, <2>4
    <3> QED  BY <1>1, <1>4, <2>1, <2>4, <3>1 DEF Formed
  <2> QED  BY <2>3, <2>4
<1> QED  BY <1>2, <1>3, <1>4

LEMMA CleanTab ==
    ASSUME NEW e, Formed(e), NEW st,
           NEW d, d = Cleaned(e, st)
    PROVE  /\ Formed(d) /\ d.on = e.on /\ d.doc = e.doc
           /\ \A g \in Files :
                  /\ d.stash[g] = IF st[g] = "closed" THEN NoText ELSE e.stash[g]
                  /\ st[g] # "closed" => d.base[g] = e.base[g]
<1> DEFINE gone(g) == st[g] = "closed" /\ e.stash[g] # NoText
           stash == [g \in Files |-> IF gone(g) THEN NoText ELSE e.stash[g]]
           base == [g \in Files |-> IF gone(g) THEN NoText ELSE e.base[g]]
<1>1. DOMAIN e = {"on", "doc", "stash", "base"}
      /\ e.stash \in [Files -> Texts \cup {NoText}] /\ e.base \in [Files -> Texts \cup {NoText}]
  BY DEF Formed
<1>2. d = [e EXCEPT !.stash = stash, !.base = base]
  BY DEF Cleaned
<1>3. /\ stash \in [Files -> Texts \cup {NoText}] /\ base \in [Files -> Texts \cup {NoText}]
      /\ \A g \in Files :
            /\ stash[g] = IF st[g] = "closed" THEN NoText ELSE e.stash[g]
            /\ st[g] # "closed" => base[g] = e.base[g]
  BY <1>1
<1> HIDE DEF stash, base
<1>4. /\ DOMAIN d = {"on", "doc", "stash", "base"} /\ d.on = e.on /\ d.doc = e.doc
      /\ d.stash = stash /\ d.base = base
  BY <1>1, <1>2
<1> QED  BY <1>3, <1>4 DEF Formed

LEMMA NoEditorIs ==
    /\ Formed(NoEditor) /\ NoEditor.on = NoFile
    /\ \A f \in Files : NoEditor.stash[f] = NoText
BY Apart DEF Formed, NoEditor

(* What the editor holds of each file when the page is rendered, and the flag.   *)
Lost(f, st, tx) == f = NoFile \/ st[f] = "error" \/ tx[f] = NoText

Whole(f, st, tx) ==
    /\ st \in [Files -> {"closed", "loading", "ready", "error"}]
    /\ tx \in [Files -> Texts \cup {NoText}]
    /\ f \in Files \cup {NoFile}
    /\ IF f = NoFile THEN \A g \in Files : st[g] = "closed" ELSE st[f] # "closed"
    /\ \A g \in Files : tx[g] \in {NoText, remote[g]}

LEMMA RenderedHolds ==
    ASSUME Formed(editor), EditorShows, TabsFormed, TabsTrue,
           NEW f, NEW st, NEW tx, Whole(f, st, tx), NEW d \in [Files -> BOOLEAN],
           Show(f, st, tx, d), remote' = remote
    PROVE  /\ Formed(editor') /\ dirty' \in [Files -> BOOLEAN]
           /\ editor'.on # NoFile =>
                 /\ ~Lost(f, st, tx) /\ editor'.on = f /\ editor'.doc \in Texts
                 /\ editor'.base[f] = tx[f]
           /\ \A g \in Files :
                 /\ st[g] = "closed" => editor'.stash[g] = NoText
                 /\ \/ Held(g)' = Held(g)
                    \/ Held(g)' = remote[g] /\ (Lost(f, st, tx) \/ st[g] = "closed")
                 /\ \/ dirty'[g] = d[g]
                    \/ editor'.on = g /\ (dirty'[g] <=> Held(g)' # remote[g])
<1> DEFINE e == Rendered(f, st, tx)
<1>1. /\ editor' = e
      /\ dirty' = IF e.on # NoFile /\ (e.on # editor.on \/ e.base[e.on] # editor.base[e.on])
                  THEN [d EXCEPT ![e.on] = (e.doc # e.base[e.on])] ELSE d
  BY DEF Show
<1>2. CASE Lost(f, st, tx)
  <2>1. e = NoEditor
    BY <1>2 DEF Rendered, Lost
  <2> HIDE DEF e
  <2>2. /\ Formed(editor') /\ editor'.on = NoFile
        /\ \A g \in Files : editor'.stash[g] = NoText
    BY <1>1, <2>1, NoEditorIs
  <2>3. dirty' = d
    BY <1>1, <2>1, NoEditorIs
  <2>4. \A g \in Files : Held(g)' = remote[g]
    BY <2>2, Apart DEF Held
  <2> QED  BY <1>2, <2>2, <2>3, <2>4
<1>3. CASE ~Lost(f, st, tx)
  <2> DEFINE s == DraftSwap(editor, f, tx[f])
  <2>1. f \in Files /\ st[f] # "closed" /\ tx[f] = remote[f] /\ tx[f] \in Texts
    BY <1>3 DEF Lost, Whole
  <2>2. e = Cleaned(s, st)
    BY <1>3 DEF Rendered, Lost
  <2>3. editor.on = NoFile \/ (editor.on \in Files /\ editor.doc \in Texts)
    BY DEF EditorShows
  <2>4. /\ Formed(s) /\ s.on = f /\ s.doc \in Texts
        /\ editor.on = f /\ tx[f] = editor.base[f] => s = editor
        /\ editor.on # f =>
               s.doc = IF editor.stash[f] # NoText /\ editor.base[f] = tx[f]
                       THEN editor.stash[f] ELSE tx[f]
        /\ editor.on # f =>
               \A g \in Files : s.stash[g] = IF g = editor.on THEN editor.doc
                                             ELSE editor.stash[g]
        /\ editor.on = f => s.stash = editor.stash
        /\ s.base[f] = tx[f]
        /\ \A g \in Files \ {f} : s.base[g] = editor.base[g]
    BY <2>1, <2>3, SwapTab
  <2> HIDE DEF s
  <2>5. /\ Formed(e) /\ e.on = s.on /\ e.doc = s.doc
        /\ \A g \in Files :
              /\ e.stash[g] = IF st[g] = "closed" THEN NoText ELSE s.stash[g]
              /\ st[g] # "closed" => e.base[g] = s.base[g]
    BY <2>2, <2>4, CleanTab
  <2> HIDE DEF e
  <2>6. editor.on # NoFile => editor.base[editor.on] = remote[editor.on]
    BY DEF EditorShows, TabsTrue
  <2>7. Held(f)' = Held(f)
    <3>1. Held(f)' = s.doc
      BY <1>1, <2>4, <2>5 DEF Held
    <3>2. CASE editor.on = f
      BY <2>1, <2>4, <2>6, <3>1, <3>2, Apart DEF Held
    <3>3. CASE editor.on # f
      BY <2>1, <2>4, <3>1, <3>3 DEF Held
    <3> QED  BY <3>2, <3>3
  <2>8. ASSUME NEW g \in Files, g # f, st[g] # "closed"
        PROVE  Held(g)' = Held(g)
    <3>1. /\ editor'.on # g /\ editor'.stash[g] = s.stash[g]
          /\ editor'.base[g] = editor.base[g]
      BY <1>1, <2>4, <2>5, <2>8
    <3>2. CASE editor.on = g
      <4>1. s.stash[g] = editor.doc /\ editor.base[g] = remote[g] /\ editor.doc # NoText
        BY <2>3, <2>4, <2>6, <2>8, <3>2, Apart
      <4> QED  BY <3>1, <3>2, <4>1 DEF Held
    <3>3. CASE editor.on # g
      <4>1. s.stash[g] = editor.stash[g]
        BY <2>4, <3>3
      <4> QED  BY <3>1, <3>3, <4>1 DEF Held
    <3> QED  BY <3>2, <3>3
  <2>9. ASSUME NEW g \in Files, st[g] = "closed"
        PROVE  Held(g)' = remote[g] /\ editor'.stash[g] = NoText
    <3>1. editor'.on # g /\ editor'.stash[g] = NoText
      BY <1>1, <2>1, <2>4, <2>5, <2>9
    <3> QED  BY <3>1 DEF Held
  <2>10. ASSUME NEW g \in Files
         PROVE  dirty'[g] = d[g] \/ (editor'.on = g /\ (dirty'[g] <=> Held(g)' # remote[g]))
    <3>1. CASE dirty' = d
      BY <3>1
    <3>2. CASE dirty' # d
      <4>1. dirty' = [d EXCEPT ![f] = (e.doc # e.base[f])] /\ e.base[f] = remote[f]
        BY <1>1, <2>1, <2>4, <2>5, <3>2
      <4>2. Held(f)' = e.doc
        BY <1>1, <2>4, <2>5 DEF Held
      <4>3. editor'.on = f
        BY <1>1, <2>4, <2>5
      <4> QED  BY <4>1, <4>2, <4>3
    <3> QED  BY <3>1, <3>2
  <2>11. dirty' \in [Files -> BOOLEAN]
    BY <1>1, <2>1, <2>4, <2>5
  <2>12. /\ Formed(editor') /\ editor'.on = f /\ editor'.doc \in Texts
         /\ editor'.base[f] = tx[f]
    BY <1>1, <2>1, <2>4, <2>5
  <2> QED  BY <1>3, <2>7, <2>8, <2>9, <2>10, <2>11, <2>12
<1> QED  BY <1>2, <1>3

-------------------------------------------------------------------------------
(* Tabs through the steps that show something, and through those that do not.    *)
TypedCalls ==
    /\ {sent, wanted} \subseteq [Files -> Texts \cup {NoText}]
    /\ remote \in [Files -> Texts]
    /\ DOMAIN confirmed = Files /\ reading \in Reads /\ edits \in Nat

(* What a step leaves of the tabs' states, texts and reads.                        *)
Fits(st, tx, rd) ==
    \A g \in Files : /\ st[g] = "closed" => tx[g] = NoText
                     /\ st[g] = "ready" => tx[g] # NoText
                     /\ rd[g] # 0 => rd[g] = 1 /\ st[g] = "loading"

SameRisk == \A g \in Files : AtRisk(g)' => AtRisk(g)

LEMMA ShowKeeps ==
    ASSUME TabsInv, NEW f, NEW st, NEW tx, NEW d \in [Files -> BOOLEAN],
           Show(f, st, tx, d), Whole(f, st, tx), remote' = remote, TypedCalls',
           Fits(st, tx, reading'),
           \A g \in Files : wanted'[g] # NoText =>
               /\ wanted'[g] = wanted[g] /\ d[g] = dirty[g]
               /\ dirty[g] => ~Lost(f, st, tx) /\ st[g] # "closed" /\ tx[g] # NoText
    PROVE  TabsInv' /\ SameRisk
<1>1. Formed(editor) /\ EditorShows /\ TabsFormed /\ TabsTrue /\ WantedHeld
  BY DEF TabsInv
<1>2. active' = f /\ status' = st /\ text' = tx
  BY DEF Show
<1>3. /\ Formed(editor') /\ dirty' \in [Files -> BOOLEAN]
      /\ editor'.on # NoFile =>
            /\ ~Lost(f, st, tx) /\ editor'.on = f /\ editor'.doc \in Texts
            /\ editor'.base[f] = tx[f]
      /\ \A g \in Files :
            /\ st[g] = "closed" => editor'.stash[g] = NoText
            /\ \/ Held(g)' = Held(g)
               \/ Held(g)' = remote[g] /\ (Lost(f, st, tx) \/ st[g] = "closed")
            /\ \/ dirty'[g] = d[g]
               \/ editor'.on = g /\ (dirty'[g] <=> Held(g)' # remote[g])
  BY <1>1, RenderedHolds
<1>4. EditorShows'
  BY <1>2, <1>3 DEF EditorShows, Lost, Whole
<1>5. TabsFormed'
  BY <1>2, <1>3 DEF TabsFormed, TypedCalls, Whole
<1>6. TabsTrue'
  BY <1>2, <1>3 DEF TabsTrue, Whole, Fits
<1>7. ASSUME NEW g \in Files, wanted'[g] # NoText
      PROVE  /\ wanted'[g] = Held(g)' /\ (dirty'[g] <=> Held(g)' # remote'[g])
             /\ text'[g] = NoText => ~dirty'[g]
             /\ dirty'[g] => dirty[g]
  <2>1. /\ wanted[g] = Held(g) /\ (dirty[g] <=> Held(g) # remote[g])
        /\ wanted'[g] = wanted[g] /\ d[g] = dirty[g]
        /\ dirty[g] => ~Lost(f, st, tx) /\ st[g] # "closed" /\ tx[g] # NoText
    BY <1>1, <1>7 DEF WantedHeld
  <2>2. Held(g)' = Held(g)
    BY <1>3, <2>1
  <2>3. dirty'[g] <=> dirty[g]
    BY <1>3, <2>1, <2>2
  <2> QED  BY <1>2, <2>1, <2>2, <2>3
<1>8. WantedHeld'
  BY <1>7 DEF WantedHeld
<1>9. SameRisk
  BY <1>7 DEF SameRisk, AtRisk, TabsFormed, TypedCalls
<1> QED  BY <1>3, <1>4, <1>5, <1>6, <1>8, <1>9 DEF TabsInv

(* Steps that leave the tabs alone; the user may give up what was wanted.        *)
GivesUp == \A g \in Files : wanted'[g] \in {wanted[g], NoText}

LEMMA QuietKeeps ==
    ASSUME TabsInv, UNCHANGED <<tabVars, remote>>, TypedCalls', GivesUp,
           \A g \in Files : reading'[g] # 0 => reading'[g] = reading[g]
    PROVE  TabsInv' /\ SameRisk
<1>1. Formed(editor) /\ EditorShows /\ TabsFormed /\ TabsTrue /\ WantedHeld
  BY DEF TabsInv
<1>2. UNCHANGED <<status, text, dirty, active, editor, remote>>
  BY DEF tabVars
<1>3. Formed(editor') /\ EditorShows' /\ TabsFormed' /\ TabsTrue'
  BY <1>1, <1>2 DEF EditorShows, TabsFormed, TabsTrue, TypedCalls
<1>4. \A g \in Files : Held(g)' = Held(g)
  BY <1>2 DEF Held
<1>5. WantedHeld'
  BY <1>1, <1>2, <1>4 DEF WantedHeld, GivesUp
<1>6. SameRisk
  BY <1>2 DEF SameRisk, AtRisk, GivesUp
<1> QED  BY <1>3, <1>5, <1>6 DEF TabsInv

LEMMA TypesStay ==
    ASSUME TabsInv, UNCHANGED <<sent, confirmed, reading, remote>>, wanted' = wanted,
           edits' = edits
    PROVE  TypedCalls' /\ GivesUp
BY DEF TabsInv, TabsFormed, TypedCalls, GivesUp

(* The page goes with nothing at risk: what is wanted has been saved.            *)
LEMMA GoneKeeps ==
    ASSUME TabsInv, SavesShown, PageGone,
           \A g \in Files : wanted'[g] # NoText => wanted'[g] = wanted[g] /\ ~dirty[g],
           wanted' \in [Files -> Texts \cup {NoText}]
    PROVE  /\ TabsInv' /\ SavesShown' /\ (\A g \in Files : ~AtRisk(g)')
           /\ \A g \in Files : status'[g] = "closed" /\ sent'[g] = NoText
           /\ editor' = NoEditor /\ dialogs' = <<>> /\ toEditor' = <<>> /\ ~closeNow'
<1>1. Formed(editor) /\ EditorShows /\ TabsFormed /\ TabsTrue /\ WantedHeld
  BY DEF TabsInv
<1>2. /\ status' = [f \in Files |-> "closed"] /\ text' = NoTexts
      /\ dirty' = [f \in Files |-> FALSE] /\ active' = NoFile /\ editor' = NoEditor
      /\ dialogs' = <<>> /\ toEditor' = <<>> /\ closeNow' = FALSE
      /\ sent' = NoTexts /\ reading' = [f \in Files |-> 0] /\ confirmed' = confirmed
      /\ edits' = edits
  BY DEF PageGone
<1>3. PICK landed \in SUBSET {f \in Files : sent[f] # NoText} :
          remote' = [f \in Files |-> IF f \in landed THEN sent[f] ELSE remote[f]]
  BY DEF PageGone
<1>4. \A f \in Files : f \in landed => sent[f] # NoText
  BY <1>3
<1>5. \A f \in Files : remote'[f] = IF f \in landed THEN sent[f] ELSE remote[f]
  BY <1>3
<1>6. remote' \in [Files -> Texts]
  BY <1>1, <1>3, <1>4 DEF TabsFormed
<1>7. /\ Formed(editor') /\ editor'.on = NoFile
      /\ \A f \in Files : editor'.stash[f] = NoText
  BY <1>2, NoEditorIs
<1>8. EditorShows' /\ TabsFormed'
  BY <1>1, <1>2, <1>6, <1>7, Apart DEF EditorShows, TabsFormed, Reads
<1>9. TabsTrue'
  BY <1>2, <1>7, Apart DEF TabsTrue
<1>10. \A f \in Files : Held(f)' = remote'[f]
  BY <1>7, Apart DEF Held
<1>11. ASSUME NEW g \in Files, wanted'[g] # NoText
       PROVE  wanted'[g] = remote'[g]
  <2>1. wanted'[g] = wanted[g] /\ wanted[g] = remote[g]
    BY <1>1, <1>11 DEF WantedHeld
  <2>2. sent[g] # NoText => sent[g] = wanted[g]
    BY <1>11, <2>1 DEF SavesShown
  <2> QED  BY <1>4, <1>5, <2>1, <2>2
<1>12. WantedHeld'
  BY <1>2, <1>10, <1>11 DEF WantedHeld
<1>13. SavesShown' /\ \A g \in Files : ~AtRisk(g)'
  BY <1>2, Apart DEF SavesShown, AtRisk
<1>14. \A g \in Files : status'[g] = "closed" /\ sent'[g] = NoText
  BY <1>2, Apart
<1> QED  BY <1>2, <1>7, <1>8, <1>9, <1>12, <1>13, <1>14 DEF TabsInv

-------------------------------------------------------------------------------
(* Queues.                                                                       *)
LEMMA PutLast ==
    ASSUME NEW S, NEW q \in Seq(S), NEW x \in S
    PROVE  /\ Append(q, x) \in Seq(S)
           /\ \A i \in DOMAIN Append(q, x) :
                 Append(q, x)[i] = x \/ (i \in DOMAIN q /\ Append(q, x)[i] = q[i])
OBVIOUS

LEMMA TakeFirst ==
    ASSUME NEW S, NEW q \in Seq(S), q # <<>>
    PROVE  /\ Tail(q) \in Seq(S) /\ 1 \in DOMAIN q /\ Head(q) = q[1] /\ Head(q) \in S
           /\ \A i \in DOMAIN Tail(q) : i + 1 \in DOMAIN q /\ Tail(q)[i] = q[i + 1]
OBVIOUS

LEMMA TakeLast ==
    ASSUME NEW S, NEW q \in Seq(S), q # <<>>
    PROVE  /\ Front(q) \in Seq(S) /\ Len(q) \in DOMAIN q /\ Last(q) = q[Len(q)]
           /\ \A i \in DOMAIN Front(q) : i \in DOMAIN q /\ Front(q)[i] = q[i]
BY DEF Front, Last

LEMMA NoFilesIn ==
    ASSUME NEW q
    PROVE  Files \cap ToSet(q) = {} <=> \A i \in DOMAIN q : q[i] \notin Files
BY DEF ToSet

LEMMA Dialog ==
    ASSUME NEW k \in {"gate", "close", "reload", "closeWindow"}, NEW f \in Files \cup {NoFile}
    PROVE  LET x == [kind |-> k, file |-> f] IN x \in Dialogs /\ x.kind = k /\ x.file = f
BY DEF Dialogs

(* What is asked, and what is sent, while changes are at risk.                   *)
FewerFiles == \A i \in DOMAIN toEditor' : toEditor'[i] \in Files =>
                  \E j \in DOMAIN toEditor : toEditor[j] = toEditor'[i]
FewerDialogs(kinds) ==
    \A i \in DOMAIN dialogs' : dialogs'[i].kind \in kinds =>
        i \in DOMAIN dialogs /\ dialogs'[i] = dialogs[i]

LEMMA StillShown ==
    ASSUME AllShown, \A g \in Files : status'[g] = status[g] \/ status'[g] = "closed",
           pending' = pending, FewerFiles
    PROVE  AllShown'
<1>1. \A i \in DOMAIN toEditor : toEditor[i] \notin Files
  BY NoFilesIn DEF AllShown
<1>2. \A i \in DOMAIN toEditor' : toEditor'[i] \notin Files
  BY <1>1 DEF FewerFiles
<1>3. Files \cap ToSet(toEditor') = {}
  BY <1>2, NoFilesIn
<1> QED  BY <1>3 DEF AllShown

LEMMA RiskStays ==
    ASSUME RiskIsShown, SameRisk, \A g \in Files : status'[g] = status[g] \/ status'[g] = "closed",
           pending' = pending, FewerFiles, FewerDialogs({"reload"}), closeNow' => closeNow
    PROVE  RiskIsShown'
<1> SUFFICES ASSUME NEW f \in Files, AtRisk(f)'
             PROVE  /\ AllShown' /\ ~closeNow'
                    /\ \A i \in DOMAIN dialogs' :
                           dialogs'[i].kind = "reload" => dialogs'[i].file = f
  BY DEF RiskIsShown
<1>1. AtRisk(f)
  BY DEF SameRisk
<1>2. /\ AllShown /\ ~closeNow
      /\ \A i \in DOMAIN dialogs : dialogs[i].kind = "reload" => dialogs[i].file = f
  BY <1>1 DEF RiskIsShown
<1>3. AllShown'
  BY <1>2, StillShown
<1> QED  BY <1>2, <1>3 DEF FewerDialogs

LEMMA SavesStay ==
    ASSUME SavesShown, editor'.on = editor.on, active' = active,
           \A g \in Files : status'[g] = status[g] \/ status'[g] = "closed",
           \A g \in Files : sent'[g] # NoText => sent'[g] = sent[g],
           GivesUp, pending' = pending, FewerFiles,
           FewerDialogs({"gate", "close", "reload"})
    PROVE  SavesShown'
<1>1. AllShown => AllShown'
  BY StillShown
<1>2. \A i \in DOMAIN dialogs' : dialogs'[i].kind \in {"close", "reload"} =>
          \E j \in DOMAIN dialogs : dialogs[j].kind \in {"close", "reload"}
  BY DEF FewerDialogs
<1>3. ASSUME NEW f \in Files, sent'[f] # NoText
      PROVE  /\ editor'.on = f /\ AllShown'
             /\ wanted'[f] # NoText => sent'[f] = wanted'[f]
             /\ \A i \in DOMAIN dialogs' : dialogs'[i].kind \notin {"close", "reload"}
  BY <1>1, <1>2, <1>3 DEF SavesShown, GivesUp
<1>4. ASSUME NEW i \in DOMAIN dialogs', dialogs'[i].kind = "gate"
      PROVE  /\ editor'.on = dialogs'[i].file /\ AllShown'
             /\ \A j \in DOMAIN dialogs' : dialogs'[j].kind \notin {"close", "reload"}
  BY <1>1, <1>2, <1>4 DEF SavesShown, FewerDialogs
<1>5. ASSUME NEW i \in DOMAIN dialogs', dialogs'[i].kind = "reload"
      PROVE  active' # NoFile /\ \A j \in DOMAIN dialogs' : dialogs'[j].kind # "close"
  BY <1>5 DEF SavesShown, FewerDialogs
<1> QED  BY <1>3, <1>4, <1>5 DEF SavesShown

-------------------------------------------------------------------------------
(* Steps that leave the tabs alone.                                              *)
LEMMA Parts ==
    ASSUME DraftInv
    PROVE  /\ TabsInv /\ NoPage /\ RiskIsShown /\ SavesShown /\ QueuesFormed
           /\ Formed(editor) /\ EditorShows /\ TabsFormed /\ TabsTrue /\ WantedHeld
BY DEF DraftInv, TabsInv

LEMMA FilesAreMessages ==
    ASSUME NEW q \in Seq(Files) PROVE q \in Seq(Files \cup {"closeRequest"})
<1>1. q \in [1..Len(q) -> Files \cup {"closeRequest"}] /\ Len(q) \in Nat
  OBVIOUS
<1> QED  BY <1>1

LEMMA OpenKeeps ==
    ASSUME DraftInv, NEW f \in Files, Calm, Clean(Files), OpenFile(f)
    PROVE  DraftInv'
<1>1. UNCHANGED <<tabVars, remote, sent, confirmed, reading, wanted, dialogs, closeNow, ready,
                  edits, dirty, editor, status>>
  BY DEF OpenFile, callVars, userVars, tabVars
<1>2. TabsInv' /\ SameRisk
  BY <1>1, Parts, QuietKeeps, TypesStay
<1>3. RiskIsShown'
  BY <1>2 DEF RiskIsShown, SameRisk, Clean, AtRisk
<1>4. SavesShown'
  BY <1>1, Apart DEF SavesShown, Calm
<1>5. pending \in Seq(Files) /\ toEditor \in Seq(Files \cup {"closeRequest"})
  BY Parts DEF QueuesFormed
<1>6. ASSUME ready, toEditor' = Append(toEditor, f), pending' = pending
      PROVE  QueuesFormed' /\ NoPage'
  <2>1. f \in Files \cup {"closeRequest"}
    OBVIOUS
  <2>2. toEditor' \in Seq(Files \cup {"closeRequest"})
    BY <1>5, <1>6, <2>1, PutLast
  <2> QED  BY <1>1, <1>5, <1>6, <2>2, Parts DEF QueuesFormed, NoPage
<1>7. ASSUME pending' = Append(pending, f), toEditor' = toEditor
      PROVE  QueuesFormed' /\ NoPage'
  <2>1. pending' \in Seq(Files)
    BY <1>5, <1>7, PutLast
  <2> QED  BY <1>1, <1>5, <1>7, <2>1, Parts DEF QueuesFormed, NoPage
<1>8. QueuesFormed' /\ NoPage'
  BY <1>6, <1>7 DEF OpenFile
<1> QED  BY <1>2, <1>3, <1>4, <1>8 DEF DraftInv

LEMMA NoRiskWithoutPage ==
    ASSUME DraftInv, ~ready
    PROVE  \A f \in Files : ~AtRisk(f) /\ (wanted[f] # NoText => ~dirty[f])
BY Parts DEF NoPage, TabsTrue, WantedHeld, AtRisk

LEMMA ReadyKeeps == ASSUME DraftInv, PageReady PROVE DraftInv'
<1>1. /\ UNCHANGED <<tabVars, remote, sent, confirmed, reading, wanted, dialogs, closeNow,
                     edits, editor>>
      /\ ~ready /\ ready' = TRUE /\ toEditor' = pending /\ pending' = <<>>
  BY DEF PageReady, callVars, userVars, tabVars
<1>2. TabsInv' /\ SameRisk
  BY <1>1, Parts, QuietKeeps, TypesStay
<1>3. RiskIsShown'
  BY <1>1, <1>2, NoRiskWithoutPage DEF RiskIsShown, SameRisk
<1>4. SavesShown'
  BY <1>1, Parts DEF SavesShown, NoPage
<1>5. pending \in Seq(Files \cup {"closeRequest"})
  BY Parts, FilesAreMessages DEF QueuesFormed
<1>6. QueuesFormed' /\ NoPage'
  BY <1>1, <1>5, Parts DEF QueuesFormed, NoPage
<1> QED  BY <1>2, <1>3, <1>4, <1>6 DEF DraftInv

LEMMA GoneStep ==
    ASSUME DraftInv, PageGone, ready' = FALSE,
           \A g \in Files : wanted'[g] # NoText => wanted'[g] = wanted[g] /\ ~dirty[g],
           wanted' \in [Files -> Texts \cup {NoText}], pending' = <<>> \/ pending' = pending
    PROVE  DraftInv'
<1>1. /\ TabsInv' /\ SavesShown' /\ (\A g \in Files : ~AtRisk(g)')
      /\ \A g \in Files : status'[g] = "closed" /\ sent'[g] = NoText
      /\ editor' = NoEditor /\ dialogs' = <<>> /\ toEditor' = <<>> /\ ~closeNow'
  BY Parts, GoneKeeps
<1>2. RiskIsShown'
  BY <1>1 DEF RiskIsShown
<1>3. NoPage'
  BY <1>1 DEF NoPage, NoEditor, NoTexts
<1>4. pending \in Seq(Files) /\ <<>> \in Seq(Files)
  BY Parts DEF QueuesFormed
<1>5. pending' \in Seq(Files)
  BY <1>4
<1>6. QueuesFormed'
  BY <1>1, <1>5 DEF QueuesFormed
<1> QED  BY <1>1, <1>2, <1>3, <1>6 DEF DraftInv

LEMMA CloseEventKeeps ==
    ASSUME DraftInv, NEW a, NEW b, CloseEvent(a, b)
    PROVE  DraftInv'
<1>1. CASE ~ready
  <2>1. CASE Closed
    <3>1. PageGone /\ ready' = FALSE /\ pending' = <<>> /\ wanted' = wanted
      BY <2>1 DEF Closed
    <3> QED  BY <1>1, <3>1, Parts, NoRiskWithoutPage, GoneStep DEF TabsFormed
  <2> QED  BY <1>1, <2>1 DEF CloseEvent
<1>2. CASE ready
  <2>1. /\ toEditor' = Append(toEditor, "closeRequest")
        /\ UNCHANGED <<tabVars, remote, sent, confirmed, reading, wanted, dialogs, closeNow,
                       edits, editor, active, status, ready, pending>>
    BY <1>2 DEF CloseEvent, Closed, callVars, userVars, tabVars
  <2>2. TabsInv' /\ SameRisk /\ GivesUp
    BY <2>1, Parts, QuietKeeps, TypesStay
  <2>3. /\ toEditor' \in Seq(Files \cup {"closeRequest"})
        /\ \A i \in DOMAIN toEditor' : toEditor'[i] = "closeRequest"
               \/ (i \in DOMAIN toEditor /\ toEditor'[i] = toEditor[i])
    BY <2>1, Parts, PutLast DEF QueuesFormed
  <2>4. FewerFiles
    BY <2>3, Apart DEF FewerFiles
  <2>5. FewerDialogs({"reload"}) /\ FewerDialogs({"gate", "close", "reload"})
    BY <2>1 DEF FewerDialogs
  <2>6. RiskIsShown'
    BY <2>1, <2>2, <2>4, <2>5, Parts, RiskStays
  <2>7. SavesShown'
    BY <2>1, <2>2, <2>4, <2>5, Parts, SavesStay
  <2>8. QueuesFormed' /\ NoPage'
    BY <1>2, <2>1, <2>3, Parts DEF QueuesFormed, NoPage
  <2> QED  BY <2>2, <2>6, <2>7, <2>8 DEF DraftInv
<1> QED  BY <1>1, <1>2

LEMMA ConfirmKeeps == ASSUME DraftInv, ConfirmClose PROVE DraftInv'
<1>1. closeNow /\ PageGone /\ ready' = FALSE /\ pending' = <<>> /\ wanted' = wanted
  BY DEF ConfirmClose, Closed
<1>2. \A g \in Files : wanted'[g] # NoText => wanted'[g] = wanted[g] /\ ~dirty[g]
  BY <1>1, Parts DEF RiskIsShown, AtRisk
<1> QED  BY <1>1, <1>2, Parts, GoneStep DEF TabsFormed

LEMMA CrashKeeps == ASSUME DraftInv, RenderProcessGone PROVE DraftInv'
<1>1. PageGone /\ ready' = FALSE /\ pending' = pending /\ wanted' = NoTexts
  BY DEF RenderProcessGone
<1> QED  BY <1>1, Apart, GoneStep

(* A step that changes no tab, no dialog and no message.                         *)
LEMMA NothingKeeps ==
    ASSUME DraftInv,
           UNCHANGED <<ready, pending, toEditor, closeNow, tabVars, callVars, userVars>>
    PROVE  DraftInv'
<1>1. UNCHANGED <<tabVars, remote, sent, confirmed, reading, wanted, dialogs, closeNow,
                  edits, editor, active, status, ready, pending, toEditor>>
  BY DEF callVars, userVars, tabVars
<1>2. TabsInv' /\ SameRisk /\ GivesUp
  BY <1>1, Parts, QuietKeeps, TypesStay
<1>3. FewerFiles /\ FewerDialogs({"reload"}) /\ FewerDialogs({"gate", "close", "reload"})
  BY <1>1 DEF FewerFiles, FewerDialogs
<1>4. RiskIsShown'
  BY <1>1, <1>2, <1>3, Parts, RiskStays
<1>5. SavesShown'
  BY <1>1, <1>2, <1>3, Parts, SavesStay
<1>6. QueuesFormed' /\ NoPage'
  BY <1>1, Parts DEF QueuesFormed, NoPage
<1> QED  BY <1>2, <1>4, <1>5, <1>6 DEF DraftInv

(* A step that changes no tab, and what it asks, sends and takes.                *)
Steady == UNCHANGED <<ready, pending, tabVars, remote, reading, edits>>

LEMMA SteadyKeeps ==
    ASSUME DraftInv, Steady, ready,
           GivesUp, {sent, wanted}' \subseteq [Files -> Texts \cup {NoText}],
           DOMAIN confirmed' = Files
    PROVE  /\ TabsInv' /\ SameRisk /\ NoPage'
           /\ UNCHANGED <<ready, pending, status, dirty, active, editor>>
<1>1. /\ UNCHANGED <<tabVars, remote>> /\ reading' = reading /\ edits' = edits
      /\ UNCHANGED <<ready, pending, status, dirty, active, editor>>
  BY DEF Steady, tabVars
<1>2. TypedCalls'
  BY <1>1, Parts DEF TypedCalls, TabsFormed
<1>3. TabsInv' /\ SameRisk
  BY <1>1, <1>2, Parts, QuietKeeps
<1> QED  BY <1>1, <1>3 DEF NoPage

(* The user takes back what was asked last, or agrees to it.                     *)
Answered == dialogs # <<>> /\ dialogs' = Front(dialogs)

LEMMA AnsweredIs ==
    ASSUME DraftInv, Answered
    PROVE  /\ ready /\ dialogs' \in Seq(Dialogs)
           /\ Len(dialogs) \in DOMAIN dialogs /\ Last(dialogs) = dialogs[Len(dialogs)]
           /\ \A i \in DOMAIN dialogs' : i \in DOMAIN dialogs /\ dialogs'[i] = dialogs[i]
           /\ \A i \in DOMAIN dialogs' : dialogs'[i].kind # "closeWindow" =>
                  dialogs'[i].file \in Files
           /\ \A kinds : FewerDialogs(kinds)
<1>1. dialogs \in Seq(Dialogs) /\ dialogs # <<>>
  BY Parts DEF QueuesFormed, Answered
<1>2. /\ dialogs' \in Seq(Dialogs)
      /\ Len(dialogs) \in DOMAIN dialogs /\ Last(dialogs) = dialogs[Len(dialogs)]
      /\ \A i \in DOMAIN dialogs' : i \in DOMAIN dialogs /\ dialogs'[i] = dialogs[i]
  BY <1>1, TakeLast DEF Answered
<1>3. ready
  BY <1>1, Parts DEF NoPage
<1>4. \A kinds : FewerDialogs(kinds)
  BY <1>2 DEF FewerDialogs
<1> QED  BY <1>2, <1>3, <1>4, Parts DEF QueuesFormed

LEMMA CancelKeeps == ASSUME DraftInv, Cancel PROVE DraftInv'
<1>1. /\ Answered /\ Steady
      /\ UNCHANGED <<toEditor, sent, confirmed, wanted, closeNow>>
  BY DEF Cancel, Answered, Steady, mainVars, callVars
<1>2. GivesUp /\ FewerFiles
  BY <1>1 DEF GivesUp, FewerFiles
<1>3. DOMAIN confirmed' = Files /\ {sent, wanted}' \subseteq [Files -> Texts \cup {NoText}]
  BY <1>1, Parts DEF TabsFormed
<1>4. ready /\ dialogs' \in Seq(Dialogs)
      /\ (\A i \in DOMAIN dialogs' : dialogs'[i].kind # "closeWindow" =>
              dialogs'[i].file \in Files)
      /\ FewerDialogs({"reload"}) /\ FewerDialogs({"gate", "close", "reload"})
  BY <1>1, AnsweredIs
<1>5. /\ TabsInv' /\ SameRisk /\ NoPage'
      /\ UNCHANGED <<ready, pending, status, dirty, active, editor>>
  BY <1>1, <1>2, <1>3, <1>4, SteadyKeeps
<1>6. RiskIsShown'
  BY <1>1, <1>2, <1>4, <1>5, Parts, RiskStays
<1>7. SavesShown'
  BY <1>1, <1>2, <1>4, <1>5, Parts, SavesStay
<1>8. QueuesFormed'
  BY <1>1, <1>4, <1>5, Parts DEF QueuesFormed
<1> QED  BY <1>5, <1>6, <1>7, <1>8 DEF DraftInv

(* A question is asked on top of the others.                                     *)
Asked(k, f) == dialogs' = Append(dialogs, [kind |-> k, file |-> f])

LEMMA AskedIs ==
    ASSUME DraftInv, NEW k \in {"gate", "close", "reload", "closeWindow"},
           NEW f \in Files \cup {NoFile}, Asked(k, f), k # "closeWindow" => f \in Files
    PROVE  /\ dialogs' \in Seq(Dialogs)
           /\ \A i \in DOMAIN dialogs' : dialogs'[i].kind # "closeWindow" =>
                  dialogs'[i].file \in Files
           /\ \A i \in DOMAIN dialogs' :
                  \/ dialogs'[i].kind = k /\ dialogs'[i].file = f
                  \/ i \in DOMAIN dialogs /\ dialogs'[i] = dialogs[i]
           /\ \A kinds : k \notin kinds => FewerDialogs(kinds)
<1> DEFINE x == [kind |-> k, file |-> f]
<1>1. x \in Dialogs /\ x.kind = k /\ x.file = f
  BY Dialog
<1>2. dialogs \in Seq(Dialogs) /\ dialogs' = Append(dialogs, x)
  BY Parts DEF QueuesFormed, Asked
<1> HIDE DEF x
<1>3. /\ dialogs' \in Seq(Dialogs)
      /\ \A i \in DOMAIN dialogs' :
             dialogs'[i] = x \/ (i \in DOMAIN dialogs /\ dialogs'[i] = dialogs[i])
  BY <1>1, <1>2, PutLast
<1>4. \A i \in DOMAIN dialogs' : \/ dialogs'[i].kind = k /\ dialogs'[i].file = f
                                 \/ i \in DOMAIN dialogs /\ dialogs'[i] = dialogs[i]
  BY <1>1, <1>3
<1>5. \A kinds : k \notin kinds => FewerDialogs(kinds)
  BY <1>4 DEF FewerDialogs
<1>6. \A i \in DOMAIN dialogs' : dialogs'[i].kind # "closeWindow" =>
          dialogs'[i].file \in Files
  BY <1>4, Parts DEF QueuesFormed
<1> QED  BY <1>3, <1>4, <1>5, <1>6

LEMMA CloseRequestKeeps == ASSUME DraftInv, OnCloseRequest PROVE DraftInv'
<1>1. /\ toEditor # <<>> /\ toEditor' = Tail(toEditor)
      /\ Steady /\ UNCHANGED <<sent, confirmed, wanted>>
      /\ \/ (\A f \in Files : ~dirty[f]) /\ closeNow' = TRUE /\ dialogs' = dialogs
         \/ Asked("closeWindow", NoFile) /\ closeNow' = closeNow
  BY DEF OnCloseRequest, Received, Steady, Asked, callVars
<1>2. ready
  BY <1>1, Parts DEF NoPage
<1>3. /\ toEditor' \in Seq(Files \cup {"closeRequest"})
      /\ \A i \in DOMAIN toEditor' : i + 1 \in DOMAIN toEditor /\ toEditor'[i] = toEditor[i + 1]
  BY <1>1, Parts, TakeFirst DEF QueuesFormed
<1>4. GivesUp /\ FewerFiles
  BY <1>1, <1>3 DEF GivesUp, FewerFiles
<1>5. DOMAIN confirmed' = Files /\ {sent, wanted}' \subseteq [Files -> Texts \cup {NoText}]
  BY <1>1, Parts DEF TabsFormed
<1>6. /\ TabsInv' /\ SameRisk /\ NoPage'
      /\ UNCHANGED <<ready, pending, status, dirty, active, editor>>
  BY <1>1, <1>2, <1>4, <1>5, SteadyKeeps
<1>7. /\ FewerDialogs({"reload"}) /\ FewerDialogs({"gate", "close", "reload"})
      /\ dialogs' \in Seq(Dialogs)
      /\ \A i \in DOMAIN dialogs' : dialogs'[i].kind # "closeWindow" =>
             dialogs'[i].file \in Files
  <2>1. CASE dialogs' = dialogs
    BY <2>1, Parts DEF QueuesFormed, FewerDialogs
  <2>2. CASE Asked("closeWindow", NoFile)
    BY <2>2, AskedIs
  <2> QED  BY <1>1, <2>1, <2>2
<1>8. RiskIsShown'
  <2>1. CASE closeNow' = closeNow
    BY <1>1, <1>4, <1>6, <1>7, <2>1, Parts, RiskStays
  <2>2. CASE \A f \in Files : ~dirty[f]
    BY <1>6, <2>2 DEF RiskIsShown, AtRisk
  <2> QED  BY <1>1, <2>1, <2>2
<1>9. SavesShown'
  BY <1>1, <1>4, <1>6, <1>7, Parts, SavesStay
<1>10. QueuesFormed'
  BY <1>3, <1>6, <1>7, Parts DEF QueuesFormed
<1> QED  BY <1>6, <1>8, <1>9, <1>10 DEF DraftInv

LEMMA SaveEndsKeeps ==
    ASSUME DraftInv, NEW f \in Files, SaveAsks(f) \/ SaveRefused(f)
    PROVE  DraftInv'
<1>1. /\ sent[f] # NoText /\ sent' = [sent EXCEPT ![f] = NoText]
      /\ Steady /\ UNCHANGED <<confirmed, wanted, toEditor, closeNow>>
      /\ dialogs' = dialogs \/ Asked("gate", f)
  BY DEF SaveAsks, SaveRefused, Steady, Asked, mainVars, userVars
<1>2. ready
  BY <1>1, Parts DEF NoPage
<1>3. GivesUp /\ FewerFiles
  BY <1>1 DEF GivesUp, FewerFiles
<1>4. /\ DOMAIN confirmed' = Files /\ {sent, wanted}' \subseteq [Files -> Texts \cup {NoText}]
      /\ \A g \in Files : sent'[g] # NoText => sent'[g] = sent[g]
  BY <1>1, Parts DEF TabsFormed
<1>5. /\ TabsInv' /\ SameRisk /\ NoPage'
      /\ UNCHANGED <<ready, pending, status, dirty, active, editor>>
  BY <1>1, <1>2, <1>3, <1>4, SteadyKeeps
<1>6. /\ dialogs' \in Seq(Dialogs)
      /\ \A i \in DOMAIN dialogs' : dialogs'[i].kind # "closeWindow" =>
             dialogs'[i].file \in Files
      /\ FewerDialogs({"reload"}) /\ FewerDialogs({"close", "reload"})
      /\ \A i \in DOMAIN dialogs' : dialogs'[i].kind = "gate" =>
            dialogs'[i].file = f \/ (i \in DOMAIN dialogs /\ dialogs'[i] = dialogs[i])
  <2>1. CASE dialogs' = dialogs
    BY <2>1, Parts DEF QueuesFormed, FewerDialogs
  <2>2. CASE Asked("gate", f)
    BY <2>2, AskedIs
  <2> QED  BY <1>1, <2>1, <2>2
<1>7. RiskIsShown'
  BY <1>1, <1>3, <1>5, <1>6, Parts, RiskStays
<1>8. /\ editor.on = f /\ AllShown
      /\ \A i \in DOMAIN dialogs : dialogs[i].kind \notin {"close", "reload"}
  BY <1>1, Parts DEF SavesShown
<1>9. AllShown' /\ \A i \in DOMAIN dialogs' : dialogs'[i].kind \notin {"close", "reload"}
  <2>1. AllShown'
    BY <1>3, <1>5, <1>8, StillShown
  <2> QED  BY <1>6, <1>8, <2>1 DEF FewerDialogs
<1>10. SavesShown'
  <2>1. ASSUME NEW g \in Files, sent'[g] # NoText
        PROVE  editor'.on = g /\ (wanted'[g] # NoText => sent'[g] = wanted'[g])
    BY <1>1, <1>4, <1>5, <2>1, Parts DEF SavesShown
  <2>2. ASSUME NEW i \in DOMAIN dialogs', dialogs'[i].kind = "gate"
        PROVE  editor'.on = dialogs'[i].file
    BY <1>5, <1>6, <1>8, <2>2, Parts DEF SavesShown
  <2> QED  BY <1>9, <2>1, <2>2 DEF SavesShown
<1>11. QueuesFormed'
  BY <1>1, <1>5, <1>6, Parts DEF QueuesFormed
<1> QED  BY <1>5, <1>7, <1>10, <1>11 DEF DraftInv

(* A save starts, from the menu or from the answer to its question.              *)
LEMMA SaveStartsKeeps ==
    ASSUME DraftInv, Steady, ready, NEW f \in Files, editor.on = f, AllShown,
           sent' = [sent EXCEPT ![f] = editor.doc], DOMAIN confirmed' = Files,
           UNCHANGED <<toEditor, closeNow, wanted>>,
           \A i \in DOMAIN dialogs : dialogs[i].kind \notin {"close", "reload"},
           \A kinds : FewerDialogs(kinds), dialogs' \in Seq(Dialogs),
           \A i \in DOMAIN dialogs' : dialogs'[i].kind # "closeWindow" =>
               dialogs'[i].file \in Files
    PROVE  DraftInv'
<1>1. GivesUp /\ FewerFiles
  BY DEF GivesUp, FewerFiles
<1>2. editor.doc \in Texts /\ Held(f) = editor.doc
  BY Parts, Apart DEF EditorShows, Held
<1>3. /\ {sent, wanted}' \subseteq [Files -> Texts \cup {NoText}]
      /\ \A g \in Files : sent'[g] = IF g = f THEN editor.doc ELSE sent[g]
  BY <1>2, Parts DEF TabsFormed
<1>4. /\ TabsInv' /\ SameRisk /\ NoPage'
      /\ UNCHANGED <<ready, pending, status, dirty, active, editor>>
  BY <1>1, <1>3, SteadyKeeps
<1>5. RiskIsShown'
  BY <1>1, <1>4, Parts, RiskStays
<1>6. AllShown'
  BY <1>1, <1>4, StillShown
<1>7. \A i \in DOMAIN dialogs' : dialogs'[i].kind \notin {"close", "reload"}
  BY DEF FewerDialogs
<1>8. SavesShown'
  <2>1. ASSUME NEW g \in Files, sent'[g] # NoText
        PROVE  editor'.on = g /\ (wanted'[g] # NoText => sent'[g] = wanted'[g])
    <3>1. CASE g = f
      BY <1>2, <1>3, <1>4, <3>1, Parts DEF WantedHeld
    <3>2. CASE g # f
      BY <1>3, <1>4, <2>1, <3>2, Parts DEF SavesShown
    <3> QED  BY <3>1, <3>2
  <2>2. ASSUME NEW i \in DOMAIN dialogs', dialogs'[i].kind = "gate"
        PROVE  editor'.on = dialogs'[i].file
    BY <1>4, <2>2, Parts DEF SavesShown, FewerDialogs
  <2> QED  BY <1>6, <1>7, <2>1, <2>2 DEF SavesShown
<1>9. QueuesFormed'
  BY <1>4, Parts DEF QueuesFormed
<1> QED  BY <1>4, <1>5, <1>8, <1>9 DEF DraftInv

LEMMA SaveKeeps ==
    ASSUME DraftInv, Calm, AllShown, NEW f \in Files, Save(f)
    PROVE  DraftInv'
<1>1. /\ ready /\ dialogs = <<>> /\ dialogs' = dialogs /\ editor.on = f /\ Steady
      /\ sent' = [sent EXCEPT ![f] = editor.doc]
      /\ confirmed' = [confirmed EXCEPT ![f] = FALSE]
      /\ UNCHANGED <<toEditor, closeNow, wanted>>
  BY DEF Save, Unasked, Saves, Steady, mainVars, userVars
<1>2. DOMAIN confirmed' = Files
  BY <1>1, Parts DEF TabsFormed
<1>3. DOMAIN dialogs = {}
  BY <1>1
<1>4. \A kinds : FewerDialogs(kinds)
  BY <1>1 DEF FewerDialogs
<1>5. dialogs' \in Seq(Dialogs)
  BY <1>1, Parts DEF QueuesFormed
<1>6. /\ \A i \in DOMAIN dialogs : dialogs[i].kind \notin {"close", "reload"}
      /\ \A i \in DOMAIN dialogs' : dialogs'[i].kind # "closeWindow" =>
             dialogs'[i].file \in Files
  BY <1>1, <1>3
<1> QED  BY <1>1, <1>2, <1>4, <1>5, <1>6, SaveStartsKeeps

LEMMA GateKeeps ==
    ASSUME DraftInv, Agree, Last(dialogs).kind = "gate"
    PROVE  DraftInv'
<1> DEFINE f == Last(dialogs).file
<1>1. /\ Answered /\ Steady /\ UNCHANGED <<toEditor, closeNow, wanted>> /\ Confirmed(f)
  BY DEF Agree, Answered, Steady
<1>2. /\ ready /\ dialogs' \in Seq(Dialogs)
      /\ Len(dialogs) \in DOMAIN dialogs /\ Last(dialogs) = dialogs[Len(dialogs)]
      /\ \A i \in DOMAIN dialogs' : dialogs'[i].kind # "closeWindow" =>
             dialogs'[i].file \in Files
      /\ \A kinds : FewerDialogs(kinds)
  BY <1>1, AnsweredIs
<1>3. f \in Files
  BY <1>2, Parts DEF QueuesFormed
<1>4. /\ editor.on = f /\ AllShown
      /\ \A i \in DOMAIN dialogs : dialogs[i].kind \notin {"close", "reload"}
  BY <1>2, Parts DEF SavesShown
<1> HIDE DEF f
<1>5. CASE UNCHANGED <<sent, confirmed>>
  <2>1. GivesUp /\ FewerFiles
    BY <1>1 DEF GivesUp, FewerFiles
  <2>2. DOMAIN confirmed' = Files /\ {sent, wanted}' \subseteq [Files -> Texts \cup {NoText}]
    BY <1>1, <1>5, Parts DEF TabsFormed
  <2>3. /\ TabsInv' /\ SameRisk /\ NoPage'
        /\ UNCHANGED <<ready, pending, status, dirty, active, editor>>
    BY <1>1, <1>2, <2>1, <2>2, SteadyKeeps
  <2>4. RiskIsShown'
    BY <1>1, <1>2, <2>1, <2>3, Parts, RiskStays
  <2>5. SavesShown'
    BY <1>1, <1>2, <1>5, <2>1, <2>3, Parts, SavesStay
  <2>6. QueuesFormed'
    BY <1>1, <1>2, <2>3, Parts DEF QueuesFormed
  <2> QED  BY <2>3, <2>4, <2>5, <2>6 DEF DraftInv
<1>6. CASE Saves(f, TRUE)
  <2>1. /\ sent' = [sent EXCEPT ![f] = editor.doc]
        /\ confirmed' = [confirmed EXCEPT ![f] = TRUE]
    BY <1>6 DEF Saves
  <2>2. DOMAIN confirmed' = Files
    BY <2>1, Parts DEF TabsFormed
  <2> QED  BY <1>1, <1>2, <1>3, <1>4, <2>1, <2>2, SaveStartsKeeps
<1> QED  BY <1>1, <1>5, <1>6 DEF Confirmed

LEMMA LeaveKeeps ==
    ASSUME DraftInv, Agree, Last(dialogs).kind = "closeWindow"
    PROVE  DraftInv'
<1>1. /\ Answered /\ Steady /\ UNCHANGED <<toEditor, sent, confirmed>>
      /\ wanted' = NoTexts
  BY DEF Agree, Answered, Steady, callVars
<1>2. GivesUp /\ FewerFiles /\ \A g \in Files : wanted'[g] = NoText
  BY <1>1, Apart DEF GivesUp, FewerFiles
<1>3. DOMAIN confirmed' = Files /\ {sent, wanted}' \subseteq [Files -> Texts \cup {NoText}]
  BY <1>1, Parts, Apart DEF TabsFormed
<1>4. ready /\ dialogs' \in Seq(Dialogs)
      /\ (\A i \in DOMAIN dialogs' : dialogs'[i].kind # "closeWindow" =>
              dialogs'[i].file \in Files)
      /\ FewerDialogs({"gate", "close", "reload"})
  BY <1>1, AnsweredIs
<1>5. /\ TabsInv' /\ SameRisk /\ NoPage'
      /\ UNCHANGED <<ready, pending, status, dirty, active, editor>>
  BY <1>1, <1>2, <1>3, <1>4, SteadyKeeps
<1>6. RiskIsShown'
  BY <1>2 DEF RiskIsShown, AtRisk
<1>7. SavesShown'
  BY <1>1, <1>2, <1>4, <1>5, Parts, SavesStay
<1>8. QueuesFormed'
  BY <1>1, <1>4, <1>5, Parts DEF QueuesFormed
<1> QED  BY <1>5, <1>6, <1>7, <1>8 DEF DraftInv

(* A question about a tab with changes, asked while nothing else is.             *)
LEMMA QuestionKeeps ==
    ASSUME DraftInv, Calm, ready, Steady, NEW k \in {"close", "reload"}, NEW f \in Files,
           Asked(k, f), UNCHANGED <<toEditor, sent, confirmed, wanted, closeNow>>,
           k = "reload" => active # NoFile /\ Clean(Files \ {f})
    PROVE  DraftInv'
<1>1. GivesUp /\ FewerFiles
  BY DEF GivesUp, FewerFiles
<1>2. DOMAIN confirmed' = Files /\ {sent, wanted}' \subseteq [Files -> Texts \cup {NoText}]
  BY Parts DEF TabsFormed
<1>3. /\ TabsInv' /\ SameRisk /\ NoPage'
      /\ UNCHANGED <<ready, pending, status, dirty, active, editor>>
  BY <1>1, <1>2, SteadyKeeps
<1>4. /\ dialogs' \in Seq(Dialogs)
      /\ \A i \in DOMAIN dialogs' : dialogs'[i].kind # "closeWindow" =>
             dialogs'[i].file \in Files
      /\ \A i \in DOMAIN dialogs' :
             \/ dialogs'[i].kind = k /\ dialogs'[i].file = f
             \/ i \in DOMAIN dialogs /\ dialogs'[i] = dialogs[i]
      /\ k \notin {"gate"} => FewerDialogs({"gate"})
  BY AskedIs
<1>5. dialogs = <<>> /\ \A g \in Files : sent[g] = NoText
  BY Apart DEF Calm
<1>6. \A i \in DOMAIN dialogs' : dialogs'[i].kind = k /\ dialogs'[i].file = f
  BY <1>4, <1>5
<1>7. SavesShown'
  BY <1>3, <1>5, <1>6 DEF SavesShown
<1>8. RiskIsShown'
  <2>1. ASSUME NEW g \in Files, AtRisk(g)'
        PROVE  /\ AllShown' /\ ~closeNow'
               /\ \A i \in DOMAIN dialogs' : dialogs'[i].kind = "reload" => dialogs'[i].file = g
    <3>1. AtRisk(g) /\ dirty[g]
      BY <1>3, <2>1 DEF SameRisk, AtRisk
    <3>2. AllShown /\ ~closeNow
      BY <3>1, Parts DEF RiskIsShown
    <3>3. AllShown'
      BY <1>1, <1>3, <3>2, StillShown
    <3>4. k = "reload" => g = f
      BY <3>1 DEF Clean
    <3> QED  BY <1>6, <3>2, <3>3, <3>4
  <2> QED  BY <2>1 DEF RiskIsShown
<1>9. QueuesFormed'
  BY <1>3, <1>4, Parts DEF QueuesFormed
<1> QED  BY <1>3, <1>7, <1>8, <1>9 DEF DraftInv

-------------------------------------------------------------------------------
(* Steps that show a tab.                                                        *)
LEMMA RiskIs ==
    ASSUME DraftInv, NEW g \in Files, AtRisk(g)
    PROVE  /\ AllShown /\ status[g] # "closed" /\ text[g] # NoText
           /\ \A h \in Files : status[h] # "closed" => ~Lost(h, status, text)
<1>1. AllShown
  BY Parts DEF RiskIsShown
<1>2. text[g] # NoText /\ status[g] # "closed"
  BY Parts DEF AtRisk, WantedHeld, TabsTrue
<1>3. \A h \in Files : status[h] # "closed" => ~Lost(h, status, text)
  BY <1>1, Parts, Apart DEF AllShown, TabsTrue, Lost
<1> QED  BY <1>1, <1>2, <1>3

(* What is left to show of such a step once the tabs are as they should be.      *)
Asking ==
    /\ dialogs' \in Seq(Dialogs)
    /\ \A i \in DOMAIN dialogs' : dialogs'[i].kind # "closeWindow" =>
           dialogs'[i].file \in Files
    /\ FewerDialogs({"gate", "close", "reload"})

LEMMA AskingSame == ASSUME DraftInv, dialogs' = dialogs PROVE Asking
BY Parts DEF QueuesFormed, Asking, FewerDialogs

LEMMA NowShown ==
    ASSUME DraftInv, TabsInv', SameRisk, ready, ready' = ready, pending' = pending, FewerFiles,
           toEditor' \in Seq(Files \cup {"closeRequest"}), Asking, closeNow' => closeNow,
           \A g \in Files : sent'[g] = NoText,
           \A i \in DOMAIN dialogs' : dialogs'[i].kind = "reload" => active' # NoFile,
           \A i \in DOMAIN dialogs' : dialogs'[i].kind # "gate",
           \/ \A g \in Files : ~AtRisk(g)'
           \/ \A g \in Files : status'[g] = status[g] \/ status'[g] = "closed"
    PROVE  DraftInv'
<1>1. FewerDialogs({"reload"})
  BY DEF Asking, FewerDialogs
<1>2. RiskIsShown'
  <2>1. CASE \A g \in Files : ~AtRisk(g)'
    BY <2>1 DEF RiskIsShown
  <2>2. CASE \A g \in Files : status'[g] = status[g] \/ status'[g] = "closed"
    BY <1>1, <2>2, Parts, RiskStays
  <2> QED  BY <2>1, <2>2
<1>3. ASSUME NEW i \in DOMAIN dialogs', dialogs'[i].kind = "reload"
      PROVE  \A j \in DOMAIN dialogs' : dialogs'[j].kind # "close"
  BY <1>3, Parts DEF SavesShown, Asking, FewerDialogs
<1>4. SavesShown'
  BY <1>3 DEF SavesShown
<1>5. QueuesFormed' /\ NoPage'
  BY Parts DEF QueuesFormed, NoPage, Asking
<1> QED  BY <1>2, <1>4, <1>5 DEF DraftInv

(* The calls and what is wanted, typed when a step gives up at most one file.    *)
LEMMA GivingUpTyped ==
    ASSUME DraftInv, UNCHANGED <<sent, confirmed, remote, edits>>, reading' \in Reads,
           \/ wanted' = wanted
           \/ \E f \in Files : wanted' = [wanted EXCEPT ![f] = NoText]
    PROVE  TypedCalls'
BY Parts DEF TabsFormed, TypedCalls

LEMMA ActiveKeeps ==
    ASSUME DraftInv, Calm, NEW f \in Files, SetActive(f)
    PROVE  DraftInv'
<1>1. /\ ready /\ status[f] # "closed" /\ Show(f, status, text, dirty)
      /\ UNCHANGED <<ready, pending, toEditor, closeNow, sent, confirmed, reading, remote,
                     dialogs, wanted, edits>>
  BY DEF SetActive, Unasked, mainVars, callVars, userVars
<1>2. TypedCalls' /\ Whole(f, status, text)
  <2>1. reading' \in Reads /\ f # NoFile
    BY <1>1, Parts, Apart DEF TabsFormed
  <2>2. Whole(f, status, text)
    BY <1>1, <2>1, Parts DEF TabsFormed, TabsTrue, Whole
  <2> QED  BY <1>1, <2>1, <2>2, GivingUpTyped
<1>3. \A g \in Files : wanted'[g] # NoText =>
          /\ wanted'[g] = wanted[g] /\ dirty[g] = dirty[g]
          /\ dirty[g] => ~Lost(f, status, text) /\ status[g] # "closed" /\ text[g] # NoText
  BY <1>1, RiskIs DEF AtRisk
<1>4. Fits(status, text, reading')
  BY <1>1, Parts DEF TabsTrue, Fits
<1>5. dirty \in [Files -> BOOLEAN]
  BY Parts DEF TabsFormed
<1>6. TabsInv' /\ SameRisk
  BY <1>1, <1>2, <1>3, <1>4, <1>5, Parts, ShowKeeps
<1>7. status' = status /\ dialogs' = <<>> /\ \A g \in Files : sent'[g] = NoText
  BY <1>1, Apart DEF Show, Calm
<1>8. FewerFiles /\ Asking /\ toEditor' \in Seq(Files \cup {"closeRequest"})
  BY <1>1, AskingSame, Parts DEF FewerFiles, QueuesFormed
<1> QED  BY <1>1, <1>6, <1>7, <1>8, NowShown

(* A tab closes that is clean or given up, while nothing is sent or asked of one.*)
LEMMA CloseFileKeeps ==
    ASSUME DraftInv, ready, NEW f \in Files, CloseFile(f), reading[f] = 0,
           UNCHANGED <<ready, pending, toEditor, closeNow, edits>>, Asking,
           \A g \in Files : sent[g] = NoText,
           \A i \in DOMAIN dialogs' : dialogs'[i].kind \notin {"gate", "reload"},
           \/ wanted' = wanted /\ ~dirty[f]
           \/ wanted' = [wanted EXCEPT ![f] = NoText]
    PROVE  DraftInv'
<1> DEFINE others == {g \in Files : status[g] # "closed"} \ {f}
           st == [status EXCEPT ![f] = "closed"]
           tx == [text EXCEPT ![f] = NoText]
           d == [dirty EXCEPT ![f] = FALSE]
<1>1. UNCHANGED <<sent, confirmed, reading, remote>>
  BY DEF CloseFile, callVars
<1>2. PICK h \in Files \cup {NoFile} :
          /\ Show(h, st, tx, d)
          /\ h # f /\ (h \in Files => status[h] # "closed")
          /\ h = NoFile => others = {}
  <2>1. CASE active # f /\ Show(active, st, tx, d)
    <3>1. active \in Files \cup {NoFile} /\ (active # NoFile => status[active] # "closed")
      BY Parts DEF TabsFormed, TabsTrue
    <3>2. active = NoFile => \A g \in Files : status[g] = "closed"
      BY Parts DEF TabsTrue
    <3> QED  BY <2>1, <3>1, <3>2, Apart
  <2>2. CASE \E g \in others : Show(g, st, tx, d)
    <3>1. PICK g \in others : Show(g, st, tx, d)
      BY <2>2
    <3>2. g \in Files /\ g # f /\ status[g] # "closed" /\ g # NoFile
      BY <3>1, Apart
    <3> QED  BY <3>1, <3>2
  <2>3. CASE others = {} /\ Show(NoFile, st, tx, d)
    BY <2>3, Apart
  <2> QED  BY <2>1, <2>2, <2>3 DEF CloseFile
<1>3. /\ st \in [Files -> {"closed", "loading", "ready", "error"}]
      /\ tx \in [Files -> Texts \cup {NoText}] /\ d \in [Files -> BOOLEAN]
      /\ \A g \in Files : /\ st[g] = IF g = f THEN "closed" ELSE status[g]
                          /\ tx[g] = IF g = f THEN NoText ELSE text[g]
                          /\ d[g] = IF g = f THEN FALSE ELSE dirty[g]
  BY Parts DEF TabsFormed
<1>4. \A g \in Files : g \notin others => st[g] = "closed"
  BY <1>3
<1>5. \A g \in Files : st[g] # "closed" => g \in others
  BY <1>4
<1> HIDE DEF st, tx, d, others
<1>6. Whole(h, st, tx)
  <2>1. IF h = NoFile THEN \A g \in Files : st[g] = "closed" ELSE st[h] # "closed"
    BY <1>2, <1>3, <1>5
  <2>2. \A g \in Files : tx[g] \in {NoText, remote[g]}
    BY <1>3, Parts DEF TabsTrue
  <2> QED  BY <1>2, <1>3, <2>1, <2>2 DEF Whole
<1>7. TypedCalls' /\ \A g \in Files : wanted'[g] # NoText => wanted'[g] = wanted[g]
  <2>1. reading' \in Reads /\ wanted \in [Files -> Texts \cup {NoText}]
    BY <1>1, Parts DEF TabsFormed
  <2> QED  BY <1>1, <2>1, GivingUpTyped
<1>8. ASSUME NEW g \in Files, wanted'[g] # NoText
      PROVE  /\ wanted'[g] = wanted[g] /\ d[g] = dirty[g]
             /\ dirty[g] => ~Lost(h, st, tx) /\ st[g] # "closed" /\ tx[g] # NoText
  <2>1. wanted \in [Files -> Texts \cup {NoText}] /\ (g = f => ~dirty[f])
    BY <1>8, Parts DEF TabsFormed
  <2>2. ASSUME dirty[g] PROVE ~Lost(h, st, tx) /\ st[g] # "closed" /\ tx[g] # NoText
    <3>1. AtRisk(g) /\ g # f
      BY <1>7, <1>8, <2>1, <2>2 DEF AtRisk
    <3>2. /\ status[g] # "closed" /\ text[g] # NoText
          /\ \A k \in Files : status[k] # "closed" => ~Lost(k, status, text)
      BY <3>1, RiskIs
    <3>3. st[g] # "closed" /\ tx[g] # NoText /\ g \in others
      BY <1>3, <1>5, <3>1, <3>2
    <3>4. h \in Files /\ h # f /\ status[h] # "closed"
      BY <1>2, <3>3
    <3>5. ~Lost(h, st, tx)
      BY <1>3, <3>2, <3>4 DEF Lost
    <3> QED  BY <3>3, <3>5
  <2>3. d[g] = dirty[g]
    <3>1. dirty[g] \in BOOLEAN /\ d[g] = IF g = f THEN FALSE ELSE dirty[g]
      BY <1>3, Parts DEF TabsFormed
    <3>2. CASE g = f
      BY <2>1, <3>1, <3>2, Zenon
    <3>3. CASE g # f
      BY <3>1, <3>3
    <3> QED  BY <3>2, <3>3
  <2> QED  BY <1>7, <1>8, <2>2, <2>3
<1>9. Fits(st, tx, reading')
  BY <1>1, <1>3, Parts DEF TabsTrue, Fits
<1>10. TabsInv' /\ SameRisk
  BY <1>1, <1>2, <1>3, <1>6, <1>7, <1>8, <1>9, Parts, ShowKeeps
<1>11. \A g \in Files : status'[g] = status[g] \/ status'[g] = "closed"
  BY <1>2, <1>3 DEF Show
<1>12. FewerFiles /\ toEditor' \in Seq(Files \cup {"closeRequest"})
  BY Parts DEF FewerFiles, QueuesFormed
<1> QED  BY <1>1, <1>10, <1>11, <1>12, NowShown

(* A step that shows a tab while nothing is at risk but what is given up.        *)
LEMMA QuietShowKeeps ==
    ASSUME DraftInv, ready, NEW a, NEW st, NEW tx, NEW d \in [Files -> BOOLEAN],
           Show(a, st, tx, d), Whole(a, st, tx), a # NoFile,
           UNCHANGED <<ready, pending, closeNow, sent, confirmed, remote, edits>>,
           reading' \in Reads,
           toEditor' \in Seq(Files \cup {"closeRequest"}), FewerFiles, Asking,
           \A g \in Files : sent[g] = NoText,
           \A i \in DOMAIN dialogs' : dialogs'[i].kind # "gate",
           Fits(st, tx, reading'),
           \/ wanted' = wanted
           \/ \E f \in Files : wanted' = [wanted EXCEPT ![f] = NoText],
           \A g \in Files : wanted'[g] # NoText => ~dirty[g] /\ ~d[g]
    PROVE  DraftInv'
<1>1. wanted \in [Files -> Texts \cup {NoText}] /\ dirty \in [Files -> BOOLEAN]
  BY Parts DEF TabsFormed
<1>2. TypedCalls' /\ \A g \in Files : wanted'[g] # NoText => wanted'[g] = wanted[g]
  BY <1>1, GivingUpTyped
<1>3. ASSUME NEW g \in Files, wanted'[g] # NoText
      PROVE  wanted'[g] = wanted[g] /\ ~dirty[g] /\ d[g] = dirty[g]
  <2>1. ~dirty[g] /\ ~d[g]
    BY <1>3
  <2>2. dirty[g] \in BOOLEAN /\ d[g] \in BOOLEAN
    BY <1>1
  <2>3. d[g] = dirty[g]
    BY <2>1, <2>2, Zenon
  <2> QED  BY <1>2, <1>3, <2>1, <2>3
<1>4. TabsInv' /\ SameRisk
  BY <1>2, <1>3, Parts, ShowKeeps
<1>5. \A g \in Files : ~AtRisk(g)'
  BY <1>3, <1>4 DEF SameRisk, AtRisk
<1>6. active' # NoFile
  BY DEF Show
<1> QED  BY <1>4, <1>5, <1>6, NowShown

LEMMA ReloadKeeps ==
    ASSUME DraftInv, ready, NEW f \in Files, NEW a \in Files, Reload(f, a),
           a = f \/ status[a] # "closed", reading[f] = 0,
           UNCHANGED <<ready, pending, closeNow, edits>>,
           toEditor' \in Seq(Files \cup {"closeRequest"}), FewerFiles, Asking,
           \A g \in Files : sent[g] = NoText,
           \A i \in DOMAIN dialogs' : dialogs'[i].kind # "gate",
           \/ wanted' = wanted
           \/ \E g \in Files : wanted' = [wanted EXCEPT ![g] = NoText],
           \A g \in Files : wanted'[g] # NoText => ~dirty[g]
    PROVE  DraftInv'
<1> DEFINE st == [status EXCEPT ![f] = "loading"]
<1>1. /\ Show(a, st, text, dirty) /\ reading' = [reading EXCEPT ![f] = @ + 1]
      /\ reading[f] < MaxReads
      /\ UNCHANGED <<sent, confirmed, remote>>
  BY DEF Reload
<1>2. /\ st \in [Files -> {"closed", "loading", "ready", "error"}]
      /\ \A g \in Files : st[g] = IF g = f THEN "loading" ELSE status[g]
      /\ text \in [Files -> Texts \cup {NoText}] /\ dirty \in [Files -> BOOLEAN]
      /\ reading' \in Reads /\ a # NoFile
      /\ \A g \in Files : reading'[g] = IF g = f THEN 1 ELSE reading[g]
  BY <1>1, Parts, Apart DEF TabsFormed, Reads
<1> HIDE DEF st
<1>3. Whole(a, st, text)
  BY <1>2, Parts DEF Whole, TabsTrue
<1>4. Fits(st, text, reading')
  BY <1>2, Parts DEF TabsTrue, Fits
<1> QED  BY <1>1, <1>2, <1>3, <1>4, QuietShowKeeps

(* A message about a file, or the answer to a read: nothing is at risk.          *)
LEMMA NotShown ==
    ASSUME DraftInv, ~AllShown
    PROVE  /\ \A g \in Files : /\ sent[g] = NoText
                               /\ wanted[g] # NoText => ~dirty[g]
           /\ \A i \in DOMAIN dialogs : dialogs[i].kind # "gate"
BY Parts DEF RiskIsShown, SavesShown, AtRisk

LEMMA OnOpenKeeps == ASSUME DraftInv, OnOpen PROVE DraftInv'
<1> DEFINE f == Head(toEditor)
<1>1. /\ toEditor # <<>> /\ toEditor' = Tail(toEditor) /\ f \in Files
      /\ \/ status[f] # "closed" /\ Show(f, status, text, dirty) /\ UNCHANGED callVars
         \/ status[f] = "closed" /\ Reload(f, f)
      /\ UNCHANGED <<ready, pending, closeNow, dialogs, wanted, edits>>
  BY DEF OnOpen, Received, userVars
<1>2. /\ toEditor' \in Seq(Files \cup {"closeRequest"}) /\ 1 \in DOMAIN toEditor /\ f = toEditor[1]
      /\ \A i \in DOMAIN toEditor' : i + 1 \in DOMAIN toEditor /\ toEditor'[i] = toEditor[i + 1]
  BY <1>1, Parts, TakeFirst DEF QueuesFormed
<1> HIDE DEF f
<1>3. ready
  BY <1>1, Parts DEF NoPage
<1>4. ~AllShown
  BY <1>1, <1>2, NoFilesIn DEF AllShown
<1>5. /\ \A g \in Files : sent[g] = NoText /\ (wanted[g] # NoText => ~dirty[g])
      /\ \A i \in DOMAIN dialogs' : dialogs'[i].kind # "gate"
  BY <1>1, <1>4, NotShown
<1>6. FewerFiles /\ Asking
  BY <1>1, <1>2, AskingSame DEF FewerFiles
<1>7. CASE status[f] = "closed" /\ Reload(f, f)
  <2>1. reading[f] = 0
    BY <1>1, <1>7, Parts DEF TabsTrue
  <2> QED  BY <1>1, <1>2, <1>3, <1>5, <1>6, <1>7, <2>1, ReloadKeeps
<1>8. CASE status[f] # "closed" /\ Show(f, status, text, dirty) /\ UNCHANGED callVars
  <2>1. UNCHANGED <<sent, confirmed, reading, remote>> /\ f # NoFile
    BY <1>1, <1>8, Apart DEF callVars
  <2>2. Whole(f, status, text) /\ reading' \in Reads
    BY <1>1, <1>8, <2>1, Parts DEF Whole, TabsFormed, TabsTrue
  <2>3. Fits(status, text, reading')
    BY <2>1, Parts DEF TabsTrue, Fits
  <2>4. dirty \in [Files -> BOOLEAN]
    BY Parts DEF TabsFormed
  <2> QED  BY <1>1, <1>2, <1>3, <1>5, <1>6, <1>8, <2>1, <2>2, <2>3, <2>4, QuietShowKeeps
<1> QED  BY <1>1, <1>7, <1>8

LEMMA ReadKeeps ==
    ASSUME DraftInv, NEW f \in Files, ReadDone(f) \/ ReadFails(f)
    PROVE  DraftInv'
<1>1. /\ reading[f] > 0 /\ reading' = [reading EXCEPT ![f] = @ - 1]
      /\ UNCHANGED <<ready, pending, toEditor, closeNow, sent, confirmed, remote, dialogs,
                     wanted, edits>>
  BY DEF ReadDone, ReadFails, mainVars, userVars
<1>2. /\ reading' \in Reads /\ \A g \in Files : reading'[g] = IF g = f THEN 0 ELSE reading[g]
      /\ FewerFiles /\ Asking /\ toEditor' \in Seq(Files \cup {"closeRequest"})
  <2>1. FewerFiles /\ Asking /\ toEditor' \in Seq(Files \cup {"closeRequest"})
    BY <1>1, AskingSame, Parts DEF QueuesFormed, FewerFiles
  <2>2. reading' \in Reads /\ \A g \in Files : reading'[g] = IF g = f THEN 0 ELSE reading[g]
    BY <1>1, Parts, Apart DEF TabsFormed, TabsTrue, Reads
  <2> QED  BY <2>1, <2>2
<1>3. ASSUME UNCHANGED tabVars PROVE DraftInv'
  <2>1. UNCHANGED <<status, active, editor>>
    BY <1>3 DEF tabVars
  <2>2. TypedCalls' /\ GivesUp
    BY <1>1, <1>2, GivingUpTyped DEF GivesUp
  <2>3. TabsInv' /\ SameRisk
    BY <1>1, <1>2, <1>3, <2>2, Parts, QuietKeeps
  <2>4. FewerDialogs({"reload"}) /\ FewerDialogs({"gate", "close", "reload"})
    BY <1>1 DEF FewerDialogs
  <2>5. RiskIsShown'
    BY <1>1, <1>2, <2>1, <2>3, <2>4, Parts, RiskStays
  <2>6. SavesShown'
    BY <1>1, <1>2, <2>1, <2>2, <2>4, Parts, SavesStay
  <2>7. QueuesFormed' /\ NoPage'
    BY <1>1, <2>1, Parts DEF QueuesFormed, NoPage
  <2> QED  BY <2>3, <2>5, <2>6, <2>7 DEF DraftInv
<1>4. ASSUME status[f] # "closed",
             NEW s \in {"ready", "error"}, NEW t, t = remote[f] \/ (t = NoText /\ s = "error"),
             NEW d, d = dirty \/ d = [dirty EXCEPT ![f] = FALSE],
             Show(active, [status EXCEPT ![f] = s], [text EXCEPT ![f] = t], d)
      PROVE  DraftInv'
  <2> DEFINE st == [status EXCEPT ![f] = s]
             tx == [text EXCEPT ![f] = t]
  <2>1. ready
    BY <1>4, Parts DEF NoPage
  <2>2. status[f] = "loading" /\ ~AllShown
    BY <1>1, <1>4, Parts DEF TabsTrue, AllShown
  <2>3. /\ \A g \in Files : sent[g] = NoText /\ (wanted[g] # NoText => ~dirty[g])
        /\ \A i \in DOMAIN dialogs' : dialogs'[i].kind # "gate"
    BY <1>1, <2>2, NotShown
  <2>4. active \in Files /\ active # NoFile /\ status[active] # "closed"
    BY <1>4, Parts DEF TabsTrue, TabsFormed
  <2>5. remote[f] \in Texts /\ remote[f] # NoText /\ t \in Texts \cup {NoText}
    BY <1>4, Parts, Apart DEF TabsFormed
  <2>6. /\ st \in [Files -> {"closed", "loading", "ready", "error"}]
        /\ tx \in [Files -> Texts \cup {NoText}]
        /\ \A g \in Files : /\ st[g] = IF g = f THEN s ELSE status[g]
                            /\ tx[g] = IF g = f THEN t ELSE text[g]
    BY <2>5, Parts DEF TabsFormed
  <2>7. /\ d \in [Files -> BOOLEAN] /\ \A g \in Files : ~dirty[g] => ~d[g]
    BY <1>4, Parts DEF TabsFormed
  <2>8. Show(active, st, tx, d)
    BY <1>4
  <2> HIDE DEF st, tx
  <2>9. Whole(active, st, tx)
    <3>1. st[active] # "closed"
      BY <2>4, <2>6
    <3>2. \A g \in Files : tx[g] \in {NoText, remote[g]}
      BY <1>4, <2>6, Parts DEF TabsTrue
    <3> QED  BY <2>4, <2>6, <3>1, <3>2 DEF Whole
  <2>10. Fits(st, tx, reading')
    BY <1>2, <1>4, <2>5, <2>6, Parts DEF TabsTrue, Fits
  <2>11. \A g \in Files : wanted'[g] # NoText => ~dirty[g] /\ ~d[g]
    BY <1>1, <2>3, <2>7
  <2> QED  BY <1>1, <1>2, <2>1, <2>3, <2>4, <2>7, <2>8, <2>9, <2>10, <2>11, QuietShowKeeps
<1>5. CASE ReadDone(f)
  <2>1. \/ UNCHANGED tabVars
        \/ /\ status[f] # "closed"
           /\ Show(active, [status EXCEPT ![f] = "ready"],
                   [text EXCEPT ![f] = remote[f]], [dirty EXCEPT ![f] = FALSE])
    BY <1>5 DEF ReadDone
  <2> QED  BY <1>3, <1>4, <2>1
<1>6. CASE ReadFails(f)
  <2>1. \/ UNCHANGED tabVars
        \/ /\ status[f] # "closed"
           /\ Show(active, [status EXCEPT ![f] = "error"], [text EXCEPT ![f] = NoText], dirty)
    BY <1>6 DEF ReadFails
  <2> QED  BY <1>3, <1>4, <2>1
<1> QED  BY <1>5, <1>6

(* One tab at a time is asked about, and it is open and no read of it is under way. *)
OfTab == {"close", "reload"}

AskedIdle ==
    \A i \in DOMAIN dialogs : dialogs[i].kind \in OfTab =>
        /\ status[dialogs[i].file] # "closed" /\ reading[dialogs[i].file] = 0
        /\ \A j \in DOMAIN dialogs : dialogs[j].kind \in OfTab => j = i

(* What the user asks of a tab, and the answers to the questions about it.       *)
LEMMA TryCloseKeeps ==
    ASSUME DraftInv, Calm, NEW f \in Files, reading[f] = 0, TryClose(f)
    PROVE  DraftInv'
<1>1. /\ ready /\ UNCHANGED <<ready, pending, toEditor, closeNow, wanted, edits>>
      /\ \/ ~dirty[f] /\ CloseFile(f) /\ dialogs' = dialogs
         \/ Asked("close", f) /\ UNCHANGED <<tabVars, callVars>>
  BY DEF TryClose, Unasked, Asked, mainVars
<1>2. dialogs = <<>> /\ \A g \in Files : sent[g] = NoText
  BY Apart DEF Calm
<1>3. CASE ~dirty[f] /\ CloseFile(f) /\ dialogs' = dialogs
  <2>1. Asking
    BY <1>3, AskingSame
  <2> QED  BY <1>1, <1>2, <1>3, <2>1, CloseFileKeeps
<1>4. CASE Asked("close", f) /\ UNCHANGED <<tabVars, callVars>>
  <2>1. Steady /\ UNCHANGED <<sent, confirmed>>
    BY <1>1, <1>4 DEF Steady, callVars
  <2> QED  BY <1>1, <1>4, <2>1, QuestionKeeps
<1> QED  BY <1>1, <1>3, <1>4

LEMMA TryReloadKeeps ==
    ASSUME DraftInv, Calm, NEW f \in Files, reading[f] = 0, Clean(Files \ {f}), TryReload(f)
    PROVE  DraftInv'
<1>1. /\ ready /\ UNCHANGED <<ready, pending, toEditor, closeNow, wanted, edits>>
      /\ active = f /\ f # NoFile
      /\ \/ ~dirty[f] /\ Reload(f, f) /\ dialogs' = dialogs
         \/ Asked("reload", f) /\ UNCHANGED <<tabVars, callVars>>
  BY Apart DEF TryReload, Unasked, Asked, mainVars
<1>2. dialogs = <<>> /\ \A g \in Files : sent[g] = NoText
  BY Apart DEF Calm
<1>3. CASE ~dirty[f] /\ Reload(f, f) /\ dialogs' = dialogs
  <2>1. Asking /\ FewerFiles /\ toEditor' \in Seq(Files \cup {"closeRequest"})
    BY <1>1, <1>3, AskingSame, Parts DEF FewerFiles, QueuesFormed
  <2>2. \A g \in Files : ~dirty[g]
    BY <1>3 DEF Clean
  <2> QED  BY <1>1, <1>2, <1>3, <2>1, <2>2, ReloadKeeps
<1>4. CASE Asked("reload", f) /\ UNCHANGED <<tabVars, callVars>>
  <2>1. Steady /\ UNCHANGED <<sent, confirmed>>
    BY <1>1, <1>4 DEF Steady, callVars
  <2> QED  BY <1>1, <1>4, <2>1, QuestionKeeps
<1> QED  BY <1>1, <1>3, <1>4

LEMMA AgreeKeeps == ASSUME DraftInv, AskedIdle, Agree PROVE DraftInv'
<1> DEFINE f == Last(dialogs).file
           kind == Last(dialogs).kind
<1>1. /\ Answered /\ UNCHANGED <<ready, pending, toEditor, edits>>
      /\ \/ kind = "gate"
         \/ /\ kind = "close" /\ CloseFile(f)
            /\ wanted' = [wanted EXCEPT ![f] = NoText] /\ closeNow' = closeNow
         \/ /\ kind = "reload" /\ Reload(f, active)
            /\ wanted' = [wanted EXCEPT ![f] = NoText] /\ closeNow' = closeNow
         \/ kind = "closeWindow"
  BY DEF Agree, Answered
<1>2. /\ ready /\ dialogs' \in Seq(Dialogs)
      /\ Len(dialogs) \in DOMAIN dialogs /\ Last(dialogs) = dialogs[Len(dialogs)]
      /\ \A i \in DOMAIN dialogs' : i \in DOMAIN dialogs /\ dialogs'[i] = dialogs[i]
      /\ \A i \in DOMAIN dialogs' : dialogs'[i].kind # "closeWindow" =>
             dialogs'[i].file \in Files
      /\ FewerDialogs({"gate", "close", "reload"})
  BY <1>1, AnsweredIs
<1>3. Asking /\ FewerFiles /\ toEditor' \in Seq(Files \cup {"closeRequest"})
  BY <1>1, <1>2, Parts DEF Asking, FewerFiles, QueuesFormed
<1>4. kind # "closeWindow" => f \in Files
  BY <1>2, Parts DEF QueuesFormed
<1>5. kind \in {"close", "reload"} =>
          /\ \A g \in Files : sent[g] = NoText
          /\ \A i \in DOMAIN dialogs' : dialogs'[i].kind # "gate"
  BY <1>2, Parts DEF SavesShown
<1>10. kind \in {"close", "reload"} => reading[f] = 0
  BY <1>2 DEF AskedIdle, OfTab
<1>6. CASE kind = "gate"
  BY <1>6, GateKeeps
<1>7. CASE kind = "closeWindow"
  BY <1>7, LeaveKeeps
<1>8. CASE kind = "close"
  <2>1. \A i \in DOMAIN dialogs' : dialogs'[i].kind # "reload"
    BY <1>2, <1>8, Parts DEF SavesShown
  <2>2. /\ f \in Files /\ CloseFile(f) /\ wanted' = [wanted EXCEPT ![f] = NoText]
        /\ closeNow' = closeNow
    BY <1>1, <1>4, <1>8
  <2>3. \A i \in DOMAIN dialogs' : dialogs'[i].kind \notin {"gate", "reload"}
    BY <1>5, <1>8, <2>1
  <2> HIDE DEF f, kind
  <2> QED  BY <1>1, <1>2, <1>3, <1>5, <1>10, <1>8, <2>2, <2>3, CloseFileKeeps
<1>9. CASE kind = "reload"
  <2>1. /\ f \in Files /\ Reload(f, active) /\ wanted' = [wanted EXCEPT ![f] = NoText]
        /\ closeNow' = closeNow
    BY <1>1, <1>4, <1>9
  <2>2. active # NoFile /\ \A g \in Files : AtRisk(g) => g = f
    BY <1>2, <1>9, Parts DEF SavesShown, RiskIsShown
  <2>3. active \in Files /\ status[active] # "closed"
    BY <2>2, Parts DEF TabsTrue, TabsFormed
  <2> HIDE DEF f, kind
  <2>4. \A g \in Files : wanted'[g] # NoText => ~dirty[g]
    BY <2>1, <2>2, Parts DEF TabsFormed, AtRisk
  <2> QED  BY <1>1, <1>2, <1>3, <1>5, <1>10, <1>9, <2>1, <2>3, <2>4, ReloadKeeps
<1> QED  BY <1>1, <1>6, <1>7, <1>8, <1>9

(* The text is changed, or changed back.                                         *)
LEMMA TypeKeeps ==
    ASSUME DraftInv, Calm, AllShown, NEW f \in Files, Type(f)
    PROVE  DraftInv'
<1>1. PICK doc \in {<<f, edits + 1>>, editor.base[f]} :
          /\ editor' = [editor EXCEPT !.doc = doc]
          /\ dirty' = [dirty EXCEPT ![f] = (doc # editor.base[f])]
          /\ wanted' = [wanted EXCEPT ![f] = doc]
  BY DEF Type
<1>2. /\ ready /\ editor.on = f /\ status[f] = "ready" /\ edits < MaxTyped /\ edits' = edits + 1
      /\ UNCHANGED <<ready, pending, toEditor, closeNow, status, text, active, sent, confirmed,
                     reading, remote, dialogs>>
  BY DEF Type, Unasked, mainVars, callVars
<1>3. /\ dialogs = <<>> /\ ~closeNow /\ \A g \in Files : sent[g] = NoText
  BY Apart DEF Calm
<1>4. /\ f = active /\ f # NoFile /\ text[f] # NoText /\ editor.base[f] = text[f]
      /\ text[f] = remote[f] /\ remote[f] \in Texts
  BY <1>2, Parts, Apart DEF EditorShows, TabsTrue, TabsFormed
<1>5. edits + 1 \in 0..MaxTyped /\ edits' \in Nat
  BY <1>2, Parts, Apart DEF TabsFormed
<1>6. doc \in Texts /\ doc # NoText
  <2>1. <<f, edits + 1>> \in Texts
    BY <1>5 DEF Texts
  <2> QED  BY <1>1, <1>4, <2>1, Apart
<1>7. /\ DOMAIN editor' = {"on", "doc", "stash", "base"} /\ editor'.doc = doc
      /\ editor'.on = editor.on /\ editor'.stash = editor.stash /\ editor'.base = editor.base
  BY <1>1, Parts DEF Formed
<1>8. Formed(editor') /\ EditorShows'
  BY <1>2, <1>4, <1>6, <1>7, Parts DEF Formed, EditorShows
<1>9. /\ wanted' \in [Files -> Texts \cup {NoText}]
      /\ \A g \in Files : wanted'[g] = IF g = f THEN doc ELSE wanted[g]
  BY <1>1, <1>6, Parts DEF TabsFormed
<1>10. /\ dirty' \in [Files -> BOOLEAN] /\ (dirty'[f] <=> doc # remote[f])
       /\ \A g \in Files \ {f} : dirty'[g] = dirty[g]
  BY <1>1, <1>4, Parts DEF TabsFormed
<1>11. TabsFormed'
  BY <1>2, <1>5, <1>9, <1>10, Parts DEF TabsFormed
<1>12. TabsTrue'
  BY <1>2, <1>7, Parts DEF TabsTrue
<1>13. Held(f)' = doc /\ \A g \in Files \ {f} : Held(g)' = Held(g)
  BY <1>2, <1>7 DEF Held
<1>14. WantedHeld'
  <2>1. ASSUME NEW g \in Files, wanted'[g] # NoText
        PROVE  /\ wanted'[g] = Held(g)' /\ (dirty'[g] <=> Held(g)' # remote'[g])
               /\ text'[g] = NoText => ~dirty'[g]
    <3>1. CASE g = f
      BY <1>2, <1>4, <1>9, <1>10, <1>13, <3>1
    <3>2. CASE g # f
      BY <1>2, <1>9, <1>10, <1>13, <2>1, <3>2, Parts DEF WantedHeld
    <3> QED  BY <3>1, <3>2
  <2> QED  BY <2>1 DEF WantedHeld
<1>15. AllShown'
  BY <1>2 DEF AllShown
<1>16. RiskIsShown' /\ SavesShown'
  BY <1>2, <1>3, <1>15 DEF RiskIsShown, SavesShown
<1>17. QueuesFormed' /\ NoPage'
  BY <1>2, Parts DEF QueuesFormed, NoPage
<1> QED  BY <1>8, <1>11, <1>12, <1>14, <1>16, <1>17 DEF DraftInv, TabsInv

(* A save of the tab that is shown: its text becomes the one beneath the editor. *)
LEMMA SaveDoneKeeps ==
    ASSUME DraftInv, NEW f \in Files, SaveDone(f)
    PROVE  DraftInv'
<1> DEFINE s == sent[f]
           tx == [text EXCEPT ![f] = s]
           d == [dirty EXCEPT ![f] = FALSE]
<1>1. /\ s # NoText /\ remote' = [remote EXCEPT ![f] = s] /\ sent' = [sent EXCEPT ![f] = NoText]
      /\ UNCHANGED <<ready, pending, toEditor, closeNow, confirmed, reading, dialogs, wanted,
                     edits>>
  BY DEF SaveDone, mainVars, userVars
<1>2. /\ editor.on = f /\ f = active /\ f # NoFile /\ AllShown /\ (wanted[f] # NoText => s = wanted[f])
      /\ editor.doc \in Texts /\ text[f] # NoText /\ editor.base[f] = text[f]
      /\ s \in Texts
  BY <1>1, Parts, Apart DEF SavesShown, EditorShows, TabsFormed
<1>3. status[f] = "ready" /\ \A g \in Files : status[g] # "error"
  BY <1>2, Parts DEF AllShown, TabsTrue
<1>4. Show(f, status, tx, d)
  BY <1>2, <1>3 DEF SaveDone
<1>5. /\ tx \in [Files -> Texts \cup {NoText}] /\ d \in [Files -> BOOLEAN]
      /\ \A g \in Files : /\ tx[g] = IF g = f THEN s ELSE text[g]
                          /\ remote'[g] = IF g = f THEN s ELSE remote[g]
                          /\ sent'[g] = IF g = f THEN NoText ELSE sent[g]
      /\ ~d[f] /\ \A g \in Files : g # f => d[g] = dirty[g]
      /\ remote' \in [Files -> Texts] /\ sent' \in [Files -> Texts \cup {NoText}]
  BY <1>1, <1>2, Parts DEF TabsFormed
<1> DEFINE e == Rendered(f, status, tx)
           w == DraftSwap(editor, f, tx[f])
<1>6. /\ active' = f /\ status' = status /\ text' = tx /\ editor' = e
      /\ dirty' = IF e.on # NoFile /\ (e.on # editor.on \/ e.base[e.on] # editor.base[e.on])
                  THEN [d EXCEPT ![e.on] = (e.doc # e.base[e.on])] ELSE d
  BY <1>4 DEF Show
<1>7. e = Cleaned(w, status) /\ tx[f] = s
  BY <1>2, <1>3, <1>5, Apart DEF Rendered
<1>8. /\ Formed(w) /\ w.on = f /\ w.doc \in Texts
      /\ s = editor.base[f] => w = editor
      /\ s # editor.base[f] => w.doc = s
      /\ w.stash = editor.stash /\ w.base[f] = s
      /\ \A g \in Files \ {f} : w.base[g] = editor.base[g]
  BY <1>2, <1>7, Parts, SwapTab
<1> HIDE DEF w, s, tx, d
<1>9. /\ Formed(e) /\ e.on = f /\ e.doc = w.doc
      /\ \A g \in Files :
            /\ e.stash[g] = IF status[g] = "closed" THEN NoText ELSE editor.stash[g]
            /\ status[g] # "closed" => e.base[g] = w.base[g]
  BY <1>7, <1>8, CleanTab
<1> HIDE DEF e
<1>10. e.base[f] = s
  BY <1>3, <1>8, <1>9
<1>11. wanted[f] # NoText => e.doc = s
  <2>1. wanted[f] # NoText => wanted[f] = editor.doc
    BY <1>2, Parts DEF WantedHeld, Held
  <2> QED  BY <1>2, <1>8, <1>9, <2>1
<1>12. /\ dirty' \in [Files -> BOOLEAN] /\ \A g \in Files : g # f => dirty'[g] = dirty[g]
       /\ e.doc = s => ~dirty'[f]
  <2>1. CASE dirty' = d
    BY <1>5, <2>1
  <2>2. CASE dirty' # d
    <3>1. dirty' = [d EXCEPT ![f] = (e.doc # e.base[f])]
      BY <1>6, <1>9, <2>2
    <3> QED  BY <1>5, <1>10, <3>1
  <2> QED  BY <2>1, <2>2
<1>13. ASSUME NEW g \in Files, g # f
       PROVE  Held(g)' = Held(g)
  <2>1. /\ editor'.on # g /\ editor.on # g /\ remote'[g] = remote[g]
        /\ editor'.stash[g] = editor.stash[g]
        /\ status[g] # "closed" => editor'.base[g] = editor.base[g]
        /\ status[g] = "closed" => editor.stash[g] = NoText
    BY <1>2, <1>5, <1>6, <1>8, <1>9, <1>13, Parts DEF TabsTrue
  <2> QED  BY <2>1 DEF Held
<1>14. EditorShows' /\ TabsFormed'
  <2>1. EditorShows'
    BY <1>2, <1>5, <1>6, <1>8, <1>9, <1>10, Apart DEF EditorShows
  <2>2. TabsFormed'
    BY <1>1, <1>2, <1>5, <1>6, <1>12, Parts DEF TabsFormed
  <2> QED  BY <2>1, <2>2
<1>15. TabsTrue'
  BY <1>1, <1>2, <1>3, <1>5, <1>6, <1>9, Parts, Apart DEF TabsTrue
<1>16. WantedHeld'
  <2>1. ASSUME NEW g \in Files, wanted'[g] # NoText
        PROVE  /\ wanted'[g] = Held(g)' /\ (dirty'[g] <=> Held(g)' # remote'[g])
               /\ text'[g] = NoText => ~dirty'[g]
    <3>1. CASE g = f
      <4>1. Held(f)' = e.doc
        BY <1>6, <1>9 DEF Held
      <4> QED  BY <1>1, <1>2, <1>5, <1>11, <1>12, <2>1, <3>1, <4>1
    <3>2. CASE g # f
      BY <1>1, <1>5, <1>6, <1>12, <1>13, <2>1, <3>2, Parts DEF WantedHeld
    <3> QED  BY <3>1, <3>2
  <2> QED  BY <2>1 DEF WantedHeld
<1>17. TabsInv' /\ GivesUp /\ FewerFiles
  BY <1>1, <1>6, <1>9, <1>14, <1>15, <1>16 DEF TabsInv, GivesUp, FewerFiles
<1>18. SameRisk
  <2>1. ASSUME NEW g \in Files, AtRisk(g)' PROVE AtRisk(g)
    <3>1. wanted[g] # NoText /\ dirty'[g]
      BY <1>1, <2>1 DEF AtRisk
    <3>2. g # f
      BY <1>11, <1>12, <3>1
    <3> QED  BY <1>12, <3>1, <3>2 DEF AtRisk
  <2> QED  BY <2>1 DEF SameRisk
<1>19. FewerDialogs({"reload"}) /\ FewerDialogs({"gate", "close", "reload"})
  BY <1>1 DEF FewerDialogs
<1>20. RiskIsShown'
  BY <1>1, <1>6, <1>17, <1>18, <1>19, Parts, RiskStays
<1>21. SavesShown'
  BY <1>1, <1>2, <1>5, <1>6, <1>9, <1>17, <1>19, Parts, SavesStay
<1>22. QueuesFormed'
  BY <1>1, Parts DEF QueuesFormed
<1>23. NoPage'
  BY <1>1, Parts DEF NoPage, s
<1> QED  BY <1>17, <1>20, <1>21, <1>22, <1>23 DEF DraftInv

-------------------------------------------------------------------------------
(* Every step of a patient user, of the page and of the main process.            *)
LEMMA QuitKeeps == ASSUME DraftInv, RequestQuit PROVE DraftInv'
<1>1. CASE CloseEvent("done", "asked")
  BY <1>1, CloseEventKeeps
<1>2. CASE ~CloseEvent("done", "asked")
  <2>1. UNCHANGED <<ready, pending, toEditor, closeNow, tabVars, callVars, userVars>>
    BY <1>2 DEF RequestQuit
  <2> QED  BY <2>1, NothingKeeps
<1> QED  BY <1>1, <1>2

LEMMA DraftStep == DraftInv /\ AskedIdle /\ [PatientNext]_editorVars => DraftInv'
<1> SUFFICES ASSUME DraftInv, AskedIdle, [PatientNext]_editorVars PROVE DraftInv'
  OBVIOUS
<1>1. CASE EditorSystem
  <2>1. CASE PageReady
    BY <2>1, ReadyKeeps
  <2>2. CASE ConfirmClose
    BY <2>2, ConfirmKeeps
  <2>3. CASE RenderProcessGone
    BY <2>3, CrashKeeps
  <2>4. CASE QuitTimeout
    <3>1. UNCHANGED <<ready, pending, toEditor, closeNow, tabVars, callVars, userVars>>
      BY <2>4 DEF QuitTimeout
    <3> QED  BY <3>1, NothingKeeps
  <2>5. CASE OnOpen
    BY <2>5, OnOpenKeeps
  <2>6. CASE OnCloseRequest
    BY <2>6, CloseRequestKeeps
  <2>7. ASSUME NEW f \in Files, ReadDone(f) \/ ReadFails(f) PROVE DraftInv'
    BY <2>7, ReadKeeps
  <2>8. ASSUME NEW f \in Files, SaveDone(f) PROVE DraftInv'
    BY <2>8, SaveDoneKeeps
  <2>9. ASSUME NEW f \in Files, SaveAsks(f) \/ SaveRefused(f) PROVE DraftInv'
    BY <2>9, SaveEndsKeeps
  <2> QED  BY <1>1, <2>1, <2>2, <2>3, <2>4, <2>5, <2>6, <2>7, <2>8, <2>9 DEF EditorSystem
<1>2. CASE CloseWindow
  BY <1>2, CloseEventKeeps DEF CloseWindow
<1>3. CASE RequestQuit
  BY <1>3, QuitKeeps
<1>4. CASE Cancel
  BY <1>4, CancelKeeps
<1>5. CASE Agree
  BY <1>5, AgreeKeeps
<1>6. ASSUME NEW f \in Files, Calm, Clean(Files), OpenFile(f) PROVE DraftInv'
  BY <1>6, OpenKeeps
<1>7. ASSUME NEW f \in Files, Calm, AllShown, Type(f) \/ Save(f) PROVE DraftInv'
  BY <1>7, TypeKeeps, SaveKeeps
<1>8. ASSUME NEW f \in Files, Calm, SetActive(f) \/ (reading[f] = 0 /\ TryClose(f)) PROVE DraftInv'
  BY <1>8, ActiveKeeps, TryCloseKeeps
<1>9. ASSUME NEW f \in Files, Calm, reading[f] = 0, Clean(Files \ {f}), TryReload(f)
      PROVE  DraftInv'
  BY <1>9, TryReloadKeeps
<1>10. CASE UNCHANGED editorVars
  <2>1. UNCHANGED <<ready, pending, toEditor, closeNow, tabVars, callVars, userVars>>
    BY <1>10 DEF editorVars, mainVars
  <2> QED  BY <2>1, NothingKeeps
<1> QED  BY <1>1, <1>2, <1>3, <1>4, <1>5, <1>6, <1>7, <1>8, <1>9, <1>10 DEF PatientNext

(* The tab that is asked about stays as it is until the answer.                  *)
LEMMA AskedStays ==
    ASSUME DraftInv, AskedIdle, FewerDialogs(OfTab),
           \A g \in Files : status[g] # "closed" /\ reading[g] = 0 =>
                      status'[g] # "closed" /\ reading'[g] = 0
    PROVE  AskedIdle'
<1>1. \A i \in DOMAIN dialogs : dialogs[i].kind \in OfTab => dialogs[i].file \in Files
  BY Parts DEF QueuesFormed, OfTab
<1> QED  BY <1>1 DEF AskedIdle, FewerDialogs

LEMMA AskedStep == DraftInv /\ AskedIdle /\ [PatientNext]_editorVars => AskedIdle'
<1> SUFFICES ASSUME DraftInv, AskedIdle, [PatientNext]_editorVars PROVE AskedIdle'
  OBVIOUS
<1>1. ASSUME dialogs' = <<>> PROVE AskedIdle'
  BY <1>1 DEF AskedIdle
<1>2. ASSUME FewerDialogs(OfTab), UNCHANGED <<status, reading>> PROVE AskedIdle'
  BY <1>2, AskedStays
<1>3. ASSUME dialogs' = dialogs, UNCHANGED <<status, reading>> PROVE AskedIdle'
  BY <1>2, <1>3 DEF FewerDialogs
<1>4. ASSUME NEW q, NEW p, CloseEvent(q, p) PROVE AskedIdle'
  BY <1>1, <1>3, <1>4 DEF CloseEvent, Closed, PageGone, tabVars, callVars, userVars
<1>5. CASE ConfirmClose \/ RenderProcessGone
  BY <1>1, <1>5 DEF ConfirmClose, RenderProcessGone, Closed, PageGone
<1>6. CASE \/ PageReady \/ QuitTimeout \/ UNCHANGED editorVars
           \/ \E f \in Files : OpenFile(f) \/ Type(f) \/ Save(f) \/ SaveRefused(f)
  <2>1. dialogs' = dialogs /\ UNCHANGED <<status, reading>>
    BY <1>6 DEF PageReady, QuitTimeout, editorVars, OpenFile, Type, Save, SaveRefused,
                tabVars, callVars, userVars
  <2> QED  BY <1>3, <2>1
<1>7. ASSUME NEW f \in Files, SetActive(f) PROVE AskedIdle'
  BY <1>3, <1>7 DEF SetActive, Show, callVars, userVars
<1>8. CASE CloseWindow
  BY <1>4, <1>8 DEF CloseWindow
<1>9. CASE RequestQuit
  <2>1. CASE CloseEvent("done", "asked")
    BY <1>4, <2>1
  <2>2. CASE ~CloseEvent("done", "asked")
    BY <1>3, <1>9, <2>2 DEF RequestQuit, tabVars, callVars, userVars
  <2> QED  BY <2>1, <2>2
<1>10. CASE Cancel
  <2>1. Answered /\ UNCHANGED <<status, reading>>
    BY <1>10 DEF Cancel, Answered, tabVars, callVars
  <2> QED  BY <1>2, <2>1, AnsweredIs
<1>11. CASE OnCloseRequest
  <2>1. /\ dialogs' = dialogs \/ Asked("closeWindow", NoFile)
        /\ UNCHANGED <<status, reading>>
    BY <1>11 DEF OnCloseRequest, Asked, tabVars, callVars
  <2>2. CASE Asked("closeWindow", NoFile)
    BY <1>2, <2>1, <2>2, AskedIs DEF OfTab
  <2> QED  BY <1>3, <2>1, <2>2
<1>12. ASSUME NEW f \in Files, SaveAsks(f) PROVE AskedIdle'
  <2>1. Asked("gate", f) /\ UNCHANGED <<status, reading>>
    BY <1>12 DEF SaveAsks, Asked, tabVars
  <2> QED  BY <1>2, <2>1, AskedIs DEF OfTab
<1>13. ASSUME NEW f \in Files, SaveDone(f) PROVE AskedIdle'
  <2>1. dialogs' = dialogs /\ UNCHANGED <<status, reading>>
    BY <1>13 DEF SaveDone, Show, tabVars, userVars
  <2> QED  BY <1>3, <2>1
<1>14. ASSUME NEW f \in Files, ReadDone(f) \/ ReadFails(f) PROVE AskedIdle'
  <2>1. /\ reading[f] > 0 /\ reading' = [reading EXCEPT ![f] = @ - 1] /\ dialogs' = dialogs
        /\ \/ status' = status
           \/ \E s \in {"ready", "error"} : status' = [status EXCEPT ![f] = s]
    BY <1>14 DEF ReadDone, ReadFails, Show, tabVars, userVars
  <2>2. \A g \in Files : g # f => status'[g] = status[g] /\ reading'[g] = reading[g]
    BY <2>1, Parts DEF TabsFormed, Reads
  <2>3. reading[f] # 0
    BY <2>1
  <2> QED  BY <2>1, <2>2, <2>3, AskedStays DEF FewerDialogs
<1>15. CASE OnOpen
  <2> DEFINE f == Head(toEditor)
  <2>1. dialogs' = dialogs
    BY <1>15 DEF OnOpen, userVars
  <2>2. CASE status[f] = "closed" /\ Reload(f, f)
    <3>1. \A g \in Files : g # f => status'[g] = status[g] /\ reading'[g] = reading[g]
      BY <2>2, Parts DEF Reload, Show, TabsFormed, Reads
    <3> HIDE DEF f
    <3> QED  BY <2>1, <2>2, <3>1, AskedStays DEF FewerDialogs
  <2>3. CASE ~(status[f] = "closed" /\ Reload(f, f))
    <3>1. UNCHANGED <<status, reading>>
      BY <1>15, <2>3 DEF OnOpen, Show, callVars
    <3> QED  BY <1>3, <2>1, <3>1
  <2> QED  BY <2>2, <2>3
<1>16. ASSUME NEW f \in Files, Calm, reading[f] = 0, TryClose(f) \/ TryReload(f)
       PROVE  AskedIdle'
  <2>1. /\ dialogs = <<>> /\ status[f] # "closed"
        /\ \/ dialogs' = <<>>
           \/ /\ Asked("close", f) \/ Asked("reload", f)
              /\ UNCHANGED <<status, reading>>
    BY <1>16, Parts, Apart DEF TryClose, TryReload, Unasked, Asked, tabVars, callVars, TabsTrue
  <2>2. ASSUME NEW k \in OfTab, Asked(k, f), UNCHANGED <<status, reading>> PROVE AskedIdle'
    <3>1. /\ Asked(k, f) => DOMAIN dialogs' = {1}
          /\ dialogs'[1].file = f
      BY <2>1, <2>2 DEF Asked
    <3> QED  BY <1>16, <2>1, <2>2, <3>1 DEF AskedIdle
  <2> QED  BY <1>1, <2>1, <2>2 DEF OfTab
<1>17. CASE Agree
  <2> DEFINE d == Last(dialogs)
  <2>1. /\ Answered
        /\ \/ d.kind \in OfTab
           \/ UNCHANGED <<status, reading>>
    BY <1>17 DEF Agree, Answered, tabVars, callVars, OfTab
  <2>2. /\ Len(dialogs) \in DOMAIN dialogs /\ d = dialogs[Len(dialogs)]
        /\ \A i \in DOMAIN dialogs' : i \in DOMAIN dialogs /\ dialogs'[i] = dialogs[i]
        /\ FewerDialogs(OfTab)
    BY <2>1, AnsweredIs
  <2>3. \A i \in DOMAIN dialogs' : i # Len(dialogs)
    BY <2>1, Parts DEF Answered, QueuesFormed, Front
  <2>4. CASE d.kind \in OfTab
    <3>1. \A i \in DOMAIN dialogs' : dialogs'[i].kind \notin OfTab
      BY <2>2, <2>3, <2>4 DEF AskedIdle
    <3> QED  BY <3>1 DEF AskedIdle
  <2>5. CASE d.kind \notin OfTab
    BY <1>2, <2>1, <2>2, <2>5
  <2> QED  BY <2>4, <2>5
<1> QED
  BY <1>5, <1>6, <1>7, <1>8, <1>9, <1>10, <1>11, <1>12, <1>13, <1>14, <1>15, <1>16, <1>17
  DEF PatientNext, EditorSystem

LEMMA DraftInit == EditorInit => DraftInv
<1> SUFFICES ASSUME EditorInit PROVE DraftInv
  OBVIOUS
<1>1. /\ ready = FALSE /\ pending = <<>> /\ toEditor = <<>> /\ closeNow = FALSE
      /\ status = [f \in Files |-> "closed"] /\ text = NoTexts
      /\ dirty = [f \in Files |-> FALSE] /\ active = NoFile /\ editor = NoEditor
      /\ dialogs = <<>> /\ sent = NoTexts /\ confirmed = [f \in Files |-> FALSE]
      /\ reading = [f \in Files |-> 0] /\ remote = [f \in Files |-> <<f, 0>>]
      /\ wanted = NoTexts /\ edits = 0
  BY DEF EditorInit
<1>2. remote \in [Files -> Texts]
  <2>1. 0 \in 0..MaxTyped
    BY Apart
  <2>2. \A f \in Files : <<f, 0>> \in Texts
    BY <2>1 DEF Texts
  <2> QED  BY <1>1, <2>2
<1>3. Formed(editor) /\ EditorShows
  BY <1>1, NoEditorIs DEF EditorShows
<1>4. TabsFormed
  BY <1>1, <1>2, Apart DEF TabsFormed, Reads
<1>5. TabsTrue
  BY <1>1, NoEditorIs, Apart DEF TabsTrue
<1>6. WantedHeld /\ RiskIsShown /\ SavesShown
  BY <1>1, Apart DEF WantedHeld, RiskIsShown, AtRisk, SavesShown
<1>7. NoPage
  BY <1>1, Apart DEF NoPage
<1>8. QueuesFormed
  BY <1>1 DEF QueuesFormed
<1> QED  BY <1>3, <1>4, <1>5, <1>6, <1>7, <1>8 DEF DraftInv, TabsInv

(* The tabs, the messages on their way to the page, the questions and the saves   *)
(* under way fit each other through every step of a patient user, the page and    *)
(* the main process (stores/useEditorStore.ts, main/editorWindow.ts).             *)
THEOREM DraftInvariance == PatientSpec => [](DraftInv /\ AskedIdle)
<1>1. EditorInit => AskedIdle
  BY DEF EditorInit, AskedIdle
<1> QED  BY <1>1, DraftInit, DraftStep, AskedStep, PTL DEF PatientSpec

(* What a patient user has typed last is in its tab or on the remote machine,     *)
(* through changes of tab, reloads, saves with their questions, closing and       *)
(* quitting (draftSwap.ts, useEditorStore.ts, EditorWindowShell.tsx).             *)
THEOREM DraftsSurviveHolds == PatientSpec => []DraftsSurvive
<1>1. ASSUME DraftInv, NEW f \in Files, wanted[f] # NoText
      PROVE  wanted[f] \in {Content(f), remote[f]}
  <2>1. /\ wanted[f] = Held(f) /\ (dirty[f] <=> Held(f) # remote[f])
        /\ text[f] = NoText => ~dirty[f]
    BY <1>1, Parts DEF WantedHeld
  <2>2. text[f] \in {NoText, remote[f]}
    BY <1>1, Parts DEF TabsTrue
  <2>3. CASE text[f] = NoText
    BY <2>1, <2>3
  <2>4. CASE text[f] = remote[f]
    BY <2>1, <2>4 DEF Held, Content
  <2> QED  BY <2>2, <2>3, <2>4
<1>2. DraftInv => DraftsSurvive
  BY <1>1 DEF DraftsSurvive
<1> QED  BY <1>2, DraftInvariance, PTL


(* The window and its page, as the main process has them.                         *)
MainTyped ==
    /\ win \in BOOLEAN /\ ready \in BOOLEAN /\ closeNow \in BOOLEAN /\ (ready => win)
    /\ quit \in {"no", "asked", "done"}

LEMMA MainStep == MainTyped /\ [PatientNext]_editorVars => MainTyped'
<1> SUFFICES ASSUME MainTyped, [PatientNext]_editorVars PROVE MainTyped'
  OBVIOUS
<1> USE DEF MainTyped
<1>1. AfterClosed \in {"no", "asked", "done"}
  BY DEF AfterClosed
<1>2. ASSUME NEW a \in {"no", "asked", "done"}, NEW b \in {"no", "asked", "done"},
             CloseEvent(a, b)
      PROVE  MainTyped'
  BY <1>2 DEF CloseEvent, Closed, PageGone
<1>3. CASE EditorSystem
  <2>1. CASE PageReady
    BY <2>1 DEF PageReady
  <2>2. CASE ConfirmClose
    BY <1>1, <2>2 DEF ConfirmClose, Closed, PageGone
  <2>3. CASE RenderProcessGone
    BY <2>3 DEF RenderProcessGone, PageGone
  <2>4. CASE QuitTimeout
    BY <2>4 DEF QuitTimeout
  <2>5. CASE OnOpen \/ OnCloseRequest
    <3>1. UNCHANGED <<win, ready, quit>> /\ closeNow' \in {TRUE, closeNow}
      BY <2>5 DEF OnOpen, OnCloseRequest
    <3> QED  BY <3>1
  <2>6. CASE \E f \in Files : \/ ReadDone(f) \/ ReadFails(f)
                              \/ SaveDone(f) \/ SaveAsks(f) \/ SaveRefused(f)
    BY <2>6 DEF ReadDone, ReadFails, SaveDone, SaveAsks, SaveRefused, mainVars
  <2> QED  BY <1>3, <2>1, <2>2, <2>3, <2>4, <2>5, <2>6 DEF EditorSystem
<1>4. CASE CloseWindow
  BY <1>1, <1>2, <1>4 DEF CloseWindow
<1>5. CASE RequestQuit
  <2>1. CASE CloseEvent("done", "asked")
    BY <1>2, <2>1
  <2>2. CASE ~CloseEvent("done", "asked")
    BY <1>5, <2>2 DEF RequestQuit
  <2> QED  BY <2>1, <2>2
<1>6. CASE Cancel \/ Agree
  <2>1. UNCHANGED <<win, ready, quit>> /\ closeNow' \in {TRUE, closeNow}
    BY <1>6 DEF Cancel, Agree, mainVars
  <2> QED  BY <2>1
<1>7. ASSUME NEW f \in Files,
             \/ OpenFile(f) \/ Type(f) \/ Save(f)
             \/ SetActive(f) \/ TryClose(f) \/ TryReload(f)
      PROVE  MainTyped'
  <2>1. UNCHANGED <<ready, closeNow, quit>> /\ win' \in {TRUE, win}
    BY <1>7 DEF OpenFile, Type, Save, SetActive, TryClose, TryReload, mainVars
  <2> QED  BY <2>1
<1>8. CASE UNCHANGED editorVars
  BY <1>8 DEF editorVars, mainVars
<1> QED  BY <1>3, <1>4, <1>5, <1>6, <1>7, <1>8 DEF PatientNext

(* Texts are texts, an editor shows the tab that is active, and only a window has *)
(* a page (useEditorStore.ts, CodeEditor.tsx, main/editorWindow.ts).              *)
THEOREM EditorTypeCorrect == PatientSpec => []EditorTypeOK
<1>1. EditorInit => MainTyped
  BY DEF EditorInit, MainTyped
<1>2. DraftInv /\ MainTyped => EditorTypeOK
  <2> SUFFICES ASSUME DraftInv, MainTyped PROVE EditorTypeOK
    OBVIOUS
  <2>1. /\ {text, sent, wanted, editor.stash, editor.base} \subseteq
               [Files -> Texts \cup {NoText}]
        /\ status \in [Files -> {"closed", "loading", "ready", "error"}]
        /\ remote \in [Files -> Texts] /\ editor.on \in {active, NoFile}
        /\ reading \in [Files -> 0..MaxReads]
    BY Parts DEF TabsFormed, Formed, EditorShows, Reads
  <2>2. /\ {win, ready, closeNow} \subseteq BOOLEAN /\ (ready => win)
        /\ quit \in {"no", "asked", "done"}
    BY DEF MainTyped
  <2> QED  BY <2>1, <2>2 DEF EditorTypeOK
<1> QED  BY <1>1, <1>2, MainStep, DraftInvariance, PTL DEF PatientSpec
=================================================================================
