------------------------------ MODULE Clipboard ------------------------------
(***************************************************************************)
(* Two ClipboardSynchronizers of kvm-clipboard, each with the clipboard of   *)
(* its computer, a watcher that reports what is on it (and reads only the     *)
(* latest of several changes), and a channel to the other that may deliver    *)
(* an update again.  Writing an update to the clipboard takes a step of its   *)
(* own, in which it may fail.  A hash is the text it is of.                   *)
(***************************************************************************)
EXTENDS Naturals, Sequences

CONSTANTS Texts,          \* texts the users copy
          LargeTexts,     \* those above max_text_bytes
          UpdateCap,      \* recent_update_capacity
          MaxClipEvents   \* bound: copies by the users, redeliveries, failing writes, switches

VARIABLES clip,      \* clip[h]: the clipboard of h and its synchronizer
          channel,   \* channel[h]: updates on their way to h
          nextId,
          published, \* for the properties: updates published by h
          copies, hiccups

clipVars == <<clip, channel, nextId, published, copies, hiccups>>

Desktops == {1, 2}
OtherDesktop(h) == 3 - h
NoText == "none"
NoUpdate == [id |-> 0, origin |-> 0, text |-> NoText]

\* forgotten, for the properties: expected echoes given up.
ClipInit ==
    /\ clip = [h \in Desktops |-> [os |-> NoText, changed |-> FALSE, enabled |-> TRUE,
                                   current |-> NoText, recent |-> <<>>, echoes |-> <<>>,
                                   apply |-> NoUpdate, forgotten |-> 0]]
    /\ channel = [h \in Desktops |-> <<>>] /\ nextId = 1
    /\ published = [h \in Desktops |-> 0] /\ copies = [h \in Desktops |-> 0] /\ hiccups = 0

Eventful == copies[1] + copies[2] + hiccups < MaxClipEvents
Hiccup == Eventful /\ hiccups' = hiccups + 1

Without(s, i) == SubSeq(s, 1, i - 1) \o SubSeq(s, i + 1, Len(s))
Capped(s) == IF Len(s) > UpdateCap THEN Tail(s) ELSE s
Remembers(c, id) == \E i \in DOMAIN c.recent : c.recent[i] = id
FirstEcho(c, text) == CHOOSE i \in DOMAIN c.echoes :
                        /\ c.echoes[i].text = text
                        /\ \A j \in 1 .. i - 1 : c.echoes[j].text # text
ExpectsEcho(c, text) == \E i \in DOMAIN c.echoes : c.echoes[i].text = text

-----------------------------------------------------------------------------
UserCopies(h, text) ==
    /\ Eventful /\ copies' = [copies EXCEPT ![h] = @ + 1]
    /\ clip' = [clip EXCEPT ![h].os = text, ![h].changed = TRUE]
    /\ UNCHANGED <<channel, nextId, published, hiccups>>

\* observe_local_text: what it does to the state, and whether it publishes.
Publishes(c, text) == /\ c.enabled /\ text \notin LargeTexts
                      /\ ~ExpectsEcho(c, text) /\ c.current # text
observe_local_text(c, text) ==
    IF ~c.enabled \/ text \in LargeTexts THEN c
    ELSE IF ExpectsEcho(c, text)
    THEN [c EXCEPT !.current = text, !.echoes = Without(@, FirstEcho(c, text))]
    ELSE IF c.current = text THEN c
    ELSE [c EXCEPT !.current = text, !.recent = Capped(Append(@, nextId))]

WatcherReports(h) ==
    /\ clip[h].changed
    /\ clip' = [clip EXCEPT ![h] = [observe_local_text(clip[h], clip[h].os) EXCEPT !.changed = FALSE]]
    /\ IF Publishes(clip[h], clip[h].os)
       THEN /\ channel' = [channel EXCEPT ![OtherDesktop(h)] =
                              Append(@, [id |-> nextId, origin |-> h, text |-> clip[h].os])]
            /\ nextId' = nextId + 1 /\ published' = [published EXCEPT ![h] = @ + 1]
       ELSE UNCHANGED <<channel, nextId, published>>
    /\ UNCHANGED <<copies, hiccups>>

\* Mutant: the notification of an applied update is not expected.
ApplyingNoEcho(c, u) == [c EXCEPT !.recent = Capped(Append(@, u.id)), !.apply = u]

Applying(c, u) ==
    [c EXCEPT !.recent = Capped(Append(@, u.id)), !.apply = u, !.current = u.text,
              !.echoes = Capped(Append(@, [id |-> u.id, text |-> u.text, previous |-> c.current])),
              !.forgotten = IF Len(c.echoes) = UpdateCap THEN @ + 1 ELSE @]

receive_remote(c, u) ==
    IF ~c.enabled \/ u.text \in LargeTexts \/ Remembers(c, u.id) THEN c
    ELSE IF c.current = u.text THEN [c EXCEPT !.recent = Capped(Append(@, u.id))]
    ELSE Applying(c, u)

Receives(h, again) ==
    /\ channel[h] # <<>> /\ clip[h].apply = NoUpdate
    /\ clip' = [clip EXCEPT ![h] = receive_remote(clip[h], Head(channel[h]))]
    /\ IF again THEN Hiccup /\ UNCHANGED channel
       ELSE channel' = [channel EXCEPT ![h] = Tail(@)] /\ UNCHANGED hiccups
    /\ UNCHANGED <<nextId, published, copies>>

Applies(h) ==
    /\ clip[h].apply # NoUpdate
    /\ clip' = [clip EXCEPT ![h].os = clip[h].apply.text, ![h].changed = TRUE, ![h].apply = NoUpdate]
    /\ UNCHANGED <<channel, nextId, published, copies, hiccups>>

cancel_expected_echo(c, id) ==
    IF \A i \in DOMAIN c.echoes : c.echoes[i].id # id THEN c
    ELSE LET i == CHOOSE j \in DOMAIN c.echoes : c.echoes[j].id = id
         IN  [c EXCEPT !.echoes = Without(@, i),
                       !.recent = SelectSeq(@, LAMBDA x : x # id),
                       !.current = IF @ = c.echoes[i].text THEN c.echoes[i].previous ELSE @]

ApplyFails(h) ==
    /\ clip[h].apply # NoUpdate /\ Hiccup
    /\ clip' = [clip EXCEPT ![h] = [cancel_expected_echo(clip[h], clip[h].apply.id)
                                    EXCEPT !.apply = NoUpdate]]
    /\ UNCHANGED <<channel, nextId, published, copies>>

set_enabled(h) ==
    /\ Hiccup
    /\ clip' = [clip EXCEPT ![h] = [@ EXCEPT !.enabled = ~@, !.current = NoText, !.echoes = <<>>,
                                             !.forgotten = @ + Len(clip[h].echoes)]]
    /\ UNCHANGED <<channel, nextId, published, copies>>

ClipNext ==
    \E h \in Desktops :
        \/ \E text \in Texts : UserCopies(h, text)
        \/ WatcherReports(h) \/ Applies(h) \/ ApplyFails(h) \/ set_enabled(h)
        \/ \E again \in BOOLEAN : Receives(h, again)

ClipTypeOK ==
    \A h \in Desktops : /\ Len(clip[h].recent) <= UpdateCap /\ Len(clip[h].echoes) <= UpdateCap
                        /\ clip[h].current \in (Texts \ LargeTexts) \union {NoText}

-----------------------------------------------------------------------------
\* No update makes another: a computer publishes no more updates than its user
\* copied texts, plus one for every expected echo it gave up, because there
\* were too many or because it was switched off and on (observe_local_text,
\* receive_remote, cancel_expected_echo).
LoopFree == \A h \in Desktops : published[h] <= copies[h] + clip[h].forgotten
=============================================================================
