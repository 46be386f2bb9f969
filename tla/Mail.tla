-------------------------------- MODULE Mail --------------------------------
(***************************************************************************)
(* The letters one author has sent (src/mail.c): his list of them, what of *)
(* them is in memory, his mail file and the timers that free memory again. *)
(*                                                                         *)
(* The talker keeps the list and the recipients of every letter in memory, *)
(* and the text only while it is used: it is read again from the section   *)
(* of the mail file that has the letter's current number in the list.  So  *)
(* a letter may leave the list only when every text is in memory, and what *)
(* is in memory may be freed only when the file has been written since.    *)
(*                                                                         *)
(* A letter is named by its time stamp, which orders the list.  Its text   *)
(* is modelled by the stamp of the letter it belongs to.                   *)
(***************************************************************************)
EXTENDS Integers, FiniteSets, Sequences, SequencesExt, Functions

CONSTANTS
  Reader,      \* the players that letters are sent to, the author or others
  MaxMails,    \* p->max_mails
  MaxLetters   \* bound: letters begun in a behaviour

ASSUME ConstAssumption ==
  /\ IsFiniteSet(Reader)
  /\ MaxMails \in Nat \ {0}
  /\ MaxLetters \in Nat \ {0}

VARIABLES
  author,      \* "on", "leaving", "off" or "nuked"
  sent,        \* owner->mail_sent_start: the letters, a draft last
  editing,     \* the last letter is a draft (~tmp_finnished_editing)
  mail,        \* mail[l]: recipients and text of letter l
  dirty,       \* owner->flag_tmp_mail_needs_saving
  timed,       \* the letters in mail_timer_queue
  file,        \* the sections of the mail file: empty when there is none
  resident,    \* the readers there are
  begun        \* the letters begun

vars == <<author, sent, editing, mail, dirty, timed, file, resident, begun>>

Letter == 1..MaxLetters
NoText == 0

\* Text NoText: not in core.  A section of the file is a letter's record with
\* its stamp.
MailRec == [recips : SUBSET Reader, deleted : SUBSET Reader,
            read : SUBSET Reader, text : Letter \cup {NoText}]
Blank == [recips |-> {}, deleted |-> {}, read |-> {}, text |-> NoText]

TypeOK ==
  /\ author \in {"on", "leaving", "off", "nuked"}
  /\ sent \in Seq(Letter) /\ \A i, j \in DOMAIN sent : i < j => sent[i] < sent[j]
  /\ editing \in BOOLEAN
  /\ mail \in [Letter -> MailRec]
  /\ dirty \in BOOLEAN
  /\ timed \in SUBSET Letter
  /\ file \in Seq([letter : Letter, rec : MailRec])
  /\ resident \in SUBSET Reader
  /\ begun \in 0..MaxLetters

----------------------------------------------------------------------------
\* The letters that are numbered, saved and freed: a draft is passed over.
Finished == IF editing THEN Front(sent) ELSE sent
Posted == Range(Finished)
Draft == Last(sent)

InCore(l) == mail[l].text # NoText

\* mail_find_number.
Number(l) == CHOOSE n \in DOMAIN Finished : Finished[n] = l

\* mail_load and mail_load_all: the mails with the texts of letters ls, read by
\* number from the file.
WithTexts(ls) ==
  [l \in Letter |->
     IF l \notin ls \/ InCore(l) THEN mail[l]
     ELSE [mail[l] EXCEPT !.text =
             IF Number(l) \in DOMAIN file THEN file[Number(l)].rec.text ELSE NoText]]

\* A text that is loaded gets a timer.
Loaded(ls) == {l \in ls : ~InCore(l)}

\* What mail_save writes of mails m.
Sections(m) == [n \in DOMAIN Finished |-> [letter |-> Finished[n], rec |-> m[Finished[n]]]]

\* mail_save: what is not dirty is not written.  All texts are loaded first.
\* Opening or closing the new file may fail: then it stays dirty.  "freed" are
\* letters the caller frees: mail_load_cleanup keeps what is dirty.
SaveAndFree(freed, queued) ==
  LET all == IF dirty THEN WithTexts(Posted) ELSE mail
  IN /\ timed' = queued \cup (IF dirty THEN Loaded(Posted) ELSE {})
     /\ \/ ~dirty /\ UNCHANGED <<dirty, file>>
        \/ dirty /\ dirty' = FALSE /\ file' = Sections(all)
        \/ dirty /\ UNCHANGED <<dirty, file>>
     /\ mail' = [l \in Letter |-> IF l \in freed /\ ~dirty'
                                  THEN [all[l] EXCEPT !.text = NoText] ELSE all[l]]

\* What is left of list s when letters ls are unlinked.
Without(s, ls) ==
  LET left[n \in 0..Len(s)] ==
        IF n = 0 THEN <<>>
        ELSE IF s[n] \in ls THEN left[n - 1] ELSE Append(left[n - 1], s[n])
  IN left[Len(s)]

\* mail_destroy_mail_sent, of letters ls, mails being m.
Destroy(ls, m) ==
  /\ sent' = Without(sent, ls)
  /\ mail' = [l \in Letter |-> IF l \in ls THEN Blank ELSE m[l]]

----------------------------------------------------------------------------
Init ==
  /\ author = "off"
  /\ sent = <<>>
  /\ editing = FALSE
  /\ mail = [l \in Letter |-> Blank]
  /\ dirty = FALSE
  /\ timed = {}
  /\ file = <<>>
  /\ resident = Reader
  /\ begun = 0

Logon ==
  /\ author = "off"
  /\ author' = "on"
  /\ UNCHANGED <<sent, editing, mail, dirty, timed, file, resident, begun>>

\* mail_autoreap_mailout: of the letters older than 60 days, the first "old",
\* those go that all recipients have deleted.
Reaped(old) == {l \in Range(SubSeq(Finished, 1, old)) : mail[l].recips \subseteq mail[l].deleted}

\* A mutant of Begin: a new letter is put in front of the list.
Begin_front ==
  /\ author = "on" /\ ~editing /\ begun < MaxLetters /\ Len(sent) < MaxMails
  /\ sent' = <<begun + 1>> \o sent
  /\ editing' = TRUE
  /\ begun' = begun + 1
  /\ UNCHANGED <<author, mail, dirty, timed, file, resident>>

\* internal_user_mail_send_letter, buffer_mail_create: at the limit old letters
\* are reaped; below it a draft begins.
Begin ==
  /\ author = "on" /\ ~editing /\ begun < MaxLetters
  /\ \E old \in 0..Len(Finished) :
       LET full == Len(Finished) >= MaxMails
           reaped == IF full THEN Reaped(old) ELSE {}
           room == Len(Finished) - Cardinality(reaped) < MaxMails
           kept == Without(sent, reaped)
           texts == IF full THEN WithTexts(Posted) ELSE mail
       IN /\ sent' = IF room THEN Append(kept, begun + 1) ELSE kept
          /\ editing' = room
          /\ begun' = IF room THEN begun + 1 ELSE begun
          /\ mail' = [l \in Letter |-> IF l \in reaped THEN Blank ELSE texts[l]]
          /\ timed' = (timed \cup (IF full THEN Loaded(Posted) ELSE {})) \ reaped
          /\ dirty' = (dirty \/ reaped # {})
  /\ UNCHANGED <<author, file, resident>>

\* mail_send_add: one who is addressed twice is a recipient once.
Address(p) ==
  /\ author = "on" /\ editing /\ p \in resident
  /\ mail' = [mail EXCEPT ![Draft].recips = @ \cup {p}]
  /\ UNCHANGED <<author, sent, editing, dirty, timed, file, resident, begun>>

\* buffer_mail_destroy: the letter is not posted.
Discard ==
  /\ author = "on" /\ editing
  /\ Destroy({Draft}, mail)
  /\ editing' = FALSE
  /\ UNCHANGED <<author, dirty, timed, file, resident, begun>>

\* mail_edit_end: recipients who are banished or take no anonymous mail are
\* left out, and the letter is posted, even to nobody.
Post ==
  /\ author = "on" /\ editing
  /\ mail[Draft].recips # {}
  /\ \E refused \in SUBSET mail[Draft].recips :
       mail' = [mail EXCEPT ![Draft].recips = @ \ refused, ![Draft].text = Draft]
  /\ editing' = FALSE
  /\ timed' = timed \cup {Draft}
  /\ dirty' = TRUE
  /\ UNCHANGED <<author, sent, file, resident, begun>>

\* user_mail_read_sent.
ReadSent(l) ==
  /\ author = "on" /\ l \in Posted
  /\ mail' = WithTexts({l})
  /\ timed' = timed \cup Loaded({l})
  /\ UNCHANGED <<author, sent, editing, dirty, file, resident, begun>>

\* The letters p has in his mail_recieved list, by their numbers.
Received(p) == {l \in Posted : p \in mail[l].recips \ mail[l].deleted}

\* A mutant of ReadLetter: nothing is to be saved.
ReadLetter_clean(p, l) ==
  /\ l \in Received(p)
  /\ mail' = [WithTexts({l}) EXCEPT ![l].read = @ \cup {p}]
  /\ timed' = timed \cup Loaded({l})
  /\ UNCHANGED <<author, sent, editing, dirty, file, resident, begun>>

\* user_mail_read_letter.  That the author has not logged on does not matter.
ReadLetter(p, l) ==
  /\ l \in Received(p)
  /\ mail' = [WithTexts({l}) EXCEPT ![l].read = @ \cup {p}]
  /\ timed' = timed \cup Loaded({l})
  /\ dirty' = (dirty \/ p \notin mail[l].read)
  /\ UNCHANGED <<author, sent, editing, file, resident, begun>>

\* internal_user_mail_reply_letter: "replied" is not kept in the file, but the
\* author's letters are saved.
Reply(p, l) ==
  /\ l \in Received(p)
  /\ mail' = WithTexts({l})
  /\ timed' = timed \cup Loaded({l})
  /\ dirty' = TRUE
  /\ UNCHANGED <<author, sent, editing, file, resident, begun>>

\* user_mail_delete_received, of some of p's letters.
DeleteReceived(p, ls) ==
  /\ ls # {} /\ ls \subseteq Received(p)
  /\ mail' = [l \in Letter |-> IF l \in ls
                THEN [WithTexts(ls)[l] EXCEPT !.deleted = @ \cup {p}] ELSE mail[l]]
  /\ timed' = timed \cup Loaded(ls)
  /\ dirty' = TRUE
  /\ UNCHANGED <<author, sent, editing, file, resident, begun>>

\* Mutants of DeleteSent: the others are not loaded; the timers stay.
DeleteSent_lazy(ls) ==
  /\ author = "on" /\ ls # {} /\ ls \subseteq Posted
  /\ Destroy(ls, mail)
  /\ timed' = timed \ ls
  /\ dirty' = TRUE
  /\ UNCHANGED <<author, editing, file, resident, begun>>
DeleteSent_timed(ls) ==
  /\ author = "on" /\ ls # {} /\ ls \subseteq Posted
  /\ Destroy(ls, WithTexts(Posted))
  /\ timed' = timed \cup Loaded(Posted)
  /\ dirty' = TRUE
  /\ UNCHANGED <<author, editing, file, resident, begun>>

\* user_mail_delete_sent, of some of the letters: all are loaded first.
DeleteSent(ls) ==
  /\ author = "on" /\ ls # {} /\ ls \subseteq Posted
  /\ Destroy(ls, WithTexts(Posted))
  /\ timed' = (timed \cup Loaded(Posted)) \ ls
  /\ dirty' = TRUE
  /\ UNCHANGED <<author, editing, file, resident, begun>>

\* timed_mail_cleanup: the timer of a letter has left the queue.  A letter not
\* used for 2 minutes is freed; otherwise the timer is set again, and after 32
\* minutes, or when all timers are run, the mails are saved.
TimerFires(l) ==
  /\ l \in timed
  /\ \/ SaveAndFree({l}, timed \ {l})
     \/ SaveAndFree({}, timed)
     \/ UNCHANGED <<mail, dirty, timed, file>>
  /\ UNCHANGED <<author, sent, editing, resident, begun>>

\* logoff_player_resident: the draft goes with the author's buffers, and
\* mail_load_cleanup_all frees every text when nothing is to be saved.  The
\* timers stay.
Logoff ==
  /\ author = "on"
  /\ author' = "leaving"
  /\ editing' = FALSE
  /\ sent' = Finished
  /\ mail' = [l \in Letter |-> IF l \notin Posted THEN Blank
                               ELSE IF dirty THEN mail[l]
                               ELSE [mail[l] EXCEPT !.text = NoText]]
  /\ UNCHANGED <<dirty, timed, file, resident, begun>>

\* player_destroy: player_save_all saves his mails.
Leave ==
  /\ author = "leaving"
  /\ author' = "off"
  /\ SaveAndFree({}, timed)
  /\ UNCHANGED <<sent, editing, resident, begun>>

\* timed_nuke, of a reader: nothing is saved for it.
NukeReader(p) ==
  /\ p \in resident
  /\ resident' = resident \ {p}
  /\ mail' = [l \in Letter |-> [mail[l] EXCEPT !.recips = @ \ {p}, !.deleted = @ \ {p},
                                               !.read = @ \ {p}]]
  /\ UNCHANGED <<author, sent, editing, dirty, timed, file, begun>>

\* timed_nuke, of the author, who has been logged off: his mail file stays.
NukeAuthor ==
  /\ author = "off"
  /\ author' = "nuked"
  /\ Destroy(Posted, mail)
  /\ timed' = timed \ Posted
  /\ UNCHANGED <<editing, dirty, file, resident, begun>>

\* internal_make_resident: a newcomer takes the name of somebody nuked.
NewReader(p) ==
  /\ p \notin resident
  /\ resident' = resident \cup {p}
  /\ UNCHANGED <<author, sent, editing, mail, dirty, timed, file, begun>>

NewAuthor ==
  /\ author = "nuked"
  /\ author' = "on"
  /\ dirty' = TRUE
  /\ UNCHANGED <<sent, editing, mail, timed, file, resident, begun>>

\* The talker dies and is started again: mail_load_saved builds the list from
\* the file, for an author there is.
Reboot ==
  LET found == IF author = "nuked" THEN <<>> ELSE file
      kept(s) == [recips  |-> s.rec.recips \cap resident,
                  deleted |-> s.rec.deleted \cap resident,
                  read    |-> s.rec.read \cap resident, text |-> NoText]
  IN /\ author' = IF author = "nuked" THEN "nuked" ELSE "off"
     /\ sent' = [n \in DOMAIN found |-> found[n].letter]
     /\ mail' = [l \in Letter |->
                   IF \E n \in DOMAIN found : found[n].letter = l
                   THEN kept(found[CHOOSE n \in DOMAIN found : found[n].letter = l])
                   ELSE Blank]
     /\ editing' = FALSE
     /\ dirty' = FALSE
     /\ timed' = {}
     /\ UNCHANGED <<file, resident, begun>>

Next ==
  \/ Logon \/ Begin \/ Discard \/ Post \/ Logoff \/ Leave
  \/ NukeAuthor \/ NewAuthor \/ Reboot
  \/ \E p \in Reader : Address(p) \/ NukeReader(p) \/ NewReader(p)
  \/ \E l \in Letter : ReadSent(l) \/ TimerFires(l)
  \/ \E p \in Reader, l \in Letter : ReadLetter(p, l) \/ Reply(p, l)
  \/ \E ls \in SUBSET Letter : DeleteSent(ls)
  \/ \E p \in Reader, ls \in SUBSET Letter : DeleteReceived(p, ls)

Spec == Init /\ [][Next]_vars

----------------------------------------------------------------------------
\* Whoever reads a letter reads its own text: one in memory has it, and for
\* the others the section of their number is theirs, so that mail_load and
\* mail_load_all find it whatever was posted, deleted, reaped, saved or not.
OwnText ==
  \A n \in DOMAIN Finished :
    LET l == Finished[n] IN
      IF InCore(l) THEN mail[l].text = l
      ELSE n \in DOMAIN file /\ file[n].letter = l /\ file[n].rec.text = l

\* When nothing is marked as to be saved, a restart brings back every letter,
\* who has read it and who has deleted it.  (Nobody nuked is a recipient, but
\* the file may still have him.)
CleanIsSaved ==
  ~dirty /\ author # "nuked" =>
    /\ Len(file) = Len(Finished)
    /\ \A n \in DOMAIN Finished :
         LET l == Finished[n] IN
           /\ file[n].letter = l
           /\ mail[l].recips \subseteq file[n].rec.recips
           /\ mail[l].deleted = file[n].rec.deleted \cap mail[l].recips
           /\ mail[l].read = file[n].rec.read \cap mail[l].recips

\* A timer is of a letter on the list: timed_mail_cleanup never works on one
\* that has been freed.
TimersLive == timed \subseteq Posted

\* A letter has no timer when its text is loaded and one is added (log_assert in
\* internal_mail_load).
LoadedUntimed ==
  [][\A l \in Letter : ~InCore(l) /\ InCore(l)' => l \notin timed]_vars
============================================================================
