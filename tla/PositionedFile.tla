--------------------------- MODULE PositionedFile ---------------------------
(***************************************************************************)
(* What a program may rely on of a stream that is attached to a file: a    *)
(* text and one position in it, and calls that read and write there, or    *)
(* fail and do nothing.  How the characters get to the file, and when, is  *)
(* not seen.  It may rely on this until the device fails at a bad moment.  *)
(***************************************************************************)
EXTENDS FileText

CONSTANTS Chars, Offsets

VARIABLES content, at, sure, call, ret

fileVars == <<content, at, sure, call, ret>>

Did(c, r) == call' = c /\ ret' = r

Put == \E c \in Chars :
  /\ Did(<<"put", c>>, c)
  /\ content' = Overwritten(content, at, <<c>>)
  /\ at' = at + 1

Get ==
  /\ at < Len(content)
  /\ Did(<<"get">>, content[at + 1])
  /\ at' = at + 1 /\ content' = content

Peek ==
  /\ at < Len(content)
  /\ Did(<<"peek">>, content[at + 1])
  /\ UNCHANGED <<content, at>>

\* To the next character; there may be none.
Skip ==
  /\ at < Len(content)
  /\ at' = at + 1 /\ content' = content
  /\ \/ at' < Len(content) /\ Did(<<"next">>, content[at' + 1])
     \/ Did(<<"next">>, EOF)

PutBack ==
  /\ at > 0
  /\ Did(<<"putback">>, content[at])
  /\ at' = at - 1 /\ content' = content

Target(p, d) == CASE d = "beg" -> p
                  [] d = "cur" -> at + p
                  [] d = "end" -> Len(content) + p

Seek == \E p \in Offsets, d \in {"beg", "cur", "end"} :
  /\ Target(p, d) >= 0
  /\ Did(<<"seek", p, d>>, Target(p, d))
  /\ at' = Target(p, d) /\ content' = content

Sync == Did(<<"sync">>, 0) /\ UNCHANGED <<content, at>>

\* Where a closed file is, is not said.
Close == Did(<<"close">>, 0) /\ content' = content /\ at' \in Nat

Attach == Did(<<"attach">>, 0) /\ UNCHANGED <<content, at>>

SetBuf == Did(<<"setbuf">>, 0) /\ UNCHANGED <<content, at>>

Open ==
  /\ Did(<<"open">>, 0)
  /\ content' \in {content, <<>>}
  /\ at' \in {0, Len(content')}

Fails == ret' = EOF /\ UNCHANGED <<content, at>>

Init == content \in Seq(Chars) /\ at = 0 /\ call = <<"none">> /\ ret = 0

Next ==
  \/ /\ sure /\ sure'
     /\ \/ Put \/ Get \/ Peek \/ Skip \/ PutBack \/ Seek
        \/ Sync \/ Close \/ Attach \/ SetBuf \/ Open \/ Fails
  \/ ~ (sure /\ sure')

Spec == Init /\ [][Next]_fileVars
=============================================================================
