------------------------------ MODULE ByteFile ------------------------------
(***************************************************************************)
(* What a file promises its readers and writers: a content that all        *)
(* handles on it share, a position of its own for each handle.             *)
(***************************************************************************)
EXTENDS Integers, Sequences

CONSTANTS Handle, File,
          Writable          \* the files that may be written

VARIABLES on,               \* the file each handle is open on, or a non-file
          content,          \* of every file
          pos,              \* of every handle
          ans               \* the last answer: handle, call, x0, bytes

avars == <<on, content, pos, ans>>

Max2(a, b) == IF a > b THEN a ELSE b

AInit == /\ pos = [h \in Handle |-> 0]
         /\ DOMAIN content = File
         /\ \A f \in Writable : content[f] = <<>>

\* A write puts its bytes at the position and changes no other byte of the
\* file; what lies between the old end and the position may be anything.
AWrite(h) ==
    LET f == on[h] c == content[f]
    IN  /\ f \in Writable /\ on' = on
        /\ ans'.h = h /\ ans'.op = "write" /\ ans'.x0 > 0
        /\ pos' = [pos EXCEPT ![h] = @ + ans'.x0]
        /\ content' = [content EXCEPT ![f] = content'[f]]
        /\ Len(content'[f]) = Max2(Len(c), pos'[h])
        /\ \A i \in 1 .. Len(c) : i <= pos[h] \/ i > pos'[h] => content'[f][i] = c[i]
        /\ \A i \in pos[h] + 1 .. pos'[h] : content'[f][i] = ans'.bytes[i - pos[h]]

\* A read returns the bytes from the position on, at most to the end.
ARead(h) ==
    LET c == content[on[h]]
    IN  /\ on[h] \in File /\ on' = on /\ content' = content
        /\ ans'.h = h /\ ans'.op = "read" /\ ans'.x0 >= 0
        /\ pos[h] + ans'.x0 <= Max2(Len(c), pos[h])
        /\ ans'.bytes = [i \in 1 .. ans'.x0 |-> c[pos[h] + i]]
        /\ pos' = [pos EXCEPT ![h] = @ + ans'.x0]

\* A seek moves the position of one handle.
ASeek(h) ==
    /\ on' = on /\ content' = content /\ ans'.op = "seek"
    /\ pos'[h] >= 0 /\ pos' = [pos EXCEPT ![h] = pos'[h]]

\* An error changes nothing.
AFail == ans'.x0 < 0 /\ UNCHANGED <<on, content, pos>>

\* What a device does with its bytes is its own business.
ADevice(h) ==
    /\ on[h] \notin File /\ on' = on /\ content' = content
    /\ pos' = [pos EXCEPT ![h] = pos'[h]]

\* Open and close.
AOpen(h) ==
    /\ ans' = ans /\ on' = [on EXCEPT ![h] = on'[h]] /\ content' = content
    /\ pos' = [pos EXCEPT ![h] = 0]

ANext == \E h \in Handle : AWrite(h) \/ ARead(h) \/ ASeek(h) \/ AFail \/ ADevice(h) \/ AOpen(h)

ASpec == AInit /\ [][ANext]_avars
=============================================================================
