------------------------------- MODULE XqBytes -------------------------------
(***************************************************************************)
(* The obfuscation of command payloads in func_replacements.js.  A buffer  *)
(* is a function on 0 .. size - 1.  Only its first buflen cells are        *)
(* touched: each has its lowest bit flipped, and all move by `rotate`.     *)
(* Both are called with rotate <= buflen only.                             *)
(***************************************************************************)
EXTENDS Integers

Flip(b) == IF b % 2 = 1 THEN b - 1 ELSE b + 1

\* Deviation: the last cell is left as it is.
XqBytesDecShort(buf, buflen, rotate) ==
    [i \in DOMAIN buf |->
        IF i >= buflen - 1 THEN buf[i]
        ELSE IF i >= rotate THEN Flip(buf[i - rotate])
        ELSE Flip(buf[buflen - rotate + i])]

XqBytesDec(buf, buflen, rotate) ==
    [i \in DOMAIN buf |->
        IF i >= buflen THEN buf[i]
        ELSE IF i >= rotate THEN Flip(buf[i - rotate])
        ELSE Flip(buf[buflen - rotate + i])]

XqBytesEnc(buf, buflen, rotate) ==
    [i \in DOMAIN buf |->
        IF i >= buflen THEN buf[i]
        ELSE IF i < buflen - rotate THEN Flip(buf[i + rotate])
        ELSE Flip(buf[i - (buflen - rotate)])]
=============================================================================
