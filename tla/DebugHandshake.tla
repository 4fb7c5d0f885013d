--------------------------- MODULE DebugHandshake --------------------------
(***************************************************************************)
(* The debug build's handshake (main.c:717-725, lldb_dbg.py:22-113).  The  *)
(* script starts QEMU with its processor stopped, connects to the serial   *)
(* line, attaches LLDB, lets the processor run, reads the line "!!<base>"  *)
(* the loader prints, loads the symbols there and sends a newline, for     *)
(* which the loader waits.                                                 *)
(*                                                                         *)
(* Nobody is at the keyboard.  What is sent over the serial line is a      *)
(* sequence of pieces, a newline among them; recv returns any part of it.  *)
(***************************************************************************)
EXTENDS Boot, Sequences

CONSTANT FirmwareOutput     \* lines the firmware may print before the loader

ASSUME DebugAssumption  == Debug
ASSUME OutputAssumption ==
    \A s \in FirmwareOutput :
        s \in Seq({"text", "\n"}) /\ (s # <<>> => s[Len(s)] = "\n")

VARIABLES
    qemu,       \* "off", "serial" waiting for a client, "stub" when LLDB may
                \* attach, "running" when the processor runs
    dbg,        \* the script: "connect", "attach", "read", "interrupt", "load",
                \* "send", "end", and "dead" after an exception
    stream,     \* printed and not yet received
    buffer,     \* received since the last newline
    res,        \* the address the script has read
    refused,    \* LLDB came before the stub
    early       \* the newline was sent before the loader's Reset

script == <<qemu, dbg, stream, buffer, res, refused, early>>
debugVars == <<bootVars, script>>

Announcement == <<"!!", "base", "\n">>
----------------------------------------------------------------------------
DebugInit ==
    /\ BootInit /\ input = {} /\ wrong = {}
    /\ qemu = "off" /\ dbg = "connect"
    /\ stream \in FirmwareOutput /\ buffer = <<>>
    /\ res = "none" /\ refused = FALSE /\ early = FALSE

(* make run-debug: -serial tcp:...,server waits for the client before the  *)
(* rest is set up, -s opens the stub, -S keeps the processor stopped.      *)
QemuStarts ==
    /\ \/ qemu = "off" /\ qemu' = "serial"
       \/ qemu = "serial" /\ dbg # "connect" /\ qemu' = "stub"
    /\ UNCHANGED <<bootVars, dbg, stream, buffer, res, refused, early>>

(* Lines 41-48: tried again until QEMU listens.                            *)
Connect ==
    /\ dbg = "connect" /\ qemu = "serial"
    /\ dbg' = "attach"
    /\ UNCHANGED <<bootVars, qemu, stream, buffer, res, refused, early>>

(* Lines 73-75.  The answer of neither command is looked at: a refused     *)
(* gdb-remote leaves the processor stopped.                                *)
Attach ==
    /\ dbg = "attach"
    /\ dbg' = "read"
    /\ qemu' = IF qemu = "stub" THEN "running" ELSE qemu
    /\ refused' = (qemu # "stub")
    /\ UNCHANGED <<bootVars, stream, buffer, res, early>>

(* Lines 81-90: the pieces are put together into lines.                    *)
IsLine(s, a, b) ==      \* a newline at b ends a line that begins at a
    /\ a = 1 \/ s[a - 1] = "\n"
    /\ s[b] = "\n" /\ \A k \in a .. b - 1 : s[k] # "\n"

Found(s) == {a \in 1 .. Len(s) : s[a] = "!!" /\ \E b \in a .. Len(s) : IsLine(s, a, b)}

LineEnd(s) ==           \* of the last line that is finished
    CHOOSE n \in 0 .. Len(s) :
        /\ n = 0 \/ s[n] = "\n"
        /\ \A k \in n + 1 .. Len(s) : s[k] # "\n"

RestLost(s) == <<>>     \* plausible bug: an unfinished line is forgotten

Rest(s) == SubSeq(s, LineEnd(s) + 1, Len(s))    \* buffer = lines[-1]

Receive ==
    /\ dbg = "read" /\ stream # <<>>
    /\ \E n \in 1 .. Len(stream) :
        LET s == buffer \o SubSeq(stream, 1, n)
        IN  /\ stream' = SubSeq(stream, n + 1, Len(stream))
            /\ buffer' = Rest(s)
            /\ IF Found(s) = {}
               THEN UNCHANGED <<dbg, res>>
               ELSE \E a \in Found(s) : res' = s[a + 1] /\ dbg' = "interrupt"
    /\ UNCHANGED <<bootVars, qemu, refused, early>>

(* Line 93.  The text \x03 is no command of LLDB's, and its answer is not  *)
(* looked at: the processor goes on running.                               *)
Interrupt ==
    /\ dbg = "interrupt"
    /\ dbg' = "load"
    /\ UNCHANGED <<bootVars, qemu, stream, buffer, res, refused, early>>

(* Lines 94-111.  No more are the answers of the commands that load.       *)
SendBeforeLoading ==    \* plausible bug: the newline is sent first
    /\ dbg = "load"
    /\ dbg' = "send" /\ input' = {"new"}
    /\ early' = (prompt = "shown")
    /\ UNCHANGED <<pc, wrong, held, cr3, printer, prompt, result>>
    /\ UNCHANGED <<qemu, stream, buffer, res, refused>>

LoadSymbols ==
    /\ dbg = "load"
    /\ dbg' = "send"
    /\ UNCHANGED <<bootVars, qemu, stream, buffer, res, refused, early>>

(* Lines 115-117: an exception is logged, and ends the script.  What was   *)
(* received may be no UTF-8, as when recv cuts a character in two (line    *)
(* 81), or the target has no module of the loader's name (line 96).        *)
Raise ==
    /\ \/ dbg = "read" /\ stream # <<>>
       \/ dbg = "load"
    /\ dbg' = "dead"
    /\ UNCHANGED <<bootVars, qemu, stream, buffer, res, refused, early>>

(* Line 113.                                                               *)
SendNewline ==
    /\ dbg = "send"
    /\ dbg' = "end"
    /\ input' = input \cup {"new"}
    /\ early' = (prompt = "shown")
    /\ UNCHANGED <<pc, wrong, held, cr3, printer, prompt, result>>
    /\ UNCHANGED <<qemu, stream, buffer, res, refused>>

(* The loader runs when the processor does; line 720 announces its base.   *)
Loader ==
    /\ qemu = "running"
    /\ EfiMain
    /\ stream' = IF pc = "handshake" /\ prompt' = "shown" /\ prompt = "none"
                 THEN stream \o Announcement ELSE stream
    /\ UNCHANGED <<qemu, dbg, buffer, res, refused, early>>

Debugger ==
    \/ Connect \/ Attach \/ Receive \/ Interrupt \/ LoadSymbols \/ SendNewline \/ Raise

DebugNext == Loader \/ Debugger \/ QemuStarts

DebugSpec ==
    /\ DebugInit /\ [][DebugNext]_debugVars
    /\ WF_debugVars(Loader) /\ WF_debugVars(Debugger) /\ WF_debugVars(QemuStarts)
----------------------------------------------------------------------------
(* Properties *)

(* Nothing of the boot happens before the debugger can see it (main.c:     *)
(* 717-725, lldb_dbg.py:93-113): the loader passes its handshake only when *)
(* the script has finished loading the symbols at the base it announced.   *)
Passed == "image" \in protocols /\ pc # "handshake"

SymbolsFirst == Passed => dbg = "end" /\ res = "base"

(* The handshake succeeds, however the line is cut up and whoever is       *)
(* faster (main.c:720-723, lldb_dbg.py:41-117), but for three reasons:     *)
(* LLDB came before QEMU's stub and nobody tried again, an exception ended *)
(* the script, or the newline came before the Reset.                       *)
HandshakeSettles ==
    <>(Passed \/ result = "EFI_ABORTED" \/ refused \/ dbg = "dead" \/ early)
=============================================================================
