-------------------------------- MODULE Boot -------------------------------
(***************************************************************************)
(* efi_main from its first call to its return (main.c:700-1047), with its  *)
(* error returns, the resources it holds and its prompts.  The phases that *)
(* have modules of their own (ElfPlan, KernelLoader, MemoryMapHandoff and  *)
(* PhysMemMap) are single steps here, which succeed or fail.               *)
(*                                                                         *)
(* The other actor is whoever presses keys.  Nothing reads a key: a prompt *)
(* waits until one is there, and only the next Reset takes it away.  A key *)
(* is "new" if it was pressed after the message of the current prompt was  *)
(* printed, and "old" otherwise.                                           *)
(***************************************************************************)
EXTENDS Naturals, FiniteSets

CONSTANTS
    Debug,      \* built with SENDLOADADDR (make debug)
    Checks      \* what verify_elf compares

ASSUME BuildAssumption  == Debug \in BOOLEAN
ASSUME ChecksAssumption == IsFiniteSet(Checks) /\ Checks # {}

VARIABLES
    pc,         \* the next statement of efi_main; "returned" behind the last
    wrong,      \* the checks the kernel file does not pass
    protocols,  \* opened for the loader's image
    files,      \* open files
    pages,      \* what was allocated in pages, by use
    pool,       \* what was allocated from the pool
    cr3,        \* whose page tables the processor uses
    printer,    \* default_printer
    prompt,     \* "none", "shown" before the Reset, "waiting" after it
    input,      \* keys in the firmware's console input
    result      \* the status efi_main returns

held    == <<protocols, files, pages, pool>>
console == <<printer, prompt, input>>
bootVars == <<pc, wrong, held, cr3, console, result>>

(* CALL, CALLF and ERR: print, wait for a key, return EFI_ABORTED.         *)
Fails == pc' = "exit" /\ result' = "EFI_ABORTED"

Goes(to) == pc' = to /\ UNCHANGED result
----------------------------------------------------------------------------
BootInit ==
    /\ pc = "image"
    /\ wrong \in SUBSET Checks
    /\ protocols = {} /\ files = {} /\ pages = {} /\ pool = {}
    /\ cr3 = "firmware" /\ printer = "text"
    /\ prompt = "none" /\ input \in SUBSET {"old"}
    /\ result = "none"

OpenLoadedImage ==
    /\ pc = "image"
    /\ \/ Fails /\ UNCHANGED protocols
       \/ Goes(IF Debug THEN "handshake" ELSE "volume")
            /\ protocols' = protocols \cup {"image"}
    /\ UNCHANGED <<wrong, files, pages, pool, cr3, console>>

OpenFileSystem ==
    /\ pc = "volume"
    /\ \/ Fails /\ UNCHANGED protocols
       \/ Goes("root") /\ protocols' = protocols \cup {"volume"}
    /\ UNCHANGED <<wrong, files, pages, pool, cr3, console>>

(* OpenVolume, and tree, which leaves no file open that it opened and      *)
(* reports its errors only on the screen.                                  *)
OpenVolume ==
    /\ pc = "root"
    /\ \/ Fails /\ UNCHANGED files
       \/ Goes("open") /\ files' = files \cup {"root"}
    /\ UNCHANGED <<wrong, protocols, pages, pool, cr3, console>>

OpenKernel ==
    /\ pc = "open"
    /\ \/ Fails /\ UNCHANGED files
       \/ Goes("info") /\ files' = files \cup {"kernel.elf"}
    /\ UNCHANGED <<wrong, protocols, pages, pool, cr3, console>>

(* GetInfo fails, or kernel.elf is a directory, or neither.                *)
KernelInfo ==
    /\ pc = "info"
    /\ Fails \/ Goes("file")
    /\ UNCHANGED <<wrong, held, cr3, console>>

AllocateFile ==
    /\ pc = "file"
    /\ \/ Fails /\ UNCHANGED pages
       \/ Goes("read") /\ pages' = pages \cup {"file"}
    /\ UNCHANGED <<wrong, protocols, files, pool, cr3, console>>

ReadKeepsOpen ==        \* plausible bug: the file is not closed
    /\ pc = "read"
    /\ Fails \/ Goes("verify")
    /\ UNCHANGED <<wrong, held, cr3, console>>

ReadKernel ==
    /\ pc = "read"
    /\ \/ Fails /\ UNCHANGED files
       \/ Goes("verify") /\ files' = files \ {"kernel.elf"}
    /\ UNCHANGED <<wrong, protocols, pages, pool, cr3, console>>

VerifyIgnored ==        \* plausible bug: the answer of verify_elf is not used
    /\ pc = "verify"
    /\ Goes("plan")
    /\ UNCHANGED <<wrong, held, cr3, console>>

(* verify_elf compares one field after the other.                          *)
VerifyElf ==
    /\ pc = "verify"
    /\ IF wrong = {} THEN Goes("plan") ELSE Fails
    /\ UNCHANGED <<wrong, held, cr3, console>>

Plan ==                 \* see ElfPlan
    /\ pc = "plan"
    /\ Fails \/ Goes("load")
    /\ UNCHANGED <<wrong, held, cr3, console>>

(* See KernelLoader.  The page tables are switched first; an error return  *)
(* finds the PML4 and the segments before the one that failed.             *)
LoadKernel ==
    /\ pc = "load"
    /\ cr3' = "loader"
    /\ \/ Fails /\ \E part \in {{}, {"segments"}} : pages' = pages \cup {"pml4"} \cup part
       \/ Goes("kernel") /\ pages' = pages \cup {"pml4", "segments"}
    /\ UNCHANGED <<wrong, protocols, files, pool, console>>

(* The kernel returns (kmain), and the boot goes on without it.            *)
CallKernel ==
    /\ pc = "kernel"
    /\ Goes("gop")
    /\ UNCHANGED <<wrong, held, cr3, console>>

LocateGop ==
    /\ pc = "gop"
    /\ \/ Fails /\ UNCHANGED pool
       \/ Goes("interface") /\ pool' = pool \cup {"handles"}
    /\ UNCHANGED <<wrong, protocols, files, pages, cr3, console>>

OpenGop ==
    /\ pc = "interface"
    /\ Fails \/ Goes("switch")
    /\ UNCHANGED <<wrong, held, cr3, console>>

InitConsole ==
    /\ pc = "console"
    /\ printer' = "gop"
    /\ pool' = pool \ {"handles"}
    /\ Goes("memmap")
    /\ UNCHANGED <<wrong, protocols, files, pages, cr3, prompt, input>>

(* See MemoryMapHandoff and PhysMemMap.                                    *)
BuildMemoryMap ==
    /\ pc = "memmap"
    /\ \/ Fails /\ \E part \in {{}, {"memmap"}} : pages' = pages \cup part
       \/ pc' = "exit" /\ result' = "EFI_SUCCESS" /\ pages' = pages \cup {"memmap"}
    /\ UNCHANGED <<wrong, protocols, files, pool, cr3, console>>
----------------------------------------------------------------------------
(* The three prompts: of the debug build, before the console is switched,  *)
(* and wait_for_keypress_exit.                                             *)
Prompts == {"handshake", "switch", "exit"}

AfterPromptAgain ==     \* plausible bug: after an answer the GOP is opened again
    CASE pc = "handshake" -> "volume"
      [] pc = "switch"    -> "interface"
      [] pc = "exit"      -> "returned"

AfterPrompt ==
    CASE pc = "handshake" -> "volume"
      [] pc = "switch"    -> "console"
      [] pc = "exit"      -> "returned"

ShowPrompt ==
    /\ pc \in Prompts /\ prompt = "none"
    /\ prompt' = "shown"
    /\ input' = IF input = {} THEN {} ELSE {"old"}
    /\ UNCHANGED <<pc, wrong, held, cr3, printer, result>>

NoReset ==              \* plausible bug: keys pressed before are not dropped
    /\ prompt = "shown"
    /\ prompt' = "waiting"
    /\ UNCHANGED <<pc, wrong, held, cr3, printer, input, result>>

ResetInput ==
    /\ prompt = "shown"
    /\ prompt' = "waiting"
    /\ input' = {}
    /\ UNCHANGED <<pc, wrong, held, cr3, printer, result>>

(* WaitForEvent returns when a key is there; the key stays.                *)
KeyArrived ==
    /\ prompt = "waiting" /\ input # {}
    /\ prompt' = "none"
    /\ pc' = AfterPrompt
    /\ UNCHANGED <<wrong, held, cr3, printer, input, result>>

PressKey ==
    /\ input' = input \cup {IF prompt = "none" THEN "old" ELSE "new"}
    /\ input' # input
    /\ UNCHANGED <<pc, wrong, held, cr3, printer, prompt, result>>

Call ==
    \/ OpenLoadedImage \/ OpenFileSystem \/ OpenVolume \/ OpenKernel
    \/ KernelInfo \/ AllocateFile \/ ReadKernel \/ VerifyElf \/ Plan
    \/ LoadKernel \/ CallKernel \/ LocateGop \/ OpenGop \/ InitConsole
    \/ BuildMemoryMap

EfiMain == Call \/ ShowPrompt \/ ResetInput \/ KeyArrived

BootNext == EfiMain \/ PressKey

BootSpec ==
    /\ BootInit /\ [][BootNext]_bootVars
    /\ WF_bootVars(EfiMain)
    /\ WF_bootVars(PressKey)
----------------------------------------------------------------------------
(* Properties *)

(* Types (main.c:700-1047). *)
BootTypeOK ==
    /\ pc \in {"image", "volume", "root", "open", "info", "file", "read", "verify",
               "plan", "load", "kernel", "gop", "interface", "console", "memmap",
               "returned"} \cup Prompts
    /\ wrong \subseteq Checks
    /\ protocols \subseteq {"image", "volume"} /\ files \subseteq {"root", "kernel.elf"}
    /\ pages \subseteq {"file", "pml4", "segments", "memmap"} /\ pool \subseteq {"handles"}
    /\ cr3 \in {"firmware", "loader"} /\ printer \in {"text", "gop"}
    /\ prompt \in {"none", "shown", "waiting"} /\ input \subseteq {"old", "new"}
    /\ result \in {"none", "EFI_SUCCESS", "EFI_ABORTED"}

(* One key never answers two prompts (main.c:504-506, 722-723, 963-964),   *)
(* although no line reads it: a prompt goes on only for a key that was     *)
(* pressed after its message was printed.                                  *)
FreshKey == [][KeyArrived => "old" \notin input]_bootVars

(* What an error return leaves behind (main.c:638-1046), of the things the *)
(* code releases at all: kernel.elf stays open only when the failure came  *)
(* before the loader touched memory or page tables, the handle buffer only *)
(* when it came before the console was switched, and a complete boot       *)
(* leaves neither.                                                         *)
LeftBehind ==
    pc = "returned" =>
        /\ "kernel.elf" \in files => cr3 = "firmware" /\ pages \subseteq {"file"}
        /\ "handles" \in pool => printer = "text" /\ "memmap" \notin pages
        /\ result = "EFI_SUCCESS" => files = {"root"} /\ pool = {}

(* efi_main returns (main.c:700-1047), if somebody presses a key while it  *)
(* waits for one.                                                          *)
BootReturns == <>(pc = "returned")
=============================================================================
