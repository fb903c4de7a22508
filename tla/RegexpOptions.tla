---------------------------- MODULE RegexpOptions ----------------------------
(***************************************************************************)
(* The options of a Regexp: between Ruby and PCRE and back, and as to_s    *)
(* writes them into the source.  A set of flags stands for their bits.     *)
(***************************************************************************)
EXTENDS TLAPS

Letters == {"i", "m", "x"}

\* the second argument of Regexp.new
Arguments == [type : {"fixnum", "string"}, letters : SUBSET Letters] \cup
             [type : {"true", "false"}, letters : {{}}]

PcreFlag == [l \in Letters |-> CASE l = "i" -> "CASELESS" [] l = "m" -> "DOTALL"
                                 [] l = "x" -> "EXTENDED"]

\* mrb_mruby_to_pcre_options
ToPcre(arg) ==
  {"MULTILINE"} \cup IF arg.type = "true" THEN {"CASELESS"}
                     ELSE {PcreFlag[l] : l \in arg.letters}

\* mrb_pcre_to_mruby_options, which initialize stores as @options
ToMruby(flags) == [type |-> "fixnum", letters |-> {l \in Letters : PcreFlag[l] \in flags}]

\* the letters to_s writes before and behind the minus sign
Enabled(options)  == options.letters
Disabled(options) == Letters \ options.letters

\* What the letters mean to pcre_compile in "(?..-..:source)": m is not the
\* option that Ruby calls m.
InlineFlag == [l \in Letters |-> CASE l = "i" -> "CASELESS" [] l = "m" -> "MULTILINE"
                                   [] l = "x" -> "EXTENDED"]

Inline(flags, on, off) ==
  (flags \cup {InlineFlag[l] : l \in on}) \ {InlineFlag[l] : l \in off}

\* the flags that Regexp.new(re.to_s) gives the source of re
ToSFlags(options) ==
  Inline(ToPcre([type |-> "false", letters |-> {}]), Enabled(options), Disabled(options))

-----------------------------------------------------------------------------
\* What the flags are, letter by letter.
LEMMA Flags ==
  ASSUME NEW arg \in Arguments
  PROVE  /\ arg.letters \subseteq Letters
         /\ ToPcre(arg) \subseteq {"MULTILINE", "CASELESS", "DOTALL", "EXTENDED"}
         /\ "MULTILINE" \in ToPcre(arg)
         /\ "CASELESS" \in ToPcre(arg) <=> arg.type = "true" \/ "i" \in arg.letters
         /\ "DOTALL" \in ToPcre(arg) <=> arg.type # "true" /\ "m" \in arg.letters
         /\ "EXTENDED" \in ToPcre(arg) <=> arg.type # "true" /\ "x" \in arg.letters
<1>1. arg.letters \subseteq Letters
  BY DEF Arguments
<1>2. /\ PcreFlag["i"] = "CASELESS" /\ PcreFlag["m"] = "DOTALL"
      /\ PcreFlag["x"] = "EXTENDED"
  BY DEF PcreFlag, Letters
<1>3. CASE arg.type = "true"
  <2>1. arg.letters = {}
    BY <1>3 DEF Arguments
  <2>. QED BY <1>3, <2>1 DEF ToPcre
<1>4. CASE arg.type # "true"
  <2>1. ToPcre(arg) = {"MULTILINE"} \cup {PcreFlag[l] : l \in arg.letters}
    BY <1>4 DEF ToPcre
  <2>. QED BY <1>1, <1>2, <1>4, <2>1 DEF Letters
<1>. QED BY <1>3, <1>4

\* What initialize stores says which flags the code was compiled with.
LEMMA Stored ==
  ASSUME NEW arg \in Arguments
  PROVE  /\ ToMruby(ToPcre(arg)) \in Arguments
         /\ ToMruby(ToPcre(arg)).type = "fixnum"
         /\ "i" \in ToMruby(ToPcre(arg)).letters <=> "CASELESS" \in ToPcre(arg)
         /\ "m" \in ToMruby(ToPcre(arg)).letters <=> "DOTALL" \in ToPcre(arg)
         /\ "x" \in ToMruby(ToPcre(arg)).letters <=> "EXTENDED" \in ToPcre(arg)
<1>1. ToMruby(ToPcre(arg)).letters = {l \in Letters : PcreFlag[l] \in ToPcre(arg)}
  BY DEF ToMruby
<1>2. /\ PcreFlag["i"] = "CASELESS" /\ PcreFlag["m"] = "DOTALL"
      /\ PcreFlag["x"] = "EXTENDED"
  BY DEF PcreFlag, Letters
<1>3. ToMruby(ToPcre(arg)) \in Arguments
  BY DEF ToMruby, Arguments
<1>. QED BY <1>1, <1>2, <1>3 DEF ToMruby, Letters

\* A Regexp made from another one, or from its source and its options, is
\* compiled with the flags of that one, whatever argument the first was
\* made with.
THEOREM OptionsRoundTrip ==
  ASSUME NEW arg \in Arguments
  PROVE  ToPcre(ToMruby(ToPcre(arg))) = ToPcre(arg)
<1>. DEFINE again == ToMruby(ToPcre(arg))
<1>1. again \in Arguments /\ again.type # "true"
  BY Stored
<1>2. /\ ToPcre(again) \subseteq {"MULTILINE", "CASELESS", "DOTALL", "EXTENDED"}
      /\ ToPcre(arg) \subseteq {"MULTILINE", "CASELESS", "DOTALL", "EXTENDED"}
  BY <1>1, Flags
<1>3. \A flag \in {"MULTILINE", "CASELESS", "DOTALL", "EXTENDED"} :
        flag \in ToPcre(again) <=> flag \in ToPcre(arg)
  BY <1>1, Flags, Stored
<1>. QED BY <1>2, <1>3

\* The flags that the letters of to_s set and clear.
LEMMA ToSLetters ==
  ASSUME NEW arg \in Arguments
  PROVE  /\ "DOTALL" \notin ToSFlags(ToMruby(ToPcre(arg)))
         /\ "MULTILINE" \in ToSFlags(ToMruby(ToPcre(arg))) => "DOTALL" \in ToPcre(arg)
         /\ \A flag \in {"CASELESS", "EXTENDED"} :
              flag \in ToSFlags(ToMruby(ToPcre(arg))) <=> flag \in ToPcre(arg)
<1>. DEFINE opt == ToMruby(ToPcre(arg))
            on  == {InlineFlag[l] : l \in Enabled(opt)}
            off == {InlineFlag[l] : l \in Disabled(opt)}
<1>1. /\ InlineFlag["i"] = "CASELESS" /\ InlineFlag["m"] = "MULTILINE"
      /\ InlineFlag["x"] = "EXTENDED"
  BY DEF InlineFlag, Letters
<1>2. ToPcre([type |-> "false", letters |-> {}]) = {"MULTILINE"}
  BY DEF ToPcre
<1>3. ToSFlags(opt) = ({"MULTILINE"} \cup on) \ off
  BY <1>2 DEF ToSFlags, Inline
<1>4. Enabled(opt) \subseteq Letters /\ Disabled(opt) \subseteq Letters
  BY Stored, Flags DEF Enabled, Disabled
<1>5. "DOTALL" \notin on
  BY <1>1, <1>4 DEF Letters
<1>6. "m" \notin Enabled(opt) => "MULTILINE" \in off
  BY <1>1 DEF Enabled, Disabled, Letters
<1>7. \A l \in {"i", "x"} : /\ InlineFlag[l] \in on <=> l \in Enabled(opt)
                           /\ InlineFlag[l] \in off <=> l \notin Enabled(opt)
  BY <1>1, <1>4 DEF Enabled, Disabled, Letters
<1>8. "m" \in Enabled(opt) => "DOTALL" \in ToPcre(arg)
  BY Stored DEF Enabled
<1>9. /\ "i" \in Enabled(opt) <=> "CASELESS" \in ToPcre(arg)
      /\ "x" \in Enabled(opt) <=> "EXTENDED" \in ToPcre(arg)
  BY Stored DEF Enabled
<1>10. "DOTALL" \notin ToSFlags(opt)
  BY <1>3, <1>5
<1>11. "MULTILINE" \in ToSFlags(opt) => "DOTALL" \in ToPcre(arg)
  BY <1>3, <1>6, <1>8
<1>12. "CASELESS" \in ToSFlags(opt) <=> "CASELESS" \in ToPcre(arg)
  BY <1>1, <1>3, <1>7, <1>9
<1>13. "EXTENDED" \in ToSFlags(opt) <=> "EXTENDED" \in ToPcre(arg)
  BY <1>1, <1>3, <1>7, <1>9
<1>. QED BY <1>10, <1>11, <1>12, <1>13

\* A Regexp made from the to_s of another one ignores case and blanks as that
\* one does.
THEOREM ToSKeepsCaseAndBlanks ==
  ASSUME NEW arg \in Arguments, NEW flag \in {"CASELESS", "EXTENDED"}
  PROVE  flag \in ToSFlags(ToMruby(ToPcre(arg))) <=> flag \in ToPcre(arg)
BY ToSLetters

\* It never has the same flags: with m the dot no longer matches a newline,
\* without m the anchors ^ and $ no longer match at lines.
THEOREM ToSNeverRoundTrips ==
  ASSUME NEW arg \in Arguments
  PROVE  ToSFlags(ToMruby(ToPcre(arg))) # ToPcre(arg)
BY ToSLetters, Flags
=============================================================================
