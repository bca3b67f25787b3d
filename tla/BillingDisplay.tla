--------------------------- MODULE BillingDisplay ---------------------------
(* What the usage log tells a user a request cost, next to what it cost.    *)
(* The relay prices a request's usage, charges the rounded quota and writes *)
(* the ratios it applied into the log entry (service/text_quota.go,         *)
(* service/quota.go).  The console has only the entry: it works the price   *)
(* out again, three times over, for the details column, the log details and *)
(* the billing process of an expanded row (helpers/render.jsx).             *)
(*                                                                           *)
(* A ratio r stands for r / One, so that the decimals of the relay and the  *)
(* floats of the console are integers here; prices of calls are in quota.   *)
(* The six digits amounts are written with, the currency and the wording    *)
(* are left out.                                                             *)
EXTENDS Integers, FiniteSets, FiniteSetsExt

CONSTANTS
  Semantics,   \* ways a usage is counted and logged, a subset of AllSemantics
  Features,    \* what a request may use beside plain tokens, at most two at once
  Ratios,      \* triples: the ratio of the model, the group and the cache
  None

VARIABLES
  entry,       \* the log entry shown, None before there is one
  usage,       \* the usage and the prices it was made from
  price,
  display,     \* quota_display_type and the log page's display mode
  format       \* the display the expanded row was worked out under

vars == <<entry, usage, price, display, format>>

One == 2
NoPrice == -1

AllSemantics == {"openai", "derived", "claude", "audio", "ws", "task"}
TextSemantics == {"openai", "derived", "claude"}
AudioSemantics == {"audio", "ws"}
AllFeatures == {"cache", "create", "5m", "1h", "image", "image_output",
                "audio_input", "web", "file", "image_call", "per_call",
                "special", "sales", "others", "capped", "silent"}

\* What a speech request, and one not counted as Anthropic does, may have.
Possible(s) ==
  CASE s \in AudioSemantics -> {"audio_input", "per_call", "special", "silent"}
    [] s = "openai" -> AllFeatures \ {"5m", "1h"}
    [] OTHER -> AllFeatures

-----------------------------------------------------------------------------
\* A usage by the features it has.  The counts differ, so that a sum that
\* takes one for another is told apart.  The openai way of counting includes
\* the cached tokens in the prompt, Anthropic's does not.
Usage(s, f) ==
  LET n(x, k) == IF x \in f THEN k ELSE 0
      cache == n("cache", 3)
      create == n("create", 5)
      image == n("image", 2)
      audio == n("audio_input", 7)
      Plain == 11 + image + audio
  IN [semantic |-> s,
      prompt |-> IF "silent" \in f THEN 0
                 ELSE IF s = "openai" THEN Plain + cache + create ELSE Plain,
      completion |-> IF "silent" \in f THEN 0 ELSE 13,
      cache |-> cache, create |-> create, c5m |-> n("5m", 2), c1h |-> n("1h", 3),
      image |-> image, imageOut |-> n("image_output", 6), audio |-> audio,
      audioOut |-> IF s \in AudioSemantics THEN 4 ELSE 0,
      web |-> n("web", 2), file |-> n("file", 3), imageCall |-> "image_call" \in f]

\* The price data of a request: per call or by ratios, the group's ratio or
\* the user's own, and what only some channels have.
PriceData(f, model, group, cache) ==
  LET perCall == "per_call" \in f
  IN [usePrice |-> perCall, modelPrice |-> IF perCall THEN 9 ELSE NoPrice,
      modelRatio |-> IF perCall THEN 0 ELSE model,
      completion |-> 8, cache |-> cache, create |-> 5, create5m |-> 6, create1h |-> 10,
      image |-> 3, imageCompletion |-> IF "image_output" \in f THEN 7 ELSE 0,
      audioInput |-> 14, audio |-> 12, audioCompletion |-> 4,
      web |-> 10, file |-> 4, imageCall |-> 15,
      group |-> group, special |-> IF "special" \in f THEN group ELSE NoPrice,
      sales |-> IF "sales" \in f THEN 3 ELSE One, others |-> IF "others" \in f THEN 4 ELSE One,
      cap |-> IF "capped" \in f THEN 1 ELSE None]

-----------------------------------------------------------------------------
(* The relay.                                                               *)

\* An amount over a scale, rounded half up.
Round(amount, scale) == (2 * amount + scale) \div (2 * scale)

Positive(n) == IF n > 0 THEN n ELSE 0

\* The tokens billed as input, each at its ratio.  A usage in Anthropic's way
\* of counting, or derived from it, has the cached tokens beside the prompt.
cachedBeside(u) == u.semantic \in {"claude", "derived"}

createdTokensWithRatio(u, p) ==
  IF cachedBeside(u)
    THEN Positive(u.create - u.c5m - u.c1h) * p.create + u.c5m * p.create5m + u.c1h * p.create1h
    ELSE u.create * p.create

promptQuota(u, p) ==
  LET base == u.prompt - u.image
              - (IF p.audioInput > 0 THEN u.audio ELSE 0)
              - (IF cachedBeside(u) THEN 0 ELSE u.cache + u.create)
  IN base * One + u.cache * p.cache + createdTokensWithRatio(u, p) + u.image * p.image

completionQuota(u, p) ==
  IF p.imageCompletion > 0
    THEN (u.completion - u.imageOut) * p.completion + u.imageOut * p.imageCompletion
    ELSE u.completion * p.completion

\* What the tools add, at the group's ratio.
toolQuota(u, p) ==
  (u.web * p.web + u.file * p.file + (IF u.imageCall THEN p.imageCall ELSE 0)) * p.group

cacheWriteTokensTotal(u) ==
  IF u.c5m + u.c1h > 0 /\ u.create <= u.c5m + u.c1h THEN u.c5m + u.c1h ELSE u.create

TotalTokens(u) ==
  u.prompt + u.completion
    + (IF u.semantic = "claude" THEN u.cache + cacheWriteTokensTotal(u) ELSE 0)

\* The amount charged, in units of One^3 for the amounts before the other
\* ratios and the sales ratio are applied.
textAmount(u, p) ==
  IF p.usePrice
    THEN (p.modelPrice * p.group + toolQuota(u, p)) * One * One
    ELSE (promptQuota(u, p) + completionQuota(u, p)) * p.modelRatio * p.group
         + toolQuota(u, p) * One * One
         + u.audio * p.audioInput * p.group * One

calculateTextQuotaSummary(u, p) ==
  LET amount == textAmount(u, p) * p.others
      billed == IF ~p.usePrice /\ p.modelRatio * p.group # 0 /\ amount <= 0
                  THEN One * One * One * One ELSE amount
      quota == Round(billed * p.sales, One * One * One * One * One)
  IN IF TotalTokens(u) = 0 THEN 0
     ELSE IF p.modelRatio * p.group # 0 /\ quota = 0 THEN 1
     ELSE quota

\* A channel that may not settle above its authorization is capped at it.
textQuota(u, p) ==
  LET quota == calculateTextQuotaSummary(u, p)
  IN IF p.cap # None /\ quota > p.cap THEN p.cap ELSE quota

\* Speech: text and audio tokens of both directions.  The caller leaves the
\* model's price out of the QuotaInfo, so a price per call charges nothing.
calculateAudioQuota(u, p) ==
  LET amount == (u.prompt * One * One + u.completion * p.completion * One
                 + u.audio * p.audio * One + u.audioOut * p.audio * p.audioCompletion)
                * p.modelRatio * p.group
  IN IF u.prompt + u.completion = 0 \/ p.usePrice THEN 0
     ELSE IF p.modelRatio * p.group # 0 /\ amount <= 0 THEN 1
     ELSE Round(amount, One * One * One * One)

\* The ratios every entry has.
GenerateTextOtherInfo(u, p) ==
  [model_ratio |-> p.modelRatio, group_ratio |-> p.group, completion_ratio |-> p.completion,
   cache_tokens |-> u.cache, cache_ratio |-> p.cache, model_price |-> p.modelPrice,
   user_group_ratio |-> p.special]

\* What an entry adds for what the usage has; a field that is absent reads
\* as zero, which is how the console reads it.
MoreInfo(u, p) ==
  LET split == u.semantic \in TextSemantics
      with(n, x) == IF n > 0 THEN x ELSE 0
  IN [image |-> split /\ u.image # 0, image_ratio |-> with(u.image, p.image), image_output |-> u.image,
      web_search_call_count |-> u.web, web_search_price |-> with(u.web, p.web),
      file_search_call_count |-> u.file, file_search_price |-> with(u.file, p.file),
      audio_input_token_count |-> with(p.audioInput, u.audio),
      audio_input_price |-> with(u.audio, p.audioInput),
      image_generation_call_price |-> IF u.imageCall THEN p.imageCall ELSE 0,
      cache_creation_tokens |-> u.create,
      cache_creation_ratio |-> IF u.create > 0 \/ u.semantic = "claude" THEN p.create ELSE 0,
      cache_creation_tokens_5m |-> u.c5m, cache_creation_ratio_5m |-> with(u.c5m, p.create5m),
      cache_creation_tokens_1h |-> u.c1h, cache_creation_ratio_1h |-> with(u.c1h, p.create1h)]

\* A speech entry says nothing of a cache.
GenerateAudioOtherInfo(u, p) ==
  [GenerateTextOtherInfo(u, p) EXCEPT !.cache_tokens = 0, !.cache_ratio = 0]

AudioInfo(u, p) ==
  [text_input |-> u.prompt, text_output |-> u.completion, audio_input |-> u.audio,
   audio_output |-> u.audioOut, audio_ratio |-> p.audio,
   audio_completion_ratio |-> p.audioCompletion]

\* The entry the relay records.
Entry(u, p) ==
  IF u.semantic \in AudioSemantics
    THEN [semantic |-> u.semantic, prompt |-> u.prompt, completion |-> u.completion,
          quota |-> calculateAudioQuota(u, p), other |-> GenerateAudioOtherInfo(u, p),
          more |-> AudioInfo(u, p)]
    ELSE [semantic |-> u.semantic, prompt |-> u.prompt, completion |-> u.completion,
          quota |-> textQuota(u, p), other |-> GenerateTextOtherInfo(u, p),
          more |-> MoreInfo(u, p)]

-----------------------------------------------------------------------------
(* The console.                                                             *)

isValidGroupRatio(r) == r # NoPrice

getEffectiveRatio(o) ==
  IF isValidGroupRatio(o.user_group_ratio) THEN o.user_group_ratio ELSE o.group_ratio

resolveBillingDisplayMode(d, modelPrice) ==
  IF modelPrice # NoPrice THEN "price"
  ELSE IF d.type = "TOKENS" THEN "ratio"
  ELSE d.mode

shouldUseRatioBillingProcess(d, modelPrice) == modelPrice = NoPrice /\ d.type = "TOKENS"

\* x || y
Or(x, y) == IF x = 0 THEN y ELSE x

\* One part of a written-out price: so many of a kind at so much each.
Part(kind, count, each) == [kind |-> kind, count |-> count, each |-> each]

Amount(parts) == MapThenSumSet(LAMBDA x : x.count * x.each, parts)

\* What a process shows: the prices it lists, the sum it writes out and the
\* total it ends in.
Process(prices, parts, total) == [prices |-> prices, parts |-> parts, total |-> total]

\* The price of one token of a kind, by the kind's ratio.
Each(o, ratio) == o.model_ratio * ratio * One

\* A price per call: one line, and nothing of what the tools cost.
PerCall(o) ==
  LET each == o.model_price * One * One * One
  IN Process({<<"call", each>>}, {Part("call", 1, each)}, each * getEffectiveRatio(o))

\* The tools' parts; a tool that was not called is not written.
extraServices(m) ==
  {x \in {Part("web", m.web_search_call_count, m.web_search_price * One * One * One),
          Part("file", m.file_search_call_count, m.file_search_price * One * One * One),
          Part("image_call", 1, m.image_generation_call_price * One * One * One)}
     : x.count > 0 /\ x.each > 0}

imageTokens(m) == IF m.image THEN m.image_output ELSE 0

\* The input, in tokens at the model's ratio.  With images in the input the
\* cached tokens' discount is forgotten.
effectiveInputTokens(e, cacheRatio) ==
  LET c == e.other.cache_tokens
      i == imageTokens(e.more)
  IN (IF i > 0 THEN (e.prompt - i) * One + i * e.more.image_ratio
      ELSE (e.prompt - c) * One + c * cacheRatio)
     - e.more.audio_input_token_count * One

\* The input as it is written out: the first of images, cache and audio that
\* applies, and only that.
inputDesc(e, cacheRatio) ==
  LET o == e.other
      m == e.more
      i == imageTokens(m)
  IN IF i > 0 THEN {Part("input", e.prompt - i, Each(o, One)), Part("image", i, Each(o, One))}
     ELSE IF o.cache_tokens > 0
       THEN {Part("input", e.prompt - o.cache_tokens, Each(o, One)),
             Part("cache", o.cache_tokens, Each(o, cacheRatio))}
     ELSE IF m.audio_input_token_count > 0
       THEN {Part("input", e.prompt - m.audio_input_token_count, Each(o, One)),
             Part("audio", m.audio_input_token_count, m.audio_input_price * One * One)}
     ELSE {Part("input", e.prompt, Each(o, One))}

\* The lines of prices above the sum.
billingLines(e, cacheRatio) ==
  LET o == e.other
      m == e.more
  IN {<<"input", Each(o, One)>>, <<"completion", Each(o, o.completion_ratio)>>}
     \cup (IF o.cache_tokens > 0 THEN {<<"cache", Each(o, cacheRatio)>>} ELSE {})
     \cup (IF imageTokens(m) > 0 THEN {<<"image", Each(o, m.image_ratio)>>} ELSE {})
     \cup (IF m.audio_input_price > 0 THEN {<<"audio", m.audio_input_price * One * One>>} ELSE {})
     \cup {<<x.kind, x.each>> : x \in extraServices(m)}

\* The process of a request billed by tokens, in prices.
modelPriceInPrices(e, cacheRatio) ==
  LET o == e.other
      m == e.more
      g == getEffectiveRatio(o)
  IN Process(billingLines(e, cacheRatio),
             inputDesc(e, cacheRatio) \cup extraServices(m)
               \cup {Part("completion", e.completion, Each(o, o.completion_ratio))},
             g * (effectiveInputTokens(e, cacheRatio) * o.model_ratio * One
                  + m.audio_input_token_count * m.audio_input_price * One * One
                  + e.completion * Each(o, o.completion_ratio)
                  + Amount(extraServices(m))))

\* The same in ratios: every kind has a line, and the total is their sum.
\* Input of images is counted as text as well.
ratioLines(e, cacheRatio) ==
  LET o == e.other
      m == e.more
  IN {Part("input", Positive(e.prompt - o.cache_tokens - m.audio_input_token_count), Each(o, One)),
      Part("cache", o.cache_tokens, Each(o, cacheRatio)),
      Part("image", imageTokens(m), Each(o, m.image_ratio)),
      Part("audio", m.audio_input_token_count, m.audio_input_price * One * One),
      Part("completion", e.completion, Each(o, o.completion_ratio))} \cup extraServices(m)

modelPriceInRatios(e, cacheRatio) ==
  LET lines == ratioLines(e, cacheRatio)
      shown == {x \in lines : x.count > 0}
  IN Process({<<x.kind, x.each>> : x \in shown}, shown,
             getEffectiveRatio(e.other) * Amount(lines))

renderModelPrice(e, d) ==
  LET cacheRatio == Or(e.other.cache_ratio, One)
  IN IF e.other.model_price # NoPrice THEN PerCall(e.other)
     ELSE IF shouldUseRatioBillingProcess(d, e.other.model_price)
       THEN modelPriceInRatios(e, cacheRatio)
     ELSE modelPriceInPrices(e, cacheRatio)

\* Speech: the text's tokens and the audio's, in both directions.  The two
\* ways of writing it differ in the line of the cached input only.
audioParts(e, cacheRatio) ==
  LET o == e.other
      m == e.more
  IN {Part("input", m.text_input - o.cache_tokens, Each(o, One)),
      Part("cache", o.cache_tokens, Each(o, cacheRatio)),
      Part("completion", m.text_output, Each(o, o.completion_ratio)),
      Part("audio", m.audio_input, Each(o, m.audio_ratio)),
      Part("audio_completion", m.audio_output,
           o.model_ratio * m.audio_ratio * m.audio_completion_ratio)}

audioPriceInPrices(e, parts) ==
  LET written == {x \in parts : x.kind # "cache"}
  IN Process({<<x.kind, x.each>> : x \in {y \in parts : y.kind # "cache" \/ y.count > 0}}, written,
             getEffectiveRatio(e.other) * Amount(parts))

audioPriceInRatios(e, parts) ==
  LET shown == {x \in parts : x.kind # "cache" \/ x.count > 0}
  IN Process({<<x.kind, x.each>> : x \in shown}, shown, getEffectiveRatio(e.other) * Amount(parts))

renderAudioModelPrice(e, d) ==
  LET parts == audioParts(e, Or(e.other.cache_ratio, One))
  IN IF e.other.model_price # NoPrice THEN PerCall(e.other)
     ELSE IF shouldUseRatioBillingProcess(d, e.other.model_price) THEN audioPriceInRatios(e, parts)
     ELSE audioPriceInPrices(e, parts)

\* The ratios of writing to the cache, as the callers default them.
createRatio(m) == Or(m.cache_creation_ratio, One)
createRatio5m(m) == Or(m.cache_creation_ratio_5m, createRatio(m))
createRatio1h(m) == Or(m.cache_creation_ratio_1h, createRatio(m))

hasSplitCacheCreation(m) == m.cache_creation_tokens_5m > 0 \/ m.cache_creation_tokens_1h > 0

\* Anthropic's usage: what was read from and written to the cache is beside
\* the prompt.  Split by lifetime, only the split tokens count.
claudeParts(e, cacheRatio) ==
  LET o == e.other
      m == e.more
  IN {Part("input", e.prompt, Each(o, One)),
      Part("cache", o.cache_tokens, Each(o, cacheRatio)),
      Part("create", IF hasSplitCacheCreation(m) THEN 0 ELSE m.cache_creation_tokens,
           Each(o, createRatio(m))),
      Part("5m", m.cache_creation_tokens_5m, Each(o, createRatio5m(m))),
      Part("1h", m.cache_creation_tokens_1h, Each(o, createRatio1h(m))),
      Part("completion", e.completion, Each(o, o.completion_ratio))}

\* The input in tokens at the model's ratio, for the total.
claudeTotal(e, cacheRatio) == getEffectiveRatio(e.other) * Amount(claudeParts(e, cacheRatio))

claudeInPrices(e, cacheRatio) ==
  LET shown == {x \in claudeParts(e, cacheRatio) :
                  x.count > 0 \/ x.kind \in {"input", "completion"}}
  IN Process({<<x.kind, x.each>> : x \in shown}, shown, claudeTotal(e, cacheRatio))

claudeInRatios(e, cacheRatio) ==
  LET parts == claudeParts(e, cacheRatio)
      shown == {x \in parts : x.count > 0 \/ x.kind \in {"input", "completion"}}
  IN Process({<<x.kind, x.each>> : x \in
                {y \in parts : \/ y.kind \in {"input", "completion", "cache"}
                               \/ IF hasSplitCacheCreation(e.more) THEN y.kind \in {"5m", "1h"}
                                                                   ELSE y.kind = "create"}},
             shown, claudeTotal(e, cacheRatio))

renderClaudeModelPrice(e, d) ==
  LET cacheRatio == Or(e.other.cache_ratio, One)
  IN IF e.other.model_price # NoPrice THEN PerCall(e.other)
     ELSE IF shouldUseRatioBillingProcess(d, e.other.model_price) THEN claudeInRatios(e, cacheRatio)
     ELSE claudeInPrices(e, cacheRatio)

\* A task that is charged by tokens shows the log's own text and no sum.
renderTaskBillingProcess == Process({}, {}, None)

\* The process an expanded row shows.
BillingProcess(e, d) ==
  CASE e.semantic = "task" /\ e.other.model_price = NoPrice -> renderTaskBillingProcess
    [] e.semantic \in AudioSemantics -> renderAudioModelPrice(e, d)
    [] e.semantic = "claude" -> renderClaudeModelPrice(e, d)
    [] OTHER -> renderModelPrice(e, d)

\* The prices the log details list.  In ratios the cache's is always listed,
\* in prices only when it differs from the input's.
renderLogContent(e, d) ==
  LET o == e.other
      cacheRatio == Or(o.cache_ratio, One)
      inPrices == resolveBillingDisplayMode(d, o.model_price) = "price"
  IN IF o.model_price # NoPrice THEN {<<"call", o.model_price * One * One * One>>}
     ELSE {<<"input", Each(o, One)>>, <<"completion", Each(o, o.completion_ratio)>>}
          \cup (IF ~inPrices \/ cacheRatio # One THEN {<<"cache", Each(o, cacheRatio)>>} ELSE {})

createPrices(o, m) ==
  IF hasSplitCacheCreation(m)
    THEN (IF m.cache_creation_tokens_5m > 0 THEN {<<"5m", Each(o, createRatio5m(m))>>} ELSE {})
         \cup (IF m.cache_creation_tokens_1h > 0 THEN {<<"1h", Each(o, createRatio1h(m))>>} ELSE {})
    ELSE {<<"create", Each(o, createRatio(m))>>}

renderClaudeLogContent(e) ==
  LET o == e.other
  IN IF o.model_price # NoPrice THEN {<<"call", o.model_price * One * One * One>>}
     ELSE {<<"input", Each(o, One)>>, <<"completion", Each(o, o.completion_ratio)>>,
           <<"cache", Each(o, Or(o.cache_ratio, One))>>} \cup createPrices(o, e.more)

LogDetails(e, d) == IF e.semantic = "claude" THEN renderClaudeLogContent(e) ELSE renderLogContent(e, d)

\* The prices of the details column: the input's, and those of the cache when
\* it was used.
renderPriceSimpleCore(e, created) ==
  LET o == e.other
      wrote == created /\ (hasSplitCacheCreation(e.more) \/ e.more.cache_creation_tokens # 0)
  IN IF o.model_price # NoPrice THEN {<<"call", o.model_price * One * One * One>>}
     ELSE {<<"input", Each(o, One)>>}
          \cup (IF o.cache_tokens # 0 THEN {<<"cache", Each(o, Or(o.cache_ratio, One))>>} ELSE {})
          \cup (IF wrote THEN createPrices(o, e.more) ELSE {})

\* Writing to the cache is listed for Anthropic's usage alone.
getUsageLogDetailSummary(e) == renderPriceSimpleCore(e, e.semantic = "claude")

-----------------------------------------------------------------------------
Displays == [type : {"USD", "TOKENS"}, mode : {"price", "ratio"}]

Init ==
  /\ entry = None /\ usage = None /\ price = None
  /\ display \in Displays /\ format = display

\* A request is answered, charged and logged, and the page loads its entry:
\* the expanded row is worked out now, the details column on every rendering.
Record(s, f, model, group, cache) ==
  /\ entry = None
  /\ LET u == Usage(s, f)
         p == PriceData(f, model, group, cache)
     IN usage' = u /\ price' = p /\ entry' = Entry(u, p)
  /\ format' = display
  /\ UNCHANGED display

\* The user changes how prices are written; the expanded row is left as it is.
SwitchDisplay ==
  /\ display' = [display EXCEPT !.mode = IF @ = "price" THEN "ratio" ELSE "price"]
  /\ UNCHANGED <<entry, usage, price, format>>

\* The page loads its entries again.
Reload == entry # None /\ format' = display /\ UNCHANGED <<entry, usage, price, display>>

Next ==
  \/ \E s \in Semantics, r \in Ratios :
       \E f \in {{}} \cup {{a, b} : a, b \in Features \cap Possible(s)} :
         Record(s, f, r[1], r[2], r[3])
  \/ SwitchDisplay
  \/ Reload

Spec == Init /\ [][Next]_vars

-----------------------------------------------------------------------------
TypeOK ==
  /\ display \in Displays /\ format \in Displays
  /\ entry # None => entry.semantic \in Semantics /\ entry.quota \in Nat

\* What the console's sum accounts for.  What it leaves out, the entry does
\* not carry or the renderer does not read: the ratios of some channels, what
\* a cap takes off, tokens written to the cache in openai's way of counting,
\* images beside cached input, tools beside a price per call, and others.
\* A cache ratio of zero reads as one, and a speech model with a price per
\* call is charged nothing at all.
Explained ==
  /\ price.sales = One /\ price.others = One /\ price.cap = None
  /\ TotalTokens(usage) > 0
  /\ usage.cache > 0 => price.cache # 0
  /\ entry.other.model_price # NoPrice
       => toolQuota(usage, price) = 0 /\ entry.semantic \notin AudioSemantics
  /\ CASE entry.semantic = "openai" ->
            /\ usage.create = 0 /\ usage.imageOut = 0
            /\ usage.image > 0 => usage.cache = 0 /\ format.type # "TOKENS"
       [] entry.semantic = "derived" ->
            usage.cache + usage.create + usage.c5m + usage.c1h + usage.image + usage.imageOut = 0
       [] entry.semantic = "claude" ->
            /\ toolQuota(usage, price) = 0 /\ usage.image + usage.audio + usage.imageOut = 0
            /\ usage.c5m + usage.c1h > 0 => usage.create <= usage.c5m + usage.c1h
       [] entry.semantic = "task" -> FALSE
       [] OTHER -> TRUE

\* The total the console works out rounds to the quota that was charged, but
\* for the least charge of one; whichever way it is written.
ShownIsBilled ==
  entry # None /\ Explained =>
    LET shown == Round(BillingProcess(entry, format).total, One * One * One * One)
    IN \/ entry.quota = shown
       \/ shown = 0 /\ entry.quota = 1 /\ price.modelRatio * price.group # 0

\* The sum that is written out comes to the total under it, but for images,
\* which are written at the text's price, and audio beside cached input.
SumIsTotal ==
  /\ entry # None /\ Explained /\ usage.image = 0
  /\ usage.audio * usage.cache > 0 => format.type = "TOKENS"
  =>
    LET shown == BillingProcess(entry, format)
    IN Amount(shown.parts) * getEffectiveRatio(entry.other) = shown.total

\* The three places that list the price of a kind of token list the same one.
PricesAgree ==
  entry # None =>
    LET lists == {BillingProcess(entry, format).prices, LogDetails(entry, format),
                  getUsageLogDetailSummary(entry)}
    IN \A a, b \in lists : \A x \in a, y \in b : x[1] = y[1] => x[2] = y[2]

=============================================================================
