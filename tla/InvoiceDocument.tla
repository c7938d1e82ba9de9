--------------------------- MODULE InvoiceDocument ---------------------------
(***************************************************************************)
(* What an invoice says once printed: the totals of its lines, the VAT     *)
(* rows and the amount in words (app/services/invoice_generator.py and     *)
(* amount_in_words.py).                                                    *)
(*                                                                         *)
(* A line is [qty, price, rate]: quantity, unit price and the rate in      *)
(* percent, each in hundredths as their columns hold them; but the price   *)
(* of a line as it is typed is in thousandths.  Totals in the columns are  *)
(* in hundredths.  A stored line's exact total is then in units of 10^-4   *)
(* and its VAT in units of 10^-8; a typed one's, a power of ten smaller.   *)
(* Printed VAT is in thousandths.  An amount in words is the sequence of   *)
(* its words, without accents, and without hyphens but in a word of two    *)
(* like quatre-vingt or livre-sterling.                                    *)
(***************************************************************************)
EXTENDS Integers, Sequences, FiniteSets, SequencesExt

Locales == {"fr", "en"}
Currencies == {"TND", "EUR", "USD", "GBP"}

-----------------------------------------------------------------------------
(* Totals and VAT rows *)

\* What a line may be: the CHECKs ck_invoice_items_*, and a rate of Numeric(4, 2).
Line == [qty : Nat \ {0}, price : Nat, rate : 0 .. 9999]

\* quantite * prix_unitaire, and with its VAT
LineTotal(line) == line.qty * line.price
TaxedTotal(line) == LineTotal(line) * (10000 + line.rate)

SumOf(F(_), items) == FoldLeft(LAMBDA sum, line : sum + F(line), 0, items)

\* ROUND_HALF_UP, and PostgreSQL's rounding of a numeric to its column.
HalfUp(x, unit) == (x + unit \div 2) \div unit

\* A typed line, as its columns hold it: the price is rounded.
InColumn(line) == [line EXCEPT !.price = HalfUp(line.price, 10)]

\* _compute_totals of typed lines: exact, before any rounding.
ComputeTotals(items) == [ht |-> SumOf(LineTotal, items), ttc |-> SumOf(TaxedTotal, items)]

\* Exact totals, as montant_ht and montant_ttc hold them
InColumns(exact) == [ht |-> HalfUp(exact.ht, 1000), ttc |-> HalfUp(exact.ttc, 10000000)]

\* The columns after an update that had read `read`: it writes those that differ.
Overwritten(exact, read, totals) ==
    [ht |-> IF exact.ht = 1000 * read.ht THEN totals.ht ELSE InColumns(exact).ht,
     ttc |-> IF exact.ttc = 10000000 * read.ttc THEN totals.ttc ELSE InColumns(exact).ttc]

\* The smallest amount a currency prints, in thousandths.
Quantum(currency) == IF currency = "TND" THEN 1 ELSE 10

\* VAT rounded to it.
Rounded(vat, quantum) == HalfUp(vat, 100000 * quantum) * quantum

\* The rates used, highest first.
Rates(items) ==
    LET used == {items[n].rate : n \in DOMAIN items}
    IN  CHOOSE rates \in [1 .. Cardinality(used) -> used] :
            \A m, n \in DOMAIN rates : m < n => rates[m] > rates[n]

BaseOf(items, rate) ==
    SumOf(LAMBDA line : IF line.rate = rate THEN LineTotal(line) ELSE 0, items)

\* _vat_rows: the highest rate's row takes what rounding left over.
VatRows(items, totals, currency) ==
    LET quantum == Quantum(currency)
        rates == Rates(items)
        rounded == [n \in DOMAIN rates |-> Rounded(BaseOf(items, rates[n]) * rates[n], quantum)]
        over == 10 * (totals.ttc - totals.ht) - FoldLeft(+, 0, rounded)
    IN  [n \in DOMAIN rates |->
           [rate |-> rates[n], base |-> BaseOf(items, rates[n]),
            vat |-> IF n = 1 THEN rounded[n] + over ELSE rounded[n]]]

-----------------------------------------------------------------------------
(* What a reader can check of a document's figures: its lines, subtotal,     *)
(* amount due, currency and VAT rows.                                        *)

LinesSum(lines) == SumOf(LineTotal, lines)
VatSum(rows) == FoldLeft(LAMBDA sum, row : sum + row.vat, 0, rows)

\* How far printed VAT may be from the exact one, in units of 10^-8: both
\* totals are rounded to a hundredth, and each row to the currency's digits.
RoundingStep(figures) ==
    1000000 + Len(figures.vat) * (50000 * Quantum(figures.currency))

Near(x, y, step) == x - y <= step /\ y - x <= step

\* The amount due is the subtotal with the VAT rows, of which all but the
\* first are their bases at their rates up to half of the smallest amount.
VatAddsUp(figures) ==
    /\ \A n \in DOMAIN figures.vat \ {1} :
         Near(100000 * figures.vat[n].vat, figures.vat[n].base * figures.vat[n].rate,
              50000 * Quantum(figures.currency))
    /\ 10 * figures.subtotal + VatSum(figures.vat) = 10 * figures.due

\* The three sums a reader of the document can check.
AddsUp(figures) ==
    /\ HalfUp(LinesSum(figures.lines), 100) = figures.subtotal
    /\ \A n \in DOMAIN figures.vat :
         Near(100000 * figures.vat[n].vat, figures.vat[n].base * figures.vat[n].rate,
              RoundingStep(figures))
    /\ 10 * figures.subtotal + VatSum(figures.vat) = 10 * figures.due

-----------------------------------------------------------------------------
(* Whole numbers in words *)

FrUnits == <<"un", "deux", "trois", "quatre", "cinq", "six", "sept", "huit", "neuf", "dix",
             "onze", "douze", "treize", "quatorze", "quinze", "seize">>
FrTens == <<"dix", "vingt", "trente", "quarante", "cinquante", "soixante">>
EnUnits == <<"one", "two", "three", "four", "five", "six", "seven", "eight", "nine", "ten",
             "eleven", "twelve", "thirteen", "fourteen", "fifteen", "sixteen", "seventeen",
             "eighteen", "nineteen">>
EnTens == <<"ten", "twenty", "thirty", "forty", "fifty", "sixty", "seventy", "eighty", "ninety">>

\* The words that follow the tens; nothing for a zero.
FrUnit(n) == IF n = 0 THEN <<>> ELSE <<FrUnits[n]>>
FrBelow20(n) == IF n <= 16 THEN FrUnit(n) ELSE <<"dix", FrUnits[n - 10]>>

\* Mutant: 70 to 79 are counted on from ten, like 80 to 99.
FrSeventyAsTen(n, final) ==
    CASE n < 20 -> FrBelow20(n)
      [] n \in 20 .. 69 ->
           <<FrTens[n \div 10]>> \o (IF n % 10 = 1 THEN <<"et", "un">> ELSE FrUnit(n % 10))
      [] n \in 70 .. 79 -> <<"soixante">> \o FrUnit(n - 70)
      [] n = 80 -> IF final THEN <<"quatre-vingts">> ELSE <<"quatre-vingt">>
      [] OTHER -> <<"quatre-vingt">> \o FrBelow20(n - 80)

\* _fr_below_100: quatre-vingts takes its s only when it ends the number.
FrBelow100(n, final) ==
    CASE n < 20 -> FrBelow20(n)
      [] n \in 20 .. 69 ->
           <<FrTens[n \div 10]>> \o (IF n % 10 = 1 THEN <<"et", "un">> ELSE FrUnit(n % 10))
      [] n = 71 -> <<"soixante", "et", "onze">>
      [] n \in (70 .. 79) \ {71} -> <<"soixante">> \o FrBelow20(n - 60)
      [] n = 80 -> IF final THEN <<"quatre-vingts">> ELSE <<"quatre-vingt">>
      [] OTHER -> <<"quatre-vingt">> \o FrBelow20(n - 80)

\* _fr_below_1000
FrBelow1000(n, final) ==
    LET hundreds == n \div 100
        cent == CASE hundreds = 0 -> <<>>
                  [] hundreds = 1 -> <<"cent">>
                  [] hundreds > 1 /\ n % 100 = 0 /\ final -> FrUnit(hundreds) \o <<"cents">>
                  [] OTHER -> FrUnit(hundreds) \o <<"cent">>
    IN  cent \o FrBelow100(n % 100, final)

\* A group with its name, singular for one; nothing when the group is empty.
Group(count, words, one, many) ==
    IF count = 0 THEN <<>> ELSE Append(words, IF count = 1 THEN one ELSE many)

\* A number from its groups of three digits, "mille" alone for a thousand.
FrenchGroups(milliards, millions, thousands, rest) ==
    Group(milliards, FrBelow1000(milliards, TRUE), "milliard", "milliards")
    \o Group(millions, FrBelow1000(millions, TRUE), "million", "millions")
    \o (IF thousands = 1 THEN <<"mille">>
        ELSE Group(thousands, FrBelow1000(thousands, FALSE), "mille", "mille"))
    \o FrBelow1000(rest, TRUE)

\* _french
French(n) ==
    IF n = 0 THEN <<"zero">>
    ELSE FrenchGroups(n \div 1000000000, (n \div 1000000) % 1000, (n \div 1000) % 1000, n % 1000)

\* _en_below_1000
EnBelow1000(n) ==
    LET rest == n % 100
        below100 == CASE rest = 0 -> <<>>
                      [] rest \in 1 .. 19 -> <<EnUnits[rest]>>
                      [] rest > 19 /\ rest % 10 = 0 -> <<EnTens[rest \div 10]>>
                      [] OTHER -> <<EnTens[rest \div 10], EnUnits[rest % 10]>>
    IN  (IF n < 100 THEN <<>> ELSE <<EnUnits[n \div 100], "hundred">>) \o below100

\* _english
EnglishGroups(billions, millions, thousands, rest) ==
    LET part(count, name) == Group(count, EnBelow1000(count), name, name)
    IN  part(billions, "billion") \o part(millions, "million") \o part(thousands, "thousand")
        \o EnBelow1000(rest)

English(n) ==
    IF n = 0 THEN <<"zero">>
    ELSE EnglishGroups(n \div 1000000000, (n \div 1000000) % 1000, (n \div 1000) % 1000, n % 1000)

\* number_in_words
NumberInWords(n, locale) == IF locale = "fr" THEN French(n) ELSE English(n)

-----------------------------------------------------------------------------
(* Amounts in words *)

\* CURRENCIES: the unit and the fraction, singular and plural.
Nouns(currency, locale) ==
    CASE currency = "TND" -> <<"dinar", "dinars", "millime", "millimes">>
      [] currency = "EUR" /\ locale = "fr" -> <<"euro", "euros", "centime", "centimes">>
      [] currency = "EUR" /\ locale = "en" -> <<"euro", "euros", "cent", "cents">>
      [] currency = "USD" -> <<"dollar", "dollars", "cent", "cents">>
      [] currency = "GBP" /\ locale = "fr" -> <<"livre-sterling", "livres-sterling", "penny", "pence">>
      [] currency = "GBP" /\ locale = "en" -> <<"pound", "pounds", "penny", "pence">>

\* How many of the currency's fractions a hundredth is.
PerHundredth(currency) == IF currency = "TND" THEN 10 ELSE 1

\* amount_in_words, of an amount in hundredths
AmountInWords(amount, currency, locale) ==
    LET whole == amount \div 100
        fraction == (amount % 100) * PerHundredth(currency)
        nouns == Nouns(currency, locale)
        number == NumberInWords(whole, locale)
        ofMillions == /\ locale = "fr"
                      /\ Last(number) \in {"million", "millions", "milliard", "milliards"}
        units == IF ofMillions THEN number \o <<"de", nouns[2]>>
                 ELSE Append(number, IF whole <= 1 THEN nouns[1] ELSE nouns[2])
        fractions == Append(NumberInWords(fraction, locale),
                            IF fraction = 1 THEN nouns[3] ELSE nouns[4])
    IN  CASE fraction = 0 -> units
          [] whole = 0 /\ fraction > 0 -> fractions
          [] OTHER -> units \o <<IF locale = "fr" THEN "et" ELSE "and">> \o fractions

-----------------------------------------------------------------------------
(***************************************************************************)
(* The reference: what a reader understands from the words.  Words below a *)
(* hundred add up, a word for a power of ten multiplies what came since    *)
(* the last one, and words like "et" mean nothing.  The last word names    *)
(* what is counted.                                                        *)
(***************************************************************************)

Meaning(word) ==
    LET at(words) == SelectInSeq(words, LAMBDA w : w = word)
    IN  CASE at(FrUnits) > 0 -> at(FrUnits)
          [] at(EnUnits) > 0 -> at(EnUnits)
          [] at(FrTens) > 0 -> 10 * at(FrTens)
          [] at(EnTens) > 0 -> 10 * at(EnTens)
          [] word \in {"quatre-vingt", "quatre-vingts"} -> 80
          [] OTHER -> 0

Power(word) ==
    CASE word \in {"mille", "thousand"} -> 1000
      [] word \in {"million", "millions"} -> 1000000
      [] word \in {"milliard", "milliards", "billion"} -> 1000000000
      [] OTHER -> 0

Hear(heard, word) ==
    CASE word \in {"cent", "cents", "hundred"} ->
           [heard EXCEPT !.group = 100 * (IF @ = 0 THEN 1 ELSE @)]
      [] Power(word) > 0 ->
           [sum |-> heard.sum + Power(word) * (IF heard.group = 0 THEN 1 ELSE heard.group),
            group |-> 0]
      [] OTHER -> [heard EXCEPT !.group = @ + Meaning(word)]

ReadNumber(words) ==
    LET heard == FoldLeft(Hear, [sum |-> 0, group |-> 0], words)
    IN  heard.sum + heard.group

\* The amount a reader of a currency understands, in hundredths.
ReadAmount(words, currency, locale) ==
    LET nouns == Nouns(currency, locale)
        unit == SelectLastInSeq(words, LAMBDA word : word \in {nouns[1], nouns[2]})
        whole == IF unit = 0 THEN 0 ELSE ReadNumber(SubSeq(words, 1, unit - 1))
        fraction == IF unit = Len(words) THEN 0
                    ELSE ReadNumber(SubSeq(words, unit + 1, Len(words) - 1))
    IN  100 * whole + fraction \div PerHundredth(currency)
=============================================================================
